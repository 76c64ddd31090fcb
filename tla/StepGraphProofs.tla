--------------------------- MODULE StepGraphProofs ---------------------------
(***************************************************************************)
(* The graph of steps keeps its bookkeeping while the queue monitor makes  *)
(* it and tasks end steps: for every graph of derivations, every set of    *)
(* builds and steps, and every choice of the faults.                       *)
(***************************************************************************)
EXTENDS StepGraph, TLAPS

Framed(st)   == frame[st].pc # "none"
Inputs(st)   == InputDrvs[DrvOf[st]]
Children(st) == {c \in Steps : Framed(c) /\ frame[c].parent = st}

(* The frame of a step belongs to a build whose create_step has not        *)
(* returned, and to the frame of the step that refers to it, which is one  *)
(* of its rdeps.                                                           *)
FrameOwned(st) ==
    /\ frame[st].build \in Builds /\ creating[frame[st].build].pc = "step"
    /\ frame[st].parent = NoStep => creating[frame[st].build].step = st
    /\ frame[st].parent # NoStep =>
          /\ Framed(frame[st].parent) /\ frame[frame[st].parent].build = frame[st].build
          /\ DrvOf[st] \in Elements(Inputs(frame[st].parent))
          /\ frame[st].parent \in rdeps[st]

(* How far create_step has come. *)
FrameAt(st) ==
    /\ st \in created <=> frame[st].pc = "created"
    /\ frame[st].pc \in {"inputs", "add_dep", "created"} =>
          DOMAIN frame[st].got = DOMAIN Inputs(st)
    /\ frame[st].pc = "add_dep" =>
          frame[st].next \in DOMAIN frame[st].got /\ NextInput(st).kind = "Valid"

FramesTrue ==
    \A st \in Steps : IF Framed(st) THEN FrameOwned(st) /\ FrameAt(st) ELSE DOMAIN frame[st].got = {}

(* At most one create_step is between two awaits. *)
OneRuns ==
    \A s, t \in Steps :
        frame[s].pc \in {"add_dep", "created"} /\ frame[t].pc \in {"add_dep", "created"} => s = t

(* A step that create_step may make a dependency knows the one that waits. *)
GotKnown ==
    \A st \in Steps : \A i \in DOMAIN frame[st].got :
        LET r == frame[st].got[i] IN
        r.kind = "Valid" => r.step \in Steps /\ st \in rdeps[r.step]

(* Every frame is below the one of a toplevel: a set that has those, and   *)
(* the frames below its elements, has all.                                 *)
FramesBelow ==
    \A T \in SUBSET Steps :
        /\ \A st \in Steps : Framed(st) /\ frame[st].parent = NoStep => st \in T
        /\ \A st \in T : Children(st) \subseteq T
        => \A st \in Steps : Framed(st) => st \in T

(* Every build under creation is below the one process_new_builds creates. *)
Active == {b \in Builds : creating[b].pc # "none"}
Subs(b) == IF creating[b].pc = "nested" THEN creating[b].sub ELSE {}
BuildsBelow ==
    /\ mon.ids \cap Active = {}
    /\ mon.pc # "create" => Active = {}
    /\ mon.pc = "create" =>
          /\ mon.top \in Builds
          /\ \A T \in SUBSET Builds :
                mon.top \in T /\ (\A b \in T : Subs(b) \subseteq T) => Active \subseteq T

(* A step that is runnable, or is about to be, is complete and waits for   *)
(* nothing.                                                                *)
Ready ==
    /\ \A st \in runnable \cup mon.new_runnable : st \in created /\ deps[st] = {}
    /\ mon.todo \subseteq mon.new_runnable
    /\ mon.pc = "make_runnable" => mon.new_runnable \subseteq runnable \cup mon.todo

IInv ==
    /\ TypeOK /\ FramesTrue /\ OneRuns /\ GotKnown /\ FramesBelow /\ BuildsBelow /\ Ready
    /\ DepsKnown /\ NoLostWakeup

-----------------------------------------------------------------------------
(* Where every derivation can be read and none is known to fail, an input  *)
(* of a complete step is built or waited for.                              *)

BuiltTrue ==
    /\ previous_failure = {} /\ mon.finished_drvs \subseteq built
    /\ \A st \in finished : DrvOf[st] \in built
    /\ \A st \in Steps :
          /\ frame[st].pc = "present" => DrvOf[st] \in built
          /\ task[st].pc \in {"imported", "finish", "succeed", "notify"} => DrvOf[st] \in built
          /\ task[st].pc # "none" => Elements(Inputs(st)) \subseteq built

Covered(st, i) == Inputs(st)[i] \in built \/ \E c \in deps[st] : DrvOf[c] = Inputs(st)[i]

InputsCovered ==
    \A st \in Steps : \A i \in DOMAIN Inputs(st) :
        \/ st \in created
        \/ frame[st].pc \in {"inputs", "add_dep"} /\ i < frame[st].next
        => Covered(st, i)

GotTrue ==
    \A st \in Steps : \A i \in DOMAIN frame[st].got :
        LET r == frame[st].got[i] IN
        /\ r.kind = "Valid" => DrvOf[r.step] = Inputs(st)[i]
        /\ r.kind = "None" => Inputs(st)[i] \in built
        /\ r.kind # "PreviousFailure"

BInv == BuiltTrue /\ InputsCovered /\ GotTrue
-----------------------------------------------------------------------------
(* Reachability and what is alive.                                         *)

LEMMA ReachContains ==
    ASSUME NEW S \in SUBSET Steps, NEW succ
    PROVE  S \subseteq Reach(S, succ) /\ Reach(S, succ) \subseteq Steps
  BY DEF Reach

LEMMA ReachClosed ==
    ASSUME NEW S, NEW succ, NEW x \in Reach(S, succ), NEW y \in succ[x], y \in Steps
    PROVE  y \in Reach(S, succ)
  <1> SUFFICES ASSUME NEW T \in SUBSET (Steps \ {y}), S \subseteq T, \A z \in T : succ[z] \subseteq T
               PROVE  FALSE
    BY DEF Reach
  <1>1. x \in T
    <2> SUFFICES ASSUME x \notin T PROVE FALSE
      OBVIOUS
    <2>1. T \in SUBSET (Steps \ {x})
      OBVIOUS
    <2> QED BY <2>1 DEF Reach
  <1> QED BY <1>1

LEMMA ReachLeast ==
    ASSUME NEW S, NEW succ, NEW T \in SUBSET Steps, S \subseteq T, \A x \in T : succ[x] \subseteq T
    PROVE  Reach(S, succ) \subseteq T
  <1> SUFFICES ASSUME NEW x \in Reach(S, succ), x \notin T PROVE FALSE
    OBVIOUS
  <1>1. T \in SUBSET (Steps \ {x})
    OBVIOUS
  <1> QED BY <1>1 DEF Reach

(* T has what something other than a Step holds. *)
BuildsHold(T) ==
    \A b \in Builds :
        /\ toplevel[b] \in T \cup {NoStep} /\ creating[b].res.step \in T \cup {NoStep}
        /\ creating[b].new_steps \subseteq T
FramesHold(T) ==
    \A st \in Steps :
        /\ Framed(st) => st \in T
        /\ \A i \in DOMAIN frame[st].got : frame[st].got[i].step \in T \cup {NoStep}
TasksHold(T) == \A st \in Steps : task[st].pc # "none" => st \in T
HeldIn(T) == BuildsHold(T) /\ FramesHold(T) /\ TasksHold(T) /\ mon.new_runnable \subseteq T
ClosedIn(T) == \A st \in T : deps[st] \subseteq T

LEMMA GotTyped ==
    ASSUME TypeOK, NEW st \in Steps
    PROVE  /\ frame[st].got \in Seq(Result)
           /\ \A i \in DOMAIN frame[st].got :
                 frame[st].got[i] \in Result /\ frame[st].got[i].step \in Steps \cup {NoStep}
  <1>1. frame[st].got \in Seq(Result)
    BY DEF TypeOK
  <1>2. \A i \in DOMAIN frame[st].got : frame[st].got[i] \in Result
    BY <1>1
  <1>3. \A r \in Result : r.step \in Steps \cup {NoStep}
    BY DEF Result
  <1> QED BY <1>1, <1>2, <1>3

LEMMA AliveHolds ==
    ASSUME TypeOK
    PROVE  Alive \in SUBSET Steps /\ HeldIn(Alive) /\ ClosedIn(Alive)
  <1>1. Held \subseteq Alive /\ Alive \subseteq Steps
    <2>1. Held \in SUBSET Steps
      BY DEF Held
    <2> QED BY <2>1, ReachContains DEF Alive
  <1>2. ClosedIn(Alive)
    <2> SUFFICES ASSUME NEW x \in Alive, NEW y \in deps[x] PROVE y \in Alive
      BY DEF ClosedIn
    <2>1. y \in Steps
      BY <1>1 DEF TypeOK
    <2> QED BY <2>1, ReachClosed DEF Alive
  <1>3. BuildsHold(Alive)
    <2>1. ASSUME NEW b \in Builds
          PROVE  /\ toplevel[b] \in Steps \cup {NoStep} /\ creating[b].res \in Result
                 /\ creating[b].new_steps \subseteq Steps
      BY DEF TypeOK
    <2>2. ASSUME NEW b \in Builds
          PROVE  creating[b].res.step \in Steps \cup {NoStep}
      BY <2>1 DEF Result
    <2> QED BY <2>1, <2>2, <1>1 DEF BuildsHold, Held
  <1>4. FramesHold(Alive)
    BY <1>1, GotTyped DEF FramesHold, Held, Framed
  <1>5. TasksHold(Alive)
    BY <1>1 DEF TasksHold, Held
  <1>6. mon.new_runnable \subseteq Alive
    BY <1>1 DEF Held, TypeOK
  <1> QED BY <1>1, <1>2, <1>3, <1>4, <1>5, <1>6 DEF HeldIn

(* What is alive after a step. *)
LEMMA AliveNext ==
    ASSUME NEW T \in SUBSET Steps, HeldIn(T)', ClosedIn(T)'
    PROVE  Alive' \subseteq T
  <1>1. Held' \subseteq T
    <2>1. NoStep \notin Steps
      BY ConstantsAssumption
    <2> QED BY <2>1 DEF Held, HeldIn, BuildsHold, FramesHold, TasksHold, Framed
  <1> QED BY <1>1, ReachLeast DEF Alive, ClosedIn
-----------------------------------------------------------------------------
(* What the parts of the actions do.                                       *)

FrameType == [pc: Frames, parent: Steps \cup {NoStep}, build: Builds \cup {NoBuild},
              got: Seq(Result), next: Nat]
CreatingType == [pc: BuildPcs, step: Steps \cup {NoStep}, res: Result,
                 new_steps: SUBSET Steps, sub: SUBSET Builds, ended: BOOLEAN]
MonType == [pc: {"wait", "load", "next", "create", "make_runnable"}, ids: SUBSET Builds,
            top: Builds \cup {NoBuild}, new_runnable: SUBSET Steps, todo: SUBSET Steps,
            finished_drvs: SUBSET Drvs]
TaskType == [pc: TaskPcs, ids: SUBSET Builds, fresh: SUBSET Builds, looped: BOOLEAN]

FrameTyped == /\ frame \in [Steps -> FrameType]
              /\ \A st \in Steps : frame[st].next \in 1 .. Len(frame[st].got) + 1
GraphTyped == /\ steps \in [Drvs -> Steps \cup {NoStep}]
              /\ \A d \in Drvs : steps[d] # NoStep => DrvOf[steps[d]] = d
              /\ finished \subseteq Steps /\ previous_failure \subseteq Steps
              /\ created \subseteq Steps /\ runnable \subseteq Steps
              /\ deps \in [Steps -> SUBSET Steps] /\ rdeps \in [Steps -> SUBSET Steps]
RestTyped ==
    /\ db \in [Builds -> {"absent", "queued", "succeeded", "failed", "cancelled"}]
    /\ notes \subseteq {"builds_added", "builds_cancelled"}
    /\ built \subseteq Drvs
    /\ toplevel \in [Builds -> Steps \cup {NoStep}]
    /\ creating \in [Builds -> CreatingType]
    /\ mon \in MonType
    /\ task \in [Steps -> TaskType]

LEMMA TypeIs == TypeOK <=> FrameTyped /\ GraphTyped /\ RestTyped
  BY Zenon DEF TypeOK, FrameTyped, GraphTyped, RestTyped, FrameType, CreatingType, MonType, TaskType

LEMMA TypeIsNext == TypeOK' <=> FrameTyped' /\ GraphTyped' /\ RestTyped'
  BY Zenon DEF TypeOK, FrameTyped, GraphTyped, RestTyped, FrameType, CreatingType, MonType, TaskType

LEMMA GotExcept ==
    ASSUME NEW s \in Seq(Result), NEW i, NEW r \in Result
    PROVE  /\ [s EXCEPT ![i] = r] \in Seq(Result)
           /\ DOMAIN [s EXCEPT ![i] = r] = DOMAIN s /\ Len([s EXCEPT ![i] = r]) = Len(s)
           /\ \A k \in DOMAIN s : [s EXCEPT ![i] = r][k] = IF k = i THEN r ELSE s[k]
  <1> DEFINE e == [s EXCEPT ![i] = r]
  <1>0. s \in [1..Len(s) -> Result] /\ Len(s) \in Nat /\ DOMAIN s = 1..Len(s)
    OBVIOUS
  <1>1. e \in [1..Len(s) -> Result]
    BY <1>0
  <1>2. \A k \in DOMAIN s : e[k] = IF k = i THEN r ELSE s[k]
    OBVIOUS
  <1> HIDE DEF e
  <1>3. e \in Seq(Result) /\ Len(e) = Len(s) /\ DOMAIN e = DOMAIN s
    BY <1>0, <1>1
  <1> QED BY <1>2, <1>3 DEF e

LEMMA BelowHas ==
    ASSUME NEW st \in Steps
    PROVE  /\ st \in Below(st) /\ Below(st) \in SUBSET Steps
           /\ \A s \in Below(st) : Children(s) \subseteq Below(st)
  <1> DEFINE succ == [s \in Steps |-> {c \in Steps : frame[c].pc # "none" /\ frame[c].parent = s}]
  <1>1. Below(st) = Reach({st}, succ)
    BY DEF Below
  <1>2. \A s \in Steps : succ[s] = Children(s)
    BY DEF Children, Framed
  <1> HIDE DEF succ
  <1>3. st \in Below(st) /\ Below(st) \in SUBSET Steps
    BY <1>1, ReachContains
  <1>4. \A s \in Below(st) : Children(s) \subseteq Below(st)
    <2> SUFFICES ASSUME NEW s \in Below(st), NEW c \in Children(s)
                 PROVE  c \in Below(st)
      OBVIOUS
    <2>1. s \in Steps /\ c \in Steps
      BY <1>3 DEF Children
    <2>2. c \in succ[s]
      BY <1>2, <2>1
    <2>3. s \in Reach({st}, succ)
      BY <1>1
    <2>4. c \in Reach({st}, succ)
      BY <2>1, <2>2, <2>3, ReachClosed
    <2> QED BY <1>1, <2>4
  <1> QED BY <1>3, <1>4

(* The place of st among the results s waits for. *)
Answers(st, s, i) == s = frame[st].parent /\ i = InputIndex(s, DrvOf[st])

(* create_step of st returns r: the frames below st go, and the one it     *)
(* refers to has the result.                                               *)
LEMMA ReturnEffect ==
    ASSUME TypeOK, NEW st \in Steps, NEW r \in Result, NEW cr, Return(st, r, cr)
    PROVE  /\ FrameTyped'
           /\ \A s \in Below(st) : ~Framed(s)' /\ DOMAIN frame'[s].got = {}
           /\ \A s \in Steps \ Below(st) :
                 /\ frame'[s].pc = frame[s].pc /\ frame'[s].parent = frame[s].parent
                 /\ frame'[s].build = frame[s].build /\ frame'[s].next = frame[s].next
                 /\ DOMAIN frame'[s].got = DOMAIN frame[s].got
                 /\ \A i \in DOMAIN frame[s].got :
                       \/ frame'[s].got[i] = frame[s].got[i]
                       \/ Answers(st, s, i) /\ frame'[s].got[i] = r
           /\ creating' = IF frame[st].parent = NoStep
                          THEN [cr EXCEPT ![frame[st].build].res = r, ![frame[st].build].pc = "result"]
                          ELSE cr
  <1> DEFINE p == frame[st].parent
             B == Below(st)
             without == [s \in Steps |-> IF s \in B THEN NoFrame ELSE frame[s]]
             k == InputIndex(p, DrvOf[st])
  <1>1. FrameTyped /\ B \in SUBSET Steps
    BY TypeIs, BelowHas
  <1>2. IF p = NoStep THEN frame' = without ELSE frame' = [without EXCEPT ![p].got[k] = r]
    BY DEF Return
  <1>3. creating' = IF p = NoStep
                    THEN [cr EXCEPT ![frame[st].build].res = r, ![frame[st].build].pc = "result"]
                    ELSE cr
    BY DEF Return
  <1>4. NoFrame \in FrameType /\ NoFrame.pc = "none" /\ NoFrame.got = <<>> /\ NoFrame.next = 1
    BY DEF NoFrame, FrameType, Frames
  <1>5. without \in [Steps -> FrameType]
    BY <1>1, <1>4 DEF FrameTyped
  <1>6. p \in Steps \cup {NoStep}
    BY <1>1 DEF FrameTyped, FrameType
  <1>7. \A s \in Steps : without[s].next \in 1 .. Len(without[s].got) + 1
    BY <1>1, <1>4 DEF FrameTyped
  <1>8. \A s \in Steps : IF s \in B THEN without[s] = NoFrame ELSE without[s] = frame[s]
    OBVIOUS
  <1> HIDE DEF without, B, k
  <1>9. ASSUME NEW s \in Steps
        PROVE  /\ frame'[s] \in FrameType
               /\ frame'[s].pc = without[s].pc /\ frame'[s].parent = without[s].parent
               /\ frame'[s].build = without[s].build /\ frame'[s].next = without[s].next
               /\ DOMAIN frame'[s].got = DOMAIN without[s].got
               /\ Len(frame'[s].got) = Len(without[s].got)
               /\ \A i \in DOMAIN without[s].got :
                       \/ frame'[s].got[i] = without[s].got[i]
                       \/ s = p /\ i = k /\ frame'[s].got[i] = r
    <2>1. CASE p = NoStep \/ s # p
      <3>1. frame'[s] = without[s]
        BY <1>2, <1>5, <2>1
      <3> QED BY <3>1, <1>5
    <2>2. CASE p # NoStep /\ s = p
      <3>1. frame'[s] = [without[s] EXCEPT !.got = [without[s].got EXCEPT ![k] = r]]
        BY <1>2, <1>5, <2>2
      <3>2. without[s] \in FrameType /\ without[s].got \in Seq(Result)
        BY <1>5 DEF FrameType
      <3> DEFINE g == [without[s].got EXCEPT ![k] = r]
      <3>3. /\ g \in Seq(Result) /\ DOMAIN g = DOMAIN without[s].got
            /\ Len(g) = Len(without[s].got)
            /\ \A i \in DOMAIN without[s].got : g[i] = IF i = k THEN r ELSE without[s].got[i]
        BY <3>2, GotExcept
      <3> HIDE DEF g
      <3>4. /\ frame'[s] \in FrameType /\ frame'[s].got = g
            /\ frame'[s].pc = without[s].pc /\ frame'[s].parent = without[s].parent
            /\ frame'[s].build = without[s].build /\ frame'[s].next = without[s].next
        BY <3>1, <3>2, <3>3 DEF FrameType, g
      <3> QED BY <3>3, <3>4, <2>2
    <2> QED BY <2>1, <2>2
  <1>10. frame' \in [Steps -> FrameType]
    <2>1. frame' = [s \in Steps |-> frame'[s]]
      BY <1>2, <1>5
    <2> QED BY <2>1, <1>9
  <1>11. FrameTyped'
    BY <1>7, <1>9, <1>10 DEF FrameTyped
  <1>12. \A s \in B : ~Framed(s)' /\ DOMAIN frame'[s].got = {}
    BY <1>1, <1>4, <1>8, <1>9 DEF Framed
  <1>13. \A s \in Steps : \A i : s = p /\ i = k => Answers(st, s, i)
    BY DEF Answers, k
  <1>14. ASSUME NEW s \in Steps \ B
         PROVE  /\ frame'[s].pc = frame[s].pc /\ frame'[s].parent = frame[s].parent
                /\ frame'[s].build = frame[s].build /\ frame'[s].next = frame[s].next
                /\ DOMAIN frame'[s].got = DOMAIN frame[s].got
                /\ \A i \in DOMAIN frame[s].got :
                      \/ frame'[s].got[i] = frame[s].got[i]
                      \/ Answers(st, s, i) /\ frame'[s].got[i] = r
    <2>1. s \in Steps /\ without[s] = frame[s]
      BY <1>8
    <2> QED BY <1>9, <1>13, <2>1
  <1> QED BY <1>3, <1>11, <1>12, <1>14 DEF B

(* Steps::create gives a derivation the Step it has, or one nobody holds. *)
LEMMA FreshSteps ==
    ASSUME TypeOK, NEW ds \in SUBSET Drvs, \A d \in ds : Existing(d) \/ HasFree(d)
    PROVE  /\ \A d \in ds : /\ StepFor(d) \in Steps /\ DrvOf[StepFor(d)] = d
                            /\ Existing(d) => StepFor(d) = steps[d] /\ StepFor(d) \in Alive
                            /\ ~Existing(d) => StepFor(d) \in Fresh(ds)
           /\ \A s \in Fresh(ds) : s \in Steps /\ s \notin Alive /\ DrvOf[s] \in ds
                                   /\ ~Existing(DrvOf[s]) /\ StepFor(DrvOf[s]) = s
                                   /\ \A b \in Builds : creating[b].step # s
           /\ Fresh(ds) \in SUBSET Steps
  <1>1. ASSUME NEW d \in ds, Existing(d)
        PROVE  StepFor(d) = steps[d] /\ StepFor(d) \in Alive /\ StepFor(d) \in Steps /\ DrvOf[StepFor(d)] = d
    <2>1. StepFor(d) = steps[d] /\ steps[d] # NoStep /\ steps[d] \in Alive
      BY <1>1 DEF StepFor, Existing
    <2>2. steps[d] \in Steps \cup {NoStep} /\ (steps[d] # NoStep => DrvOf[steps[d]] = d)
      BY DEF TypeOK
    <2> QED BY <2>1, <2>2
  <1>2. ASSUME NEW d \in ds, ~Existing(d)
        PROVE  StepFor(d) \in Steps /\ DrvOf[StepFor(d)] = d /\ Free(StepFor(d))
    <2>1. \E st \in Steps : DrvOf[st] = d /\ Free(st)
      BY <1>2 DEF HasFree
    <2>2. StepFor(d) = CHOOSE st \in Steps : DrvOf[st] = d /\ Free(st)
      BY <1>2 DEF StepFor
    <2> QED BY <2>1, <2>2
  <1>3. ASSUME NEW s \in Fresh(ds)
        PROVE  s \in Steps /\ s \notin Alive /\ DrvOf[s] \in ds
               /\ ~Existing(DrvOf[s]) /\ StepFor(DrvOf[s]) = s
               /\ \A b \in Builds : creating[b].step # s
    <2>1. PICK d \in ds : ~Existing(d) /\ s = StepFor(d)
      BY DEF Fresh
    <2>2. s \in Steps /\ DrvOf[s] = d /\ Free(s)
      BY <2>1, <1>2
    <2> QED BY <2>1, <2>2 DEF Free
  <1>4. \A d \in ds : ~Existing(d) => StepFor(d) \in Fresh(ds)
    BY DEF Fresh
  <1> QED BY <1>1, <1>2, <1>3, <1>4

LEMMA CreateStepsEffect ==
    ASSUME TypeOK, NEW ds \in SUBSET Drvs, NEW ref \in SUBSET Steps, CreateSteps(ds, ref)
    PROVE  /\ GraphTyped'
           /\ \A d \in ds : Existing(d) \/ HasFree(d)
           /\ runnable' = runnable \ Fresh(ds) /\ created' = created \ Fresh(ds)
           /\ finished' = finished \ Fresh(ds) /\ previous_failure' = previous_failure \ Fresh(ds)
           /\ \A s \in Steps : deps'[s] = IF s \in Fresh(ds) THEN {} ELSE deps[s]
           /\ \A s \in Steps : (IF s \in Fresh(ds) THEN {} ELSE rdeps[s]) \ Fresh(ds) \subseteq rdeps'[s]
           /\ \A d \in ds : ref \subseteq rdeps'[StepFor(d)]
  <1> DEFINE fresh == Fresh(ds)
             called == {StepFor(d) : d \in ds}
             base(s) == (IF s \in fresh THEN {} ELSE rdeps[s]) \ fresh
             more(s) == IF s \in called THEN ref ELSE {}
  <1>1. /\ \A d \in ds : Existing(d) \/ HasFree(d)
        /\ steps' = [d \in Drvs |-> IF d \in ds THEN StepFor(d) ELSE steps[d]]
        /\ finished' = finished \ fresh
        /\ previous_failure' = previous_failure \ fresh
        /\ created' = created \ fresh
        /\ runnable' = runnable \ fresh
        /\ deps' = [st \in Steps |-> IF st \in fresh THEN {} ELSE deps[st]]
        /\ rdeps' = [st \in Steps |-> base(st) \cup more(st)]
    BY DEF CreateSteps
  <1>2. \A d \in ds : StepFor(d) \in Steps /\ DrvOf[StepFor(d)] = d
    BY <1>1, FreshSteps
  <1>3. fresh \in SUBSET Steps
    BY <1>1, FreshSteps
  <1>4. \A s \in Steps : base(s) \in SUBSET Steps /\ more(s) \in SUBSET Steps
    BY DEF TypeOK
  <1>5. \A d \in ds : more(StepFor(d)) = ref
    OBVIOUS
  <1>6. steps' \in [Drvs -> Steps \cup {NoStep}] /\ \A d \in Drvs : steps'[d] # NoStep => DrvOf[steps'[d]] = d
    BY <1>1, <1>2 DEF TypeOK
  <1> HIDE DEF fresh, called, more
  <1>7. rdeps' \in [Steps -> SUBSET Steps]
    <2> HIDE DEF base
    <2> QED BY <1>1, <1>4
  <1>8. GraphTyped'
    BY <1>1, <1>6, <1>7 DEF TypeOK, GraphTyped
  <1>9. \A s \in Steps : base(s) \subseteq rdeps'[s] /\ more(s) \subseteq rdeps'[s]
    <2> HIDE DEF base
    <2> QED BY <1>1
  <1> QED BY <1>1, <1>2, <1>5, <1>8, <1>9 DEF fresh

(* What make_rdeps_runnable of the steps F does. *)
LEMMA MakeRdepsEffect ==
    ASSUME TypeOK, NEW F, MakeRdepsRunnable(F)
    PROVE  /\ deps' \in [Steps -> SUBSET Steps] /\ rdeps' \in [Steps -> SUBSET Steps]
           /\ runnable' \in SUBSET Steps /\ runnable \subseteq runnable'
           /\ \A p \in Steps : deps'[p] \subseteq deps[p]
           /\ \A p \in Steps : \A d \in deps[p] \ deps'[p] : \E c \in F : DrvOf[c] = DrvOf[d]
           /\ \A p \in runnable' \ runnable : p \in created /\ deps'[p] = {}
           /\ \A p \in Alive, c \in Steps : p \in rdeps[c] => p \in rdeps'[c]
           /\ \A p \in Alive \cap created : deps'[p] = {} /\ deps[p] # {} => p \in runnable'
  <1> DEFINE gone(p) == {d \in deps[p] : \E c \in F : p \in rdeps[c] /\ DrvOf[c] = DrvOf[d]}
  <1>1. \A p \in Steps : deps'[p] = deps[p] \ gone(p) /\ deps'[p] \in SUBSET Steps
    BY DEF MakeRdepsRunnable, TypeOK
  <1>2. deps' \in [Steps -> SUBSET Steps]
    BY DEF MakeRdepsRunnable, TypeOK
  <1>3. rdeps' \in [Steps -> SUBSET Steps]
    BY DEF MakeRdepsRunnable, TypeOK
  <1>4. Alive \in SUBSET Steps
    BY AliveHolds
  <1>5. runnable' \in SUBSET Steps /\ runnable \subseteq runnable'
    BY <1>4 DEF MakeRdepsRunnable, TypeOK
  <1>6. \A p \in runnable' \ runnable : p \in created /\ deps'[p] = {}
    BY DEF MakeRdepsRunnable
  <1>7. \A p \in Alive, c \in Steps : p \in rdeps[c] => p \in rdeps'[c]
    BY DEF MakeRdepsRunnable
  <1>8. ASSUME NEW p \in Alive \cap created, deps'[p] = {}, deps[p] # {}
        PROVE  p \in runnable'
    <2>1. PICK d \in gone(p) : TRUE
      BY <1>1, <1>4, <1>8
    <2>2. \E c \in F : p \in rdeps[c]
      BY <2>1
    <2> QED BY <2>2, <1>8 DEF MakeRdepsRunnable
  <1>9. \A p \in Steps : \A d \in deps[p] \ deps'[p] : \E c \in F : DrvOf[c] = DrvOf[d]
    BY <1>1
  <1> QED BY <1>1, <1>2, <1>3, <1>5, <1>6, <1>7, <1>8, <1>9
-----------------------------------------------------------------------------
(* What keeps the parts of the invariant.                                  *)

(* Nothing dead comes to life. *)
LEMMA AliveShrinks ==
    ASSUME TypeOK,
           \A b \in Builds : /\ toplevel'[b] \in Alive \cup {NoStep}
                             /\ creating'[b].res.step \in Alive \cup {NoStep}
                             /\ creating'[b].new_steps \subseteq Alive,
           \A st \in Steps : /\ Framed(st)' => st \in Alive
                             /\ \A i \in DOMAIN frame'[st].got :
                                   frame'[st].got[i].step \in Alive \cup {NoStep},
           \A st \in Steps : task'[st].pc # "none" => st \in Alive,
           mon'.new_runnable \subseteq Alive,
           \A st \in Alive : deps'[st] \subseteq Alive
    PROVE  Alive' \subseteq Alive
  <1>1. PICK T \in SUBSET Steps : T = Alive
    BY AliveHolds
  <1>2. BuildsHold(T)'
    BY <1>1 DEF BuildsHold
  <1>3. FramesHold(T)'
    BY <1>1 DEF FramesHold
  <1>4. TasksHold(T)'
    BY <1>1 DEF TasksHold
  <1>5. HeldIn(T)' /\ ClosedIn(T)'
    BY <1>1, <1>2, <1>3, <1>4 DEF HeldIn, ClosedIn
  <1> QED BY <1>1, <1>5, AliveNext

(* create_step is not involved. *)
LEMMA FramesKept ==
    ASSUME FramesTrue, GotKnown, FramesBelow, frame' = frame,
           frame \in [Steps -> FrameType],
           \A st \in Steps : Framed(st) => (st \in created' <=> st \in created),
           \A st, c \in Steps : Framed(st) /\ st \in rdeps[c] => st \in rdeps'[c],
           \A b \in Builds : creating[b].pc = "step" =>
               creating'[b].pc = "step" /\ creating'[b].step = creating[b].step
    PROVE  FramesTrue' /\ GotKnown' /\ FramesBelow'
  <1>1. FramesBelow'
    BY DEF FramesBelow, Children, Framed
  <1>2. GotKnown'
    <2> SUFFICES ASSUME NEW st \in Steps, NEW i \in DOMAIN frame[st].got,
                        frame[st].got[i].kind = "Valid"
                 PROVE  frame[st].got[i].step \in Steps /\ st \in rdeps'[frame[st].got[i].step]
      BY DEF GotKnown
    <2>1. Framed(st)
      BY DEF FramesTrue
    <2> QED BY <2>1 DEF GotKnown
  <1>3. FramesTrue'
    <2> SUFFICES ASSUME NEW st \in Steps
                 PROVE  (IF Framed(st) THEN FrameOwned(st) /\ FrameAt(st) ELSE DOMAIN frame[st].got = {})'
      BY DEF FramesTrue
    <2>1. CASE Framed(st)
      <3>1. FrameOwned(st) /\ FrameAt(st)
        BY <2>1 DEF FramesTrue
      <3>2. FrameAt(st)'
        BY <2>1, <3>1 DEF FrameAt, NextInput
      <3>3. frame[st].parent \in Steps \cup {NoStep}
        BY DEF FrameType
      <3>4. FrameOwned(st)'
        BY <3>1, <3>3 DEF FrameOwned, Framed, Inputs
      <3> QED BY <2>1, <3>2, <3>4 DEF Framed
    <2>2. CASE ~Framed(st)
      BY <2>2 DEF FramesTrue, Framed
    <2> QED BY <2>1, <2>2
  <1> QED BY <1>1, <1>2, <1>3

(* A step outside create_step. *)
LEMMA FramelessStep ==
    ASSUME IInv, TypeOK', BuildsBelow', frame' = frame, created' = created, finished \subseteq finished',
           \A b \in Builds :
               /\ toplevel'[b] \in Alive \cup {NoStep}
               /\ creating[b].pc = "step" =>
                     creating'[b].pc = "step" /\ creating'[b].step = creating[b].step
               /\ creating'[b].res.step \in Alive \cup {NoStep}
               /\ creating'[b].new_steps \subseteq Alive,
           \A st \in Steps : task'[st].pc # "none" => st \in Alive,
           mon'.todo \subseteq mon'.new_runnable, mon'.new_runnable \subseteq mon.new_runnable,
           mon.new_runnable \subseteq mon'.new_runnable \cup runnable',
           mon'.pc = "make_runnable" => mon'.new_runnable \subseteq runnable' \cup mon'.todo,
           \A p \in Steps : deps'[p] \subseteq deps[p],
           \A p \in Alive, c \in Steps : p \in rdeps[c] => p \in rdeps'[c],
           runnable \subseteq runnable',
           \A p \in runnable' \ runnable : p \in created /\ deps'[p] = {},
           \A p \in Alive \cap created : deps'[p] = {} /\ deps[p] # {} => p \in runnable'
    PROVE  IInv' /\ Alive' \subseteq Alive
  <1>1. Alive \in SUBSET Steps /\ HeldIn(Alive) /\ ClosedIn(Alive)
    BY AliveHolds DEF IInv
  <1>2. Alive' \subseteq Alive
    <2>1. TypeOK
      BY DEF IInv
    <2>2. \A st \in Steps : /\ Framed(st)' => st \in Alive
                            /\ \A i \in DOMAIN frame'[st].got :
                                  frame'[st].got[i].step \in Alive \cup {NoStep}
      BY <1>1 DEF HeldIn, FramesHold, Framed
    <2>3. mon'.new_runnable \subseteq Alive
      BY <1>1 DEF HeldIn
    <2>4. \A st \in Alive : deps'[st] \subseteq Alive
      BY <1>1 DEF ClosedIn
    <2> QED BY <2>1, <2>2, <2>3, <2>4, AliveShrinks
  <1>3. FramesTrue' /\ GotKnown' /\ FramesBelow'
    <2>1. frame \in [Steps -> FrameType]
      BY TypeIs DEF IInv, FrameTyped
    <2>2. \A st \in Steps : Framed(st) => st \in Alive
      BY <1>1 DEF HeldIn, FramesHold
    <2>3. FramesTrue /\ GotKnown /\ FramesBelow
      BY DEF IInv
    <2>4. \A st, c \in Steps : Framed(st) /\ st \in rdeps[c] => st \in rdeps'[c]
      BY <2>2
    <2>5. \A b \in Builds : creating[b].pc = "step" =>
               creating'[b].pc = "step" /\ creating'[b].step = creating[b].step
      OBVIOUS
    <2> QED BY <2>1, <2>3, <2>4, <2>5, FramesKept
  <1>4. Ready'
    <2>1. \A p \in runnable \cup mon.new_runnable : p \in Steps /\ p \in created /\ deps[p] = {}
      BY DEF IInv, Ready, TypeOK
    <2>2. \A p \in runnable' \cup mon.new_runnable : p \in created /\ deps'[p] = {}
      BY <2>1
    <2> QED BY <2>2 DEF Ready
  <1>5. DepsKnown'
    <2> SUFFICES ASSUME NEW p \in Alive', NEW c \in deps'[p] PROVE p \in rdeps'[c]
      BY DEF DepsKnown
    <2>1. p \in Alive /\ p \in Steps /\ c \in deps[p] /\ c \in Steps
      BY <1>1, <1>2 DEF IInv, TypeOK
    <2> QED BY <2>1 DEF IInv, DepsKnown
  <1>6. NoLostWakeup'
    <2> SUFFICES ASSUME NEW p \in Alive', p \in created, p \notin finished', p \notin runnable',
                        deps'[p] = {}
                 PROVE  p \in mon'.new_runnable \/ frame[p].pc = "created"
      BY DEF NoLostWakeup
    <2>1. p \in (Alive \cap created) \ (finished \cup runnable) /\ deps[p] = {}
      BY <1>2
    <2>2. p \in mon.new_runnable \/ frame[p].pc = "created"
      BY <2>1 DEF IInv, NoLostWakeup
    <2> QED BY <2>2
  <1>7. OneRuns'
    BY DEF IInv, OneRuns
  <1> QED BY <1>2, <1>3, <1>4, <1>5, <1>6, <1>7 DEF IInv

(* A step of someone other than the queue monitor, or its last one. *)
LEMMA OutsideStep ==
    ASSUME IInv, TypeOK', frame' = frame, created' = created, finished \subseteq finished',
           \A b \in Builds :
               /\ toplevel'[b] \in {toplevel[b], NoStep}
               /\ creating'[b].pc = creating[b].pc /\ creating'[b].step = creating[b].step
               /\ creating'[b].sub = creating[b].sub /\ creating'[b].res = creating[b].res
               /\ creating'[b].new_steps = creating[b].new_steps,
           \A st \in Steps : task'[st].pc # "none" => st \in Alive,
           mon'.ids = mon.ids /\ mon'.top = mon.top /\ mon'.todo = mon.todo,
           mon'.new_runnable = mon.new_runnable,
           mon'.pc = mon.pc \/ (mon.pc = "next" /\ mon'.pc = "wait"),
           \A p \in Steps : deps'[p] \subseteq deps[p],
           \A p \in Alive, c \in Steps : p \in rdeps[c] => p \in rdeps'[c],
           runnable \subseteq runnable',
           \A p \in runnable' \ runnable : p \in created /\ deps'[p] = {},
           \A p \in Alive \cap created : deps'[p] = {} /\ deps[p] # {} => p \in runnable'
    PROVE  IInv' /\ Alive' \subseteq Alive
  <1>1. HeldIn(Alive)
    BY AliveHolds DEF IInv
  <1>2. \A b \in Builds :
               /\ toplevel'[b] \in Alive \cup {NoStep}
               /\ creating[b].pc = "step" =>
                     creating'[b].pc = "step" /\ creating'[b].step = creating[b].step
               /\ creating'[b].res.step \in Alive \cup {NoStep}
               /\ creating'[b].new_steps \subseteq Alive
    BY <1>1 DEF HeldIn, BuildsHold
  <1>3. BuildsBelow'
    <2>1. Active' = Active
      BY DEF Active
    <2>2. \A b \in Builds : Subs(b)' = Subs(b)
      BY DEF Subs
    <2>3. CASE mon'.pc = mon.pc
      BY <2>1, <2>2, <2>3 DEF IInv, BuildsBelow
    <2>4. CASE mon.pc = "next" /\ mon'.pc = "wait"
      BY <2>1, <2>4 DEF IInv, BuildsBelow
    <2> QED BY <2>3, <2>4
  <1>4. /\ mon'.todo \subseteq mon'.new_runnable
        /\ mon'.pc = "make_runnable" => mon'.new_runnable \subseteq runnable' \cup mon'.todo
    <2>1. mon'.pc = "make_runnable" => mon.pc = "make_runnable"
      OBVIOUS
    <2> QED BY <2>1 DEF IInv, Ready
  <1>5. /\ mon'.new_runnable \subseteq mon.new_runnable
        /\ mon.new_runnable \subseteq mon'.new_runnable \cup runnable'
    OBVIOUS
  <1> QED BY <1>2, <1>3, <1>4, <1>5, FramelessStep

(* The same where the graph is left as it is. *)
LEMMA QuietStep ==
    ASSUME IInv, TypeOK', finished \subseteq finished',
           UNCHANGED <<frame, created, runnable, deps, rdeps, creating, mon, toplevel>>,
           \A st \in Steps : task'[st].pc # "none" => st \in Alive
    PROVE  IInv' /\ Alive' \subseteq Alive
  BY OutsideStep

LEMMA TasksAlive ==
    ASSUME TypeOK
    PROVE  \A st \in Steps : task[st].pc # "none" => st \in Alive
  BY AliveHolds DEF HeldIn, TasksHold

-----------------------------------------------------------------------------
(* The web interface, the dispatcher, builders, and tasks that end steps.  *)

LEMMA RowsStep ==
    ASSUME IInv, NEW b \in Builds, BuildAdded(b) \/ BuildCancelled(b)
    PROVE  IInv' /\ Alive' \subseteq Alive
  <1> USE DEF graph, flags, monitored
  <1>1. TypeOK /\ RestTyped
    BY TypeIs DEF IInv
  <1>2. db' \in [Builds -> {"absent", "queued", "succeeded", "failed", "cancelled"}]
    BY <1>1 DEF RestTyped, BuildAdded, BuildCancelled
  <1>3. notes' \subseteq {"builds_added", "builds_cancelled"}
    BY <1>1 DEF RestTyped, BuildAdded, BuildCancelled
  <1>4. UNCHANGED <<built, graph, toplevel, monitored, task>>
    BY DEF BuildAdded, BuildCancelled
  <1>5. TypeOK'
    BY <1>1, <1>2, <1>3, <1>4 DEF TypeOK
  <1> QED BY <1>1, <1>4, <1>5, QuietStep, TasksAlive

LEMMA TaskPcTyped ==
    ASSUME RestTyped, NEW st \in Steps, NEW pc \in TaskPcs, task' = [task EXCEPT ![st].pc = pc]
    PROVE  task' \in [Steps -> TaskType]
  BY DEF RestTyped, TaskType

(* A task that changes, by its fields. *)
LEMMA TaskTyped ==
    ASSUME RestTyped, NEW st \in Steps, NEW t \in TaskType, task' = [task EXCEPT ![st] = t]
    PROVE  task' \in [Steps -> TaskType]
  BY DEF RestTyped

LEMMA TaskGetsBuilds ==
    ASSUME RestTyped, NEW st \in Steps, NEW pc \in TaskPcs, NEW ids \in SUBSET Builds,
           NEW fresh \in SUBSET Builds,
           task' = [task EXCEPT ![st].pc = pc, ![st].ids = ids, ![st].fresh = fresh]
    PROVE  task' \in [Steps -> TaskType]
  <1> DEFINE t == [task[st] EXCEPT !.pc = pc, !.ids = ids, !.fresh = fresh]
  <1>1. t \in TaskType
    BY DEF RestTyped, TaskType
  <1>2. task' = [task EXCEPT ![st] = t]
    BY DEF RestTyped
  <1> HIDE DEF t
  <1> QED BY <1>1, <1>2, TaskTyped

LEMMA EnqueueStep ==
    ASSUME IInv, NEW st \in Steps, Enqueue(st)
    PROVE  IInv' /\ Alive' \subseteq Alive
  <1> USE DEF graph, flags, monitored
  <1>1. TypeOK /\ RestTyped
    BY TypeIs DEF IInv
  <1>2. task' \in [Steps -> TaskType]
    BY <1>1, TaskPcTyped DEF Enqueue, TaskPcs
  <1>3. TypeOK'
    BY <1>1, <1>2, TypeIs, TypeIsNext DEF Enqueue, FrameTyped, GraphTyped, RestTyped
  <1>4. st \in Alive /\ \A s \in Steps \ {st} : task'[s].pc = task[s].pc
    BY <1>1 DEF Enqueue, RestTyped
  <1> QED BY <1>1, <1>3, <1>4, QuietStep, TasksAlive DEF Enqueue

LEMMA BuilderStep ==
    ASSUME IInv, NEW st \in Steps, \/ Realise(st) \/ OutputsImported(st) \/ SucceedStep(st)
                                   \/ FailStep(st) \/ TaskDbError(st)
    PROVE  IInv' /\ Alive' \subseteq Alive
  <1> USE DEF graph, flags, monitored
  <1>1. TypeOK /\ RestTyped
    BY TypeIs DEF IInv
  <1>2. task' \in [Steps -> TaskType]
    <2>1. CASE Realise(st)
      <3>1. (IF IndirectBuildSets(st) = {{}} THEN "none" ELSE "building") \in TaskPcs
        BY DEF TaskPcs
      <3> QED BY <1>1, <2>1, <3>1, TaskPcTyped DEF Realise
    <2>2. CASE OutputsImported(st) \/ SucceedStep(st) \/ FailStep(st)
      BY <1>1, <2>2, TaskPcTyped DEF OutputsImported, SucceedStep, FailStep, TaskPcs
    <2>3. CASE TaskDbError(st)
      BY <1>1, <2>3 DEF TaskDbError, RestTyped, NoTask, TaskType, TaskPcs
    <2> QED BY <2>1, <2>2, <2>3
  <1>3. /\ UNCHANGED <<frame, created, runnable, deps, rdeps, creating, mon, toplevel, steps, db, notes,
                       previous_failure>>
        /\ finished \subseteq finished' /\ finished' \subseteq Steps /\ built' \subseteq Drvs
    BY <1>1, ConstantsAssumption DEF TypeOK, Realise, OutputsImported, SucceedStep, FailStep, TaskDbError
  <1>4. TypeOK'
    BY <1>1, <1>2, <1>3, TypeIs, TypeIsNext DEF FrameTyped, GraphTyped, RestTyped
  <1>5. task[st].pc # "none" /\ \A s \in Steps \ {st} : task'[s].pc = task[s].pc
    BY <1>1 DEF RestTyped, Realise, OutputsImported, SucceedStep, FailStep, TaskDbError
  <1> QED BY <1>1, <1>3, <1>4, <1>5, QuietStep, TasksAlive

LEMMA GetBuildsStep ==
    ASSUME IInv, NEW st \in Steps,
           GetDirectBuilds(st) \/ \E ids \in SUBSET Builds : GetAllIndirectBuilds(st, ids)
    PROVE  IInv' /\ Alive' \subseteq Alive
  <1> USE DEF graph, flags, monitored
  <1>1. TypeOK /\ RestTyped /\ GraphTyped
    BY TypeIs DEF IInv
  <1>2. task' \in [Steps -> TaskType]
    <2>1. CASE GetDirectBuilds(st)
      <3>1. DirectBuilds(st) \in SUBSET Builds /\ NewBuilds(st) \in SUBSET Builds
        BY DEF DirectBuilds, OldBuilds, NewBuilds
      <3>2. "succeed" \in TaskPcs
        BY DEF TaskPcs
      <3> QED BY <1>1, <2>1, <3>1, <3>2, TaskGetsBuilds DEF GetDirectBuilds
    <2>2. ASSUME NEW ids \in SUBSET Builds, GetAllIndirectBuilds(st, ids)
          PROVE  task' \in [Steps -> TaskType]
      <3> DEFINE fresh == {b \in ids : creating[b].step \in Dependents(st) /\ ~creating[b].ended}
      <3>1. fresh \in SUBSET Builds
        OBVIOUS
      <3>2. \/ task' = [task EXCEPT ![st] = NoTask]
            \/ task' = [task EXCEPT ![st].pc = "fail", ![st].ids = ids, ![st].fresh = fresh]
        BY <2>2 DEF GetAllIndirectBuilds
      <3> HIDE DEF fresh
      <3>3. CASE task' = [task EXCEPT ![st] = NoTask]
        BY <1>1, <3>3 DEF RestTyped, NoTask, TaskType, TaskPcs
      <3>4. CASE task' = [task EXCEPT ![st].pc = "fail", ![st].ids = ids, ![st].fresh = fresh]
        BY <1>1, <3>1, <3>4, TaskGetsBuilds DEF TaskPcs
      <3> QED BY <3>2, <3>3, <3>4
    <2> QED BY <2>1, <2>2
  <1>3. \A d \in Drvs : steps'[d] \in {steps[d], NoStep}
    BY <1>1 DEF GraphTyped, GetDirectBuilds, GetAllIndirectBuilds
  <1>4. steps' \in [Drvs -> Steps \cup {NoStep}]
    BY <1>1 DEF GraphTyped, GetDirectBuilds, GetAllIndirectBuilds
  <1>5. \A d \in Drvs : steps'[d] # NoStep => DrvOf[steps'[d]] = d
    BY <1>1, <1>3 DEF GraphTyped
  <1>6. UNCHANGED <<db, notes, built, flags, deps, rdeps, toplevel, monitored>>
    BY DEF GetDirectBuilds, GetAllIndirectBuilds
  <1>7. TypeOK'
    BY <1>1, <1>2, <1>4, <1>5, <1>6, TypeIs, TypeIsNext DEF FrameTyped, GraphTyped, RestTyped
  <1>8. task[st].pc # "none" /\ \A s \in Steps \ {st} : task'[s].pc = task[s].pc
    BY <1>1 DEF RestTyped, GetDirectBuilds, GetAllIndirectBuilds
  <1> QED BY <1>1, <1>6, <1>7, <1>8, QuietStep, TasksAlive

LEMMA CommitStep ==
    ASSUME IInv, NEW st \in Steps, CommitSucceeded(st) \/ CommitFailed(st)
    PROVE  IInv' /\ Alive' \subseteq Alive
  <1> USE DEF graph, flags
  <1>1. TypeOK /\ RestTyped
    BY TypeIs DEF IInv
  <1>2. PICK o \in {"succeeded", "failed"} : EndBuilds(st, o)
    BY DEF CommitSucceeded, CommitFailed
  <1>3. db' \in [Builds -> {"absent", "queued", "succeeded", "failed", "cancelled"}]
    BY <1>1, <1>2 DEF EndBuilds, RestTyped
  <1>4. toplevel' \in [Builds -> Steps \cup {NoStep}] /\ \A b \in Builds : toplevel'[b] \in {toplevel[b], NoStep}
    BY <1>1, <1>2 DEF EndBuilds, RestTyped
  <1>5. creating' \in [Builds -> CreatingType]
    BY <1>1, <1>2 DEF EndBuilds, RestTyped, CreatingType
  <1>6. \A b \in Builds :
               /\ creating'[b].pc = creating[b].pc /\ creating'[b].step = creating[b].step
               /\ creating'[b].sub = creating[b].sub /\ creating'[b].res = creating[b].res
               /\ creating'[b].new_steps = creating[b].new_steps
    BY <1>1, <1>2 DEF EndBuilds, RestTyped, CreatingType
  <1>7. task' \in [Steps -> TaskType]
    <2>1. /\ [NoTask EXCEPT !.pc = "notify"] \in TaskType
          /\ [NoTask EXCEPT !.pc = "indirect", !.looped = TRUE] \in TaskType
      BY DEF NoTask, TaskType, TaskPcs
    <2> QED BY <1>1, <2>1, TaskTyped DEF CommitSucceeded, CommitFailed
  <1>8. UNCHANGED <<notes, built, graph, frame, mon>>
    BY DEF CommitSucceeded, CommitFailed
  <1>9. TypeOK'
    BY <1>1, <1>3, <1>4, <1>5, <1>7, <1>8, TypeIs, TypeIsNext DEF FrameTyped, GraphTyped, RestTyped
  <1>10. task[st].pc # "none" /\ \A s \in Steps \ {st} : task'[s].pc = task[s].pc
    BY <1>1 DEF RestTyped, CommitSucceeded, CommitFailed
  <1>11. \A s \in Steps : task'[s].pc # "none" => s \in Alive
    BY <1>1, <1>10, TasksAlive
  <1> QED BY <1>4, <1>6, <1>8, <1>9, <1>11, OutsideStep

LEMMA RdepsStep ==
    ASSUME IInv, NewBuildsProcessed \/ \E st \in Steps : StepSucceeded(st)
    PROVE  IInv' /\ Alive' \subseteq Alive
  <1> USE DEF monitored
  <1>1. TypeOK /\ RestTyped
    BY TypeIs DEF IInv
  <1>2. PICK F : MakeRdepsRunnable(F)
    BY DEF NewBuildsProcessed, StepSucceeded
  <1>3. /\ deps' \in [Steps -> SUBSET Steps] /\ rdeps' \in [Steps -> SUBSET Steps]
        /\ runnable' \in SUBSET Steps /\ runnable \subseteq runnable'
        /\ \A p \in Steps : deps'[p] \subseteq deps[p]
        /\ \A p \in runnable' \ runnable : p \in created /\ deps'[p] = {}
        /\ \A p \in Alive, c \in Steps : p \in rdeps[c] => p \in rdeps'[c]
        /\ \A p \in Alive \cap created : deps'[p] = {} /\ deps[p] # {} => p \in runnable'
    BY <1>1, <1>2, MakeRdepsEffect
  <1>4. UNCHANGED <<db, notes, built, steps, finished, previous_failure, created, toplevel, frame, creating>>
    BY DEF NewBuildsProcessed, StepSucceeded
  <1>5. /\ mon'.ids = mon.ids /\ mon'.top = mon.top /\ mon'.todo = mon.todo
        /\ mon'.new_runnable = mon.new_runnable /\ mon' \in MonType
        /\ mon'.pc = mon.pc \/ (mon.pc = "next" /\ mon'.pc = "wait")
    BY <1>1 DEF NewBuildsProcessed, StepSucceeded, RestTyped, MonType
  <1>6. task' \in [Steps -> TaskType]
    <2>1. NoTask \in TaskType
      BY DEF NoTask, TaskType, TaskPcs
    <2>2. task' = task \/ \E st \in Steps : task' = [task EXCEPT ![st] = NoTask]
      BY DEF NewBuildsProcessed, StepSucceeded
    <2> QED BY <1>1, <2>1, <2>2, TaskTyped DEF RestTyped
  <1>7. \A s \in Steps : task'[s].pc # "none" => s \in Alive
    <2>1. \A s \in Steps : task'[s].pc # "none" => task[s].pc # "none"
      BY <1>1 DEF NewBuildsProcessed, StepSucceeded, RestTyped, NoTask
    <2> QED BY <1>1, <2>1, TasksAlive
  <1>8. TypeOK'
    BY <1>1, <1>3, <1>4, <1>5, <1>6, TypeIs, TypeIsNext DEF FrameTyped, GraphTyped, RestTyped
  <1> QED BY <1>3, <1>4, <1>5, <1>7, <1>8, OutsideStep
-----------------------------------------------------------------------------
(* process_new_builds and create_build.                                    *)

LEMMA MonUpdate ==
    ASSUME TypeOK, mon' \in MonType, notes' \subseteq notes,
           creating' \in [Builds -> CreatingType], task' \in [Steps -> TaskType],
           toplevel' \in [Builds -> Steps \cup {NoStep}], runnable' \subseteq Steps,
           db' \in [Builds -> {"absent", "queued", "succeeded", "failed", "cancelled"}],
           UNCHANGED <<built, steps, finished, previous_failure, created, deps, rdeps, frame>>
    PROVE  TypeOK'
  BY TypeIs, TypeIsNext DEF FrameTyped, GraphTyped, RestTyped

(* A step of the loop that creates no build. *)
LEMMA LoopStep ==
    ASSUME IInv, \/ \E n \in notes : ReadNotification(n)
                 \/ GetQueuedBuilds \/ AllMadeRunnable
                 \/ \E st \in Steps : MakeRunnable(st)
    PROVE  IInv' /\ Alive' \subseteq Alive
  <1> USE DEF graph, flags
  <1>1. TypeOK /\ RestTyped /\ Active = {}
    BY TypeIs DEF IInv, BuildsBelow, ReadNotification, GetQueuedBuilds, AllMadeRunnable, MakeRunnable
  <1>2. mon' \in MonType
    <2>1. CASE \E n \in notes : ReadNotification(n)
      BY <1>1, <2>1 DEF RestTyped, MonType, ReadNotification
    <2>2. CASE GetQueuedBuilds
      BY <1>1, <2>2 DEF RestTyped, MonType, GetQueuedBuilds
    <2>3. CASE AllMadeRunnable
      <3>1. CASE mon' = [mon EXCEPT !.pc = "next", !.new_runnable = {}]
        BY <1>1, <3>1 DEF RestTyped, MonType
      <3>2. CASE mon' = [mon EXCEPT !.pc = "next", !.new_runnable = {}, !.ids = {}]
        BY <1>1, <3>2 DEF RestTyped, MonType
      <3> QED BY <2>3, <3>1, <3>2 DEF AllMadeRunnable
    <2>4. CASE \E st \in Steps : MakeRunnable(st)
      BY <1>1, <2>4 DEF RestTyped, MonType, MakeRunnable
    <2> QED BY <2>1, <2>2, <2>3, <2>4
  <1>3. mon'.pc # "create"
    BY <1>1 DEF RestTyped, MonType, ReadNotification, GetQueuedBuilds, AllMadeRunnable, MakeRunnable
  <1>4. UNCHANGED <<db, built, steps, finished, previous_failure, created, deps, rdeps, frame, creating, task>>
    BY DEF ReadNotification, GetQueuedBuilds, AllMadeRunnable, MakeRunnable
  <1>5. /\ toplevel' \in [Builds -> Steps \cup {NoStep}]
        /\ \A b \in Builds : toplevel'[b] \in {toplevel[b], NoStep}
        /\ notes' \subseteq notes
    BY <1>1 DEF RestTyped, ReadNotification, GetQueuedBuilds, AllMadeRunnable, MakeRunnable
  <1>6. \A p \in runnable' \ runnable : p \in mon.new_runnable
    BY DEF MakeRunnable, ReadNotification, GetQueuedBuilds, AllMadeRunnable, IInv, Ready
  <1>7. runnable \subseteq runnable' /\ runnable' \subseteq Steps
    BY <1>1 DEF TypeOK, MakeRunnable, ReadNotification, GetQueuedBuilds, AllMadeRunnable
  <1>8. TypeOK'
    BY <1>1, <1>2, <1>4, <1>5, <1>7, MonUpdate DEF RestTyped
  <1>9. BuildsBelow'
    BY <1>1, <1>3, <1>4 DEF BuildsBelow, Active
  <1>10. /\ mon'.todo \subseteq mon'.new_runnable /\ mon'.new_runnable \subseteq mon.new_runnable
         /\ mon.new_runnable \subseteq mon'.new_runnable \cup runnable'
         /\ mon'.pc = "make_runnable" => mon'.new_runnable \subseteq runnable' \cup mon'.todo
    <2>1. CASE \E st \in Steps : MakeRunnable(st)
      BY <1>1, <2>1 DEF RestTyped, MonType, MakeRunnable, IInv, Ready
    <2>2. CASE AllMadeRunnable
      BY <1>1, <2>2 DEF RestTyped, MonType, AllMadeRunnable, IInv, Ready
    <2>3. CASE GetQueuedBuilds \/ \E n \in notes : ReadNotification(n)
      BY <1>1, <2>3 DEF RestTyped, MonType, GetQueuedBuilds, ReadNotification, IInv, Ready
    <2> QED BY <2>1, <2>2, <2>3
  <1>11. HeldIn(Alive) /\ \A st \in Steps : task'[st].pc # "none" => st \in Alive
    BY <1>1, <1>4, AliveHolds, TasksAlive
  <1>12. \A b \in Builds :
               /\ toplevel'[b] \in Alive \cup {NoStep}
               /\ creating[b].pc = "step" =>
                     creating'[b].pc = "step" /\ creating'[b].step = creating[b].step
               /\ creating'[b].res.step \in Alive \cup {NoStep}
               /\ creating'[b].new_steps \subseteq Alive
    BY <1>4, <1>5, <1>11 DEF HeldIn, BuildsHold
  <1>13. \A p \in runnable' \ runnable : p \in created /\ deps'[p] = {}
    BY <1>4, <1>6 DEF IInv, Ready
  <1>14. /\ \A p \in Steps : deps'[p] \subseteq deps[p]
         /\ \A p \in Alive, c \in Steps : p \in rdeps[c] => p \in rdeps'[c]
         /\ \A p \in Alive \cap created : deps'[p] = {} /\ deps[p] # {} => p \in runnable'
    BY <1>4
  <1> QED BY <1>4, <1>7, <1>8, <1>9, <1>10, <1>11, <1>12, <1>13, <1>14, FramelessStep

(* The loop begins with a build, or goes on after one. *)
LEMMA NextBuildStep ==
    ASSUME IInv, BuildCreated \/ \E b \in Builds : NextBuild(b)
    PROVE  IInv' /\ Alive' \subseteq Alive
  <1> USE DEF graph, flags
  <1>1. TypeOK /\ RestTyped /\ HeldIn(Alive)
    BY TypeIs, AliveHolds DEF IInv
  <1>2. UNCHANGED <<db, notes, built, graph, toplevel, frame, task>>
    BY DEF BuildCreated, NextBuild
  <1>3. NotCreating \in CreatingType /\ NotCreating.pc = "none"
    BY ConstantsAssumption DEF NotCreating, CreatingType, Pending, Result, BuildPcs
  <1>4. CASE BuildCreated
    <2>1. creating' = creating /\ mon.pc = "create" /\ creating[mon.top].pc = "none"
      BY <1>4 DEF BuildCreated
    <2>2. /\ mon' \in MonType /\ mon'.pc = "make_runnable" /\ mon'.new_runnable = mon.new_runnable
          /\ mon'.todo = mon.new_runnable
      BY <1>1, <1>4 DEF RestTyped, MonType, BuildCreated
    <2>3. Active = {}
      <3>1. Subs(mon.top) = {} /\ mon.top \in Builds
        BY <2>1 DEF Subs, IInv, BuildsBelow
      <3>2. Active \subseteq {mon.top}
        BY <2>1, <3>1 DEF IInv, BuildsBelow
      <3> QED BY <2>1, <3>2 DEF Active
    <2>4. BuildsBelow'
      BY <2>1, <2>2, <2>3 DEF BuildsBelow, Active
    <2>5. TypeOK'
      BY <1>1, <1>2, <2>1, <2>2, MonUpdate DEF RestTyped, TypeOK
    <2>6. \A b \in Builds :
               /\ toplevel'[b] \in Alive \cup {NoStep}
               /\ creating[b].pc = "step" =>
                     creating'[b].pc = "step" /\ creating'[b].step = creating[b].step
               /\ creating'[b].res.step \in Alive \cup {NoStep}
               /\ creating'[b].new_steps \subseteq Alive
      BY <1>1, <1>2, <2>1 DEF HeldIn, BuildsHold
    <2> QED BY <1>1, <1>2, <2>2, <2>4, <2>5, <2>6, TasksAlive, FramelessStep
  <1>5. ASSUME NEW b \in Builds, NextBuild(b)
        PROVE  IInv' /\ Alive' \subseteq Alive
    <2>1. creating' = [c \in Builds |-> IF c = b THEN [NotCreating EXCEPT !.pc = "start"] ELSE creating[c]]
      BY <1>5 DEF NextBuild, Started
    <2>2. /\ [NotCreating EXCEPT !.pc = "start"] \in CreatingType
          /\ [NotCreating EXCEPT !.pc = "start"].pc = "start"
          /\ [NotCreating EXCEPT !.pc = "start"].res.step = NoStep
          /\ [NotCreating EXCEPT !.pc = "start"].new_steps = {}
      BY <1>3 DEF NotCreating, CreatingType, Pending, Result, BuildPcs
    <2>3. mon.pc = "next" /\ Active = {}
      BY <1>5 DEF NextBuild, IInv, BuildsBelow
    <2>4. /\ mon' \in MonType /\ mon'.pc = "create" /\ mon'.new_runnable = mon.new_runnable
          /\ mon'.todo = mon.todo /\ mon'.top = b /\ mon'.ids = mon.ids \ {b}
      BY <1>1, <1>5 DEF RestTyped, MonType, NextBuild
    <2>5. creating' \in [Builds -> CreatingType]
      <3> HIDE DEF NotCreating
      <3> QED BY <1>1, <2>1, <2>2 DEF RestTyped
    <2>6. \A c \in Builds : c # b => creating'[c] = creating[c] /\ creating[c].pc = "none"
      BY <2>1, <2>3 DEF Active
    <2>7. creating'[b].pc = "start" /\ creating'[b].res.step = NoStep /\ creating'[b].new_steps = {}
      BY <2>1, <2>2
    <2>8. Active' = {b}
      BY <2>6, <2>7 DEF Active
    <2>9. BuildsBelow'
      BY <2>4, <2>8 DEF BuildsBelow
    <2>10. TypeOK'
      BY <1>1, <1>2, <2>4, <2>5, MonUpdate DEF RestTyped, TypeOK
    <2>11. \A c \in Builds :
               /\ toplevel'[c] \in Alive \cup {NoStep}
               /\ creating[c].pc = "step" =>
                     creating'[c].pc = "step" /\ creating'[c].step = creating[c].step
               /\ creating'[c].res.step \in Alive \cup {NoStep}
               /\ creating'[c].new_steps \subseteq Alive
      BY <1>1, <1>2, <2>3, <2>6, <2>7 DEF HeldIn, BuildsHold, Active
    <2>12. mon'.todo \subseteq mon'.new_runnable
      BY <2>4 DEF IInv, Ready
    <2> QED BY <1>1, <1>2, <2>4, <2>9, <2>10, <2>11, <2>12, TasksAlive, FramelessStep
  <1> QED BY <1>4, <1>5
(* A Build under creation is over; those it has created are over too. *)
LEMMA BuildDoneStep ==
    ASSUME IInv, NEW b \in Builds,
           AbortBuild(b) \/ HandlePreviousFailure(b) \/ InsertBuild(b) \/ HandleCachedBuild(b)
    PROVE  IInv' /\ Alive' \subseteq Alive
  <1> USE DEF graph, flags
  <1>1. TypeOK /\ RestTyped /\ HeldIn(Alive)
    BY TypeIs, AliveHolds DEF IInv
  <1>2. UNCHANGED <<notes, built, graph, frame, mon>>
    BY DEF AbortBuild, HandlePreviousFailure, InsertBuild, HandleCachedBuild
  <1>3. /\ creating' = [creating EXCEPT ![b] = NotCreating]
        /\ task' = [st \in Steps |-> [task[st] EXCEPT !.fresh = @ \ {b}]]
    BY DEF AbortBuild, HandlePreviousFailure, InsertBuild, HandleCachedBuild, BuildDone
  <1>4. /\ NotCreating \in CreatingType /\ NotCreating.pc = "none" /\ NotCreating.res.step = NoStep
        /\ NotCreating.new_steps = {}
    BY ConstantsAssumption DEF NotCreating, CreatingType, Pending, Result, BuildPcs
  <1>5. db' \in [Builds -> {"absent", "queued", "succeeded", "failed", "cancelled"}]
    BY <1>1 DEF RestTyped, AbortBuild, HandlePreviousFailure, InsertBuild, HandleCachedBuild
  <1>6. creating[b].pc \in {"start", "result", "nested"} /\ \A c \in Subs(b) : creating[c].pc = "none"
    BY DEF AbortBuild, HandlePreviousFailure, InsertBuild, HandleCachedBuild, NestedDone, Subs
  <1>7. toplevel' = toplevel \/ toplevel' = [toplevel EXCEPT ![b] = creating[b].res.step]
    BY DEF AbortBuild, HandlePreviousFailure, InsertBuild, HandleCachedBuild
  <1>8. /\ toplevel' \in [Builds -> Steps \cup {NoStep}]
        /\ \A c \in Builds : toplevel'[c] \in {toplevel[c], creating[c].res.step}
    <2>1. creating[b].res.step \in Steps \cup {NoStep}
      BY <1>1 DEF RestTyped, CreatingType, Result
    <2> QED BY <1>1, <1>7, <2>1 DEF RestTyped
  <1>9. task' \in [Steps -> TaskType] /\ \A st \in Steps : task'[st].pc = task[st].pc
    <2>1. \A st \in Steps : task[st] \in TaskType
      BY <1>1 DEF RestTyped
    <2>2. \A st \in Steps : [task[st] EXCEPT !.fresh = @ \ {b}] \in TaskType
      BY <2>1 DEF TaskType
    <2>3. \A st \in Steps : [task[st] EXCEPT !.fresh = @ \ {b}].pc = task[st].pc
      BY <2>1 DEF TaskType
    <2> QED BY <1>3, <2>2, <2>3
  <1>10. /\ creating' \in [Builds -> CreatingType]
         /\ \A c \in Builds : IF c = b THEN creating'[c] = NotCreating ELSE creating'[c] = creating[c]
    <2> HIDE DEF NotCreating
    <2> QED BY <1>1, <1>3, <1>4 DEF RestTyped
  <1>11. TypeOK'
    BY <1>1, <1>2, <1>5, <1>8, <1>9, <1>10, MonUpdate DEF RestTyped, TypeOK
  <1>12. BuildsBelow'
    <2>1. b \in Active /\ Active' = Active \ {b}
      BY <1>4, <1>6, <1>10 DEF Active
    <2>2. Subs(b)' = {} /\ \A c \in Builds \ {b} : Subs(c)' = Subs(c)
      BY <1>4, <1>10 DEF Subs
    <2>3. mon.pc = "create" /\ mon.top \in Builds /\ mon.ids \cap Active = {}
      BY <2>1 DEF IInv, BuildsBelow
    <2>4. ASSUME NEW T \in SUBSET Builds, mon.top \in T, \A c \in T : Subs(c)' \subseteq T
          PROVE  Active' \subseteq T
      <3> DEFINE U == T \cup {b} \cup Subs(b)
      <3>1. \A c \in Builds : Subs(c) \in SUBSET Builds
        BY <1>1 DEF RestTyped, CreatingType, Subs
      <3>2. \A c \in Subs(b) : Subs(c) = {} /\ c \notin Active
        BY <1>6 DEF Subs, Active
      <3>3. U \in SUBSET Builds /\ mon.top \in U
        BY <2>4, <3>1
      <3>4. ASSUME NEW c \in U PROVE Subs(c) \subseteq U
        <4>1. CASE c = b
          BY <4>1
        <4>2. CASE c \in Subs(b)
          BY <4>2, <3>2
        <4>3. CASE c \in T /\ c # b
          BY <4>3, <2>2, <2>4
        <4> QED BY <4>1, <4>2, <4>3
      <3> HIDE DEF U
      <3>5. Active \subseteq U
        BY <2>3, <3>3, <3>4 DEF IInv, BuildsBelow
      <3> QED BY <2>1, <3>2, <3>5 DEF U
    <2> QED BY <1>2, <2>1, <2>3, <2>4 DEF BuildsBelow
  <1>13. \A c \in Builds :
               /\ toplevel'[c] \in Alive \cup {NoStep}
               /\ creating[c].pc = "step" =>
                     creating'[c].pc = "step" /\ creating'[c].step = creating[c].step
               /\ creating'[c].res.step \in Alive \cup {NoStep}
               /\ creating'[c].new_steps \subseteq Alive
    <2> HIDE DEF NotCreating
    <2> QED BY <1>1, <1>4, <1>6, <1>8, <1>10 DEF HeldIn, BuildsHold
  <1>14. \A st \in Steps : task'[st].pc # "none" => st \in Alive
    BY <1>1, <1>9, TasksAlive
  <1>15. /\ mon'.todo \subseteq mon'.new_runnable
         /\ mon'.pc = "make_runnable" => mon'.new_runnable \subseteq runnable' \cup mon'.todo
    BY <1>2 DEF IInv, Ready
  <1> QED BY <1>2, <1>11, <1>12, <1>13, <1>14, <1>15, FramelessStep

(* create_build begins with the builds of the steps it has made. *)
LEMMA NestedBuildsStep ==
    ASSUME IInv, NEW b \in Builds, CreateNestedBuilds(b)
    PROVE  IInv' /\ Alive' \subseteq Alive
  <1> USE DEF graph, flags
  <1> DEFINE sub == {c \in mon.ids : \E st \in creating[b].new_steps : DrvOf[st] = TopDrv[c]}
             new == [NotCreating EXCEPT !.pc = "start"]
             cb  == [creating[b] EXCEPT !.pc = "nested", !.sub = sub]
  <1>1. TypeOK /\ RestTyped /\ HeldIn(Alive)
    BY TypeIs, AliveHolds DEF IInv
  <1>2. UNCHANGED <<db, notes, built, graph, toplevel, frame, task>> /\ creating[b].pc = "result"
    BY DEF CreateNestedBuilds
  <1>3. /\ new \in CreatingType /\ new.pc = "start" /\ new.res.step = NoStep /\ new.new_steps = {}
    BY ConstantsAssumption DEF NotCreating, CreatingType, Pending, Result, BuildPcs
  <1>4. sub \subseteq mon.ids /\ sub \in SUBSET Builds
    BY <1>1 DEF RestTyped, MonType
  <1>5. b \in Active /\ mon.pc = "create" /\ mon.top \in Builds /\ mon.ids \cap Active = {} /\ b \notin sub
    <2>1. b \in Active
      BY <1>2 DEF Active
    <2> QED BY <1>4, <2>1 DEF IInv, BuildsBelow
  <1>6. creating' = [Started(sub) EXCEPT ![b].pc = "nested", ![b].sub = sub]
    BY DEF CreateNestedBuilds
  <1>7. /\ mon' \in MonType /\ mon'.ids = mon.ids \ sub /\ mon'.pc = mon.pc /\ mon'.top = mon.top
        /\ mon'.new_runnable = mon.new_runnable /\ mon'.todo = mon.todo
    BY <1>1 DEF RestTyped, MonType, CreateNestedBuilds
  <1>8. /\ cb \in CreatingType /\ cb.pc = "nested" /\ cb.sub = sub /\ cb.res = creating[b].res
        /\ cb.new_steps = creating[b].new_steps
    <2>1. creating[b] \in CreatingType
      BY <1>1 DEF RestTyped
    <2> HIDE DEF sub
    <2> QED BY <2>1, <1>4 DEF CreatingType, BuildPcs
  <1> HIDE DEF sub, new
  <1>9. Started(sub) = [c \in Builds |-> IF c \in sub THEN new ELSE creating[c]]
    BY DEF Started, new
  <1>10. \A c \in Builds : creating'[c] = IF c = b THEN cb ELSE IF c \in sub THEN new ELSE creating[c]
    <2>1. \A c \in Builds \ {b} : creating'[c] = Started(sub)[c]
      BY <1>6, <1>9
    <2>2. creating'[b] = [Started(sub)[b] EXCEPT !.pc = "nested", !.sub = sub]
      BY <1>6, <1>9
    <2> QED BY <1>5, <1>9, <2>1, <2>2
  <1> HIDE DEF cb
  <1>11. creating' \in [Builds -> CreatingType]
    <2>1. creating' = [c \in Builds |-> creating'[c]]
      BY <1>6, <1>9
    <2>2. \A c \in Builds : creating'[c] \in CreatingType
      BY <1>1, <1>3, <1>8, <1>10 DEF RestTyped
    <2> QED BY <2>1, <2>2
  <1>12. TypeOK'
    BY <1>1, <1>2, <1>7, <1>11, MonUpdate DEF RestTyped, TypeOK
  <1>13. BuildsBelow'
    <2>1. Active' = Active \cup sub
      BY <1>3, <1>4, <1>5, <1>8, <1>10 DEF Active
    <2>2. \A c \in sub : c \notin Active
      BY <1>4, <1>5
    <2>3. /\ Subs(b)' = sub /\ Subs(b) = {} /\ \A c \in sub : Subs(c) = {}
          /\ \A c \in Builds \ {b} : Subs(c)' = Subs(c)
      BY <1>2, <1>3, <1>4, <1>5, <1>8, <1>10, <2>2 DEF Subs, Active
    <2>4. ASSUME NEW T \in SUBSET Builds, mon.top \in T, \A c \in T : Subs(c)' \subseteq T
          PROVE  Active \cup sub \subseteq T
      <3>1. \A c \in T : Subs(c) \subseteq T
        BY <2>3, <2>4
      <3>2. Active \subseteq T
        BY <1>5, <2>4, <3>1 DEF IInv, BuildsBelow
      <3> QED BY <1>5, <2>3, <2>4, <3>2
    <2> QED BY <1>4, <1>5, <1>7, <2>1, <2>4 DEF BuildsBelow
  <1>14. \A c \in Builds :
               /\ toplevel'[c] \in Alive \cup {NoStep}
               /\ creating[c].pc = "step" =>
                     creating'[c].pc = "step" /\ creating'[c].step = creating[c].step
               /\ creating'[c].res.step \in Alive \cup {NoStep}
               /\ creating'[c].new_steps \subseteq Alive
    <2>1. \A c \in sub : creating[c].pc = "none"
      BY <1>4, <1>5 DEF Active
    <2> QED BY <1>1, <1>2, <1>3, <1>8, <1>10, <2>1 DEF HeldIn, BuildsHold
  <1>15. /\ mon'.todo \subseteq mon'.new_runnable
         /\ mon'.pc = "make_runnable" => mon'.new_runnable \subseteq runnable' \cup mon'.todo
    BY <1>2, <1>7 DEF IInv, Ready
  <1> QED BY <1>1, <1>2, <1>7, <1>12, <1>13, <1>14, <1>15, TasksAlive, FramelessStep
-----------------------------------------------------------------------------
(* create_step.                                                            *)

(* The create_step of st goes on without a return or a call. *)
LEMMA FrameMoves ==
    ASSUME IInv, NEW st \in Steps, Framed(st), FrameTyped', Framed(st)', FrameAt(st)',
           frame'[st].parent = frame[st].parent, frame'[st].build = frame[st].build,
           frame'[st].got = frame[st].got,
           \A s \in Steps \ {st} : frame'[s] = frame[s] /\ deps'[s] = deps[s],
           \A s \in Steps \ {st} : s \in created' <=> s \in created,
           created \subseteq created', created' \subseteq Steps,
           deps' \in [Steps -> SUBSET Steps],
           deps[st] \subseteq deps'[st],
           \A c \in deps'[st] \ deps[st] :
               \E i \in DOMAIN frame[st].got : frame[st].got[i].kind = "Valid" /\ frame[st].got[i].step = c,
           deps'[st] = deps[st] \/ st \notin created,
           frame[st].pc = "add_dep" \/ AtAwait \/ frame'[st].pc \notin {"add_dep", "created"},
           UNCHANGED <<db, notes, built, steps, finished, previous_failure, runnable, rdeps,
                       toplevel, creating, mon, task>>
    PROVE  IInv' /\ Alive' \subseteq Alive
  <1>1. TypeOK /\ RestTyped /\ GraphTyped /\ FrameTyped
    BY TypeIs DEF IInv
  <1>2. TypeOK'
    BY <1>1, TypeIsNext DEF GraphTyped, RestTyped
  <1>3. Alive \in SUBSET Steps /\ HeldIn(Alive) /\ ClosedIn(Alive)
    BY <1>1, AliveHolds
  <1>4. \A s \in Steps : /\ Framed(s)' <=> Framed(s)
                         /\ frame'[s].parent = frame[s].parent /\ frame'[s].build = frame[s].build
                         /\ frame'[s].got = frame[s].got
    BY DEF Framed
  <1>5. Alive' \subseteq Alive
    <2>1. \A s \in Steps : /\ Framed(s)' => s \in Alive
                           /\ \A i \in DOMAIN frame'[s].got :
                                  frame'[s].got[i].step \in Alive \cup {NoStep}
      BY <1>3, <1>4 DEF HeldIn, FramesHold
    <2>2. \A b \in Builds : /\ toplevel'[b] \in Alive \cup {NoStep}
                             /\ creating'[b].res.step \in Alive \cup {NoStep}
                             /\ creating'[b].new_steps \subseteq Alive
      BY <1>3 DEF HeldIn, BuildsHold
    <2>3. mon'.new_runnable \subseteq Alive /\ \A s \in Steps : task'[s].pc # "none" => s \in Alive
      BY <1>3 DEF HeldIn, TasksHold
    <2>4. deps'[st] \subseteq Alive
      <3>1. ASSUME NEW c \in deps'[st], c \notin deps[st] PROVE c \in Alive
        <4>1. c \in Steps /\ NoStep \notin Steps
          BY <1>3, ConstantsAssumption
        <4>2. c \in Alive \cup {NoStep}
          BY <1>3, <3>1 DEF HeldIn, FramesHold
        <4> QED BY <4>1, <4>2
      <3>2. st \in Alive
        BY <1>3 DEF HeldIn, FramesHold
      <3> QED BY <1>3, <3>1, <3>2 DEF ClosedIn
    <2>5. \A s \in Alive : deps'[s] \subseteq Alive
      BY <1>3, <2>4 DEF ClosedIn
    <2> QED BY <1>1, <2>1, <2>2, <2>3, <2>5, AliveShrinks
  <1>6. FramesTrue'
    <2> SUFFICES ASSUME NEW s \in Steps
                 PROVE  (IF Framed(s) THEN FrameOwned(s) /\ FrameAt(s) ELSE DOMAIN frame[s].got = {})'
      BY DEF FramesTrue
    <2>1. CASE Framed(s)
      <3>1. FrameOwned(s) /\ FrameAt(s)
        BY <2>1 DEF IInv, FramesTrue
      <3>2. FrameAt(s)'
        <4>1. CASE s = st
          BY <4>1
        <4>2. CASE s # st
          BY <3>1, <4>2 DEF FrameAt, NextInput
        <4> QED BY <4>1, <4>2
      <3>3. frame[s].parent \in Steps \cup {NoStep}
        BY <1>1 DEF FrameTyped, FrameType
      <3>4. FrameOwned(s)'
        BY <1>4, <3>1, <3>3 DEF FrameOwned, Inputs
      <3> QED BY <1>4, <2>1, <3>2, <3>4
    <2>2. CASE ~Framed(s)
      BY <1>4, <2>2 DEF IInv, FramesTrue
    <2> QED BY <2>1, <2>2
  <1>7. GotKnown'
    <2> SUFFICES ASSUME NEW s \in Steps, NEW i \in DOMAIN frame[s].got, frame[s].got[i].kind = "Valid"
                 PROVE  frame[s].got[i].step \in Steps /\ s \in rdeps[frame[s].got[i].step]
      BY <1>4 DEF GotKnown
    <2> QED BY DEF IInv, GotKnown
  <1>8. FramesBelow'
    <2>1. \A s \in Steps : Children(s)' = Children(s)
      BY <1>4 DEF Children
    <2> QED BY <1>4, <2>1 DEF IInv, FramesBelow
  <1>9. BuildsBelow'
    BY DEF IInv, BuildsBelow, Active, Subs
  <1>10. Ready'
    <2>1. \A s \in runnable \cup mon.new_runnable : s \in Steps /\ s \in created /\ deps[s] = {}
      BY <1>1 DEF IInv, Ready, TypeOK
    <2>2. \A s \in runnable \cup mon.new_runnable : deps'[s] = {}
      BY <2>1
    <2> QED BY <2>1, <2>2 DEF IInv, Ready
  <1>11. DepsKnown'
    <2> SUFFICES ASSUME NEW p \in Alive', NEW c \in deps'[p] PROVE p \in rdeps[c]
      BY DEF DepsKnown
    <2>1. p \in Alive /\ p \in Steps
      BY <1>3, <1>5
    <2>2. CASE c \in deps[p]
      BY <2>1, <2>2 DEF IInv, DepsKnown
    <2>3. CASE c \notin deps[p]
      <3>1. p = st
        BY <2>1, <2>3
      <3> QED BY <2>3, <3>1 DEF IInv, GotKnown
    <2> QED BY <2>2, <2>3
  <1>12. NoLostWakeup'
    <2> SUFFICES ASSUME NEW p \in Alive', p \in created', p \notin finished, p \notin runnable,
                        deps'[p] = {}
                 PROVE  p \in mon.new_runnable \/ frame'[p].pc = "created"
      BY DEF NoLostWakeup
    <2>1. p \in Alive /\ p \in Steps
      BY <1>3, <1>5
    <2>2. CASE p = st
      BY <2>2 DEF FrameAt
    <2>3. CASE p # st
      BY <2>1, <2>3 DEF IInv, NoLostWakeup
    <2> QED BY <2>2, <2>3
  <1>13. OneRuns'
    BY DEF IInv, OneRuns, AtAwait
  <1> QED BY <1>2, <1>5, <1>6, <1>7, <1>8, <1>9, <1>10, <1>11, <1>12, <1>13 DEF IInv

(* The next place in the stream of the inputs is read. *)
LEMMA ConsumedFrame ==
    ASSUME IInv, NEW st \in Steps, Framed(st), frame[st].next \in DOMAIN frame[st].got,
           frame' = Consumed(st)
    PROVE  /\ FrameTyped' /\ Framed(st)' /\ frame'[st].pc = "inputs"
           /\ frame'[st].parent = frame[st].parent /\ frame'[st].build = frame[st].build
           /\ frame'[st].got = frame[st].got /\ frame'[st].next = frame[st].next + 1
           /\ \A s \in Steps \ {st} : frame'[s] = frame[s]
  <1> DEFINE n == frame[st].next + 1
             f == [frame[st] EXCEPT !.next = n, !.pc = "inputs"]
  <1>1. FrameTyped /\ frame[st] \in FrameType /\ frame[st].got \in Seq(Result)
    BY TypeIs DEF IInv, FrameTyped, FrameType
  <1>2. frame[st].next \in Nat /\ n \in Nat /\ n \in 1 .. Len(frame[st].got) + 1
    BY <1>1
  <1>3. f \in FrameType
    <2> HIDE DEF n
    <2> QED BY <1>1, <1>2 DEF FrameType, Frames
  <1>4. /\ f.pc = "inputs" /\ f.parent = frame[st].parent /\ f.build = frame[st].build
        /\ f.got = frame[st].got /\ f.next = frame[st].next + 1
    BY <1>1 DEF FrameType
  <1>5. frame' = [frame EXCEPT ![st] = f]
    BY <1>1 DEF Consumed, FrameTyped
  <1> HIDE DEF f
  <1>6. frame' \in [Steps -> FrameType] /\ frame'[st] = f /\ \A s \in Steps \ {st} : frame'[s] = frame[s]
    BY <1>1, <1>3, <1>5 DEF FrameTyped
  <1>7. FrameTyped'
    BY <1>1, <1>2, <1>4, <1>6 DEF FrameTyped
  <1> QED BY <1>4, <1>6, <1>7 DEF Framed

LEMMA FramePcTyped ==
    ASSUME IInv, NEW st \in Steps, NEW pc \in Frames \ {"none"}, frame' = [frame EXCEPT ![st].pc = pc]
    PROVE  /\ FrameTyped' /\ Framed(st)' /\ frame'[st].pc = pc
           /\ frame'[st].parent = frame[st].parent /\ frame'[st].build = frame[st].build
           /\ frame'[st].got = frame[st].got /\ frame'[st].next = frame[st].next
           /\ \A s \in Steps \ {st} : frame'[s] = frame[s]
  <1> DEFINE f == [frame[st] EXCEPT !.pc = pc]
  <1>1. FrameTyped /\ frame[st] \in FrameType
    BY TypeIs DEF IInv, FrameTyped, FrameType
  <1>2. f \in FrameType
    BY <1>1 DEF FrameType
  <1>3. /\ f.pc = pc /\ f.parent = frame[st].parent /\ f.build = frame[st].build
        /\ f.got = frame[st].got /\ f.next = frame[st].next
    BY <1>1 DEF FrameType
  <1>4. frame' = [frame EXCEPT ![st] = f]
    BY <1>1 DEF FrameTyped
  <1> HIDE DEF f
  <1>5. frame' \in [Steps -> FrameType] /\ frame'[st] = f /\ \A s \in Steps \ {st} : frame'[s] = frame[s]
    BY <1>1, <1>2, <1>4 DEF FrameTyped
  <1>6. FrameTyped'
    BY <1>1, <1>3, <1>5 DEF FrameTyped
  <1> QED BY <1>3, <1>5, <1>6 DEF Framed

(* query_missing_outputs, the stream of the inputs, and set_created. *)
LEMMA FrameStep ==
    ASSUME IInv, NEW st \in Steps,
           QueryMissingOutputs(st) \/ ConsumeInput(st) \/ ResumeAddDep(st) \/ SetCreated(st)
    PROVE  IInv' /\ Alive' \subseteq Alive
  <1> USE DEF graph, flags
  <1>1. TypeOK /\ FrameTyped /\ GraphTyped
    BY TypeIs DEF IInv
  <1>2. Framed(st) /\ FrameAt(st) /\ (st \in created => frame[st].pc = "created")
    <2>1. Framed(st)
      BY DEF Framed, QueryMissingOutputs, ConsumeInput, ResumeAddDep, SetCreated, MoreInputs
    <2> QED BY <2>1 DEF IInv, FramesTrue, FrameAt
  <1>3. UNCHANGED <<db, notes, built, steps, finished, previous_failure, runnable, rdeps,
                    toplevel, creating, mon, task>>
    BY DEF QueryMissingOutputs, ConsumeInput, ResumeAddDep, SetCreated
  <1>4. CASE QueryMissingOutputs(st)
    <2>1. PICK pc \in {"present", "missing"} : frame' = [frame EXCEPT ![st].pc = pc]
      BY <1>4 DEF QueryMissingOutputs
    <2>2. pc \in Frames \ {"none"}
      BY DEF Frames
    <2>3. UNCHANGED <<created, deps>> /\ frame[st].pc = "query" /\ AtAwait
      BY <1>4 DEF QueryMissingOutputs
    <2>4. /\ FrameTyped' /\ Framed(st)' /\ frame'[st].pc = pc
          /\ frame'[st].parent = frame[st].parent /\ frame'[st].build = frame[st].build
          /\ frame'[st].got = frame[st].got /\ frame'[st].next = frame[st].next
          /\ \A s \in Steps \ {st} : frame'[s] = frame[s]
      BY <2>1, <2>2, FramePcTyped
    <2>5. FrameAt(st)'
      BY <1>2, <2>3, <2>4 DEF FrameAt
    <2> QED BY <1>1, <1>2, <1>3, <2>3, <2>4, <2>5, FrameMoves DEF GraphTyped
  <1>5. CASE SetCreated(st)
    <2>1. frame' = [frame EXCEPT ![st].pc = "created"] /\ "created" \in Frames \ {"none"}
      BY <1>5 DEF SetCreated, Frames
    <2>2. created' = created \cup {st} /\ deps' = deps /\ frame[st].pc = "inputs" /\ AtAwait
      BY <1>5 DEF SetCreated
    <2>3. /\ FrameTyped' /\ Framed(st)' /\ frame'[st].pc = "created"
          /\ frame'[st].parent = frame[st].parent /\ frame'[st].build = frame[st].build
          /\ frame'[st].got = frame[st].got /\ frame'[st].next = frame[st].next
          /\ \A s \in Steps \ {st} : frame'[s] = frame[s]
      BY <2>1, FramePcTyped
    <2>4. FrameAt(st)'
      BY <1>2, <2>2, <2>3 DEF FrameAt
    <2> QED BY <1>1, <1>2, <1>3, <2>2, <2>3, <2>4, FrameMoves DEF GraphTyped
  <1>6. CASE ConsumeInput(st) \/ ResumeAddDep(st)
    <2>1. created' = created /\ frame[st].pc \in {"inputs", "add_dep"} /\ (AtAwait \/ frame[st].pc = "add_dep")
      BY <1>6 DEF ConsumeInput, ResumeAddDep, MoreInputs
    <2>2. frame[st].next \in DOMAIN frame[st].got
      BY <1>2, <1>6 DEF ConsumeInput, ResumeAddDep, MoreInputs, FrameAt
    <2>3. \/ frame' = Consumed(st) /\ deps' = deps
          \/ frame' = Consumed(st) /\ AddDep(st, NextInput(st).step) /\ NextInput(st).kind = "Valid"
          \/ frame' = [frame EXCEPT ![st].pc = "add_dep"] /\ deps' = deps /\ NextInput(st).kind = "Valid"
      BY <1>2, <1>6 DEF ConsumeInput, ResumeAddDep, FrameAt
    <2>4. NextInput(st) = frame[st].got[frame[st].next]
      BY DEF NextInput
    <2>5. st \notin created /\ DOMAIN frame[st].got = DOMAIN Inputs(st)
      BY <1>2, <2>1 DEF FrameAt
    <2>6. CASE frame' = [frame EXCEPT ![st].pc = "add_dep"] /\ deps' = deps /\ NextInput(st).kind = "Valid"
      <3>1. "add_dep" \in Frames \ {"none"}
        BY DEF Frames
      <3>2. /\ FrameTyped' /\ Framed(st)' /\ frame'[st].pc = "add_dep"
            /\ frame'[st].parent = frame[st].parent /\ frame'[st].build = frame[st].build
            /\ frame'[st].got = frame[st].got /\ frame'[st].next = frame[st].next
            /\ \A s \in Steps \ {st} : frame'[s] = frame[s]
        BY <2>6, <3>1, FramePcTyped
      <3>3. FrameAt(st)'
        BY <2>1, <2>2, <2>4, <2>5, <2>6, <3>2 DEF FrameAt, NextInput
      <3> QED BY <1>1, <1>2, <1>3, <2>1, <2>6, <3>2, <3>3, FrameMoves DEF GraphTyped
    <2>7. CASE frame' = Consumed(st)
      <3>1. /\ FrameTyped' /\ Framed(st)' /\ frame'[st].pc = "inputs"
            /\ frame'[st].parent = frame[st].parent /\ frame'[st].build = frame[st].build
            /\ frame'[st].got = frame[st].got /\ frame'[st].next = frame[st].next + 1
            /\ \A s \in Steps \ {st} : frame'[s] = frame[s]
        BY <1>2, <2>2, <2>7, ConsumedFrame
      <3>2. FrameAt(st)'
        BY <2>1, <2>5, <3>1 DEF FrameAt
      <3>3. CASE deps' = deps
        BY <1>1, <1>2, <1>3, <2>1, <3>1, <3>2, <3>3, FrameMoves DEF GraphTyped
      <3>4. CASE AddDep(st, NextInput(st).step) /\ NextInput(st).kind = "Valid"
        <4>1. NextInput(st).step \in Steps
          BY <2>2, <2>4, <3>4 DEF IInv, GotKnown
        <4>2. /\ deps' \in [Steps -> SUBSET Steps] /\ deps'[st] = deps[st] \cup {NextInput(st).step}
              /\ \A s \in Steps \ {st} : deps'[s] = deps[s]
          BY <1>1, <3>4, <4>1 DEF GraphTyped, AddDep
        <4>3. \A c \in deps'[st] \ deps[st] :
                \E i \in DOMAIN frame[st].got : frame[st].got[i].kind = "Valid" /\ frame[st].got[i].step = c
          BY <2>2, <2>4, <3>4, <4>2
        <4>4. deps[st] \subseteq deps'[st] /\ created \subseteq created' /\ created' \subseteq Steps
          BY <1>1, <2>1, <4>2 DEF GraphTyped
        <4> QED BY <1>2, <1>3, <2>1, <2>5, <3>1, <3>2, <4>2, <4>3, <4>4, FrameMoves
      <3>5. frame' # [frame EXCEPT ![st].pc = "add_dep"]
        <4>1. ASSUME frame' = [frame EXCEPT ![st].pc = "add_dep"] PROVE FALSE
          <5>1. "add_dep" \in Frames \ {"none"}
            BY DEF Frames
          <5>2. frame'[st].pc = "add_dep"
            BY <4>1, <5>1, FramePcTyped
          <5> QED BY <3>1, <5>2
        <4> QED BY <4>1
      <3> QED BY <2>3, <3>3, <3>4, <3>5
    <2> QED BY <2>3, <2>6, <2>7
  <1> QED BY <1>4, <1>5, <1>6
(* The locals of create_build after a return. *)
Added(b, st) == [creating EXCEPT ![b].new_steps = @ \cup {st}]
Returned(cr, b, r) == [cr EXCEPT ![b].res = r, ![b].pc = "result"]

LEMMA ReturnCreating ==
    ASSUME IInv, NEW st \in Steps, Framed(st), NEW r \in Result,
           NEW b \in Builds, b = frame[st].build,
           NEW cr, NEW done, cr = creating \/ cr = Added(b, st), done = Returned(cr, b, r),
           creating' = IF frame[st].parent = NoStep THEN done ELSE cr
    PROVE  /\ creating' \in [Builds -> CreatingType]
           /\ \A c \in Builds \ {b} : creating'[c] = creating[c]
           /\ creating'[b].step = creating[b].step /\ creating'[b].sub = creating[b].sub
           /\ creating'[b].new_steps \subseteq creating[b].new_steps \cup {st}
           /\ creating'[b].res \in {creating[b].res, r}
           /\ creating'[b].pc = IF frame[st].parent = NoStep THEN "result" ELSE creating[b].pc
  <1>1. creating \in [Builds -> CreatingType] /\ creating[b] \in CreatingType
    BY TypeIs DEF IInv, RestTyped
  <1> DEFINE m == [creating[b] EXCEPT !.new_steps = @ \cup {st}]
  <1>2. /\ m \in CreatingType /\ m.new_steps = creating[b].new_steps \cup {st}
        /\ m.step = creating[b].step /\ m.sub = creating[b].sub /\ m.res = creating[b].res
        /\ m.pc = creating[b].pc
    BY <1>1 DEF CreatingType
  <1>3. cr = creating \/ cr = [creating EXCEPT ![b] = m]
    BY <1>1 DEF Added
  <1> HIDE DEF m
  <1>4. /\ cr \in [Builds -> CreatingType] /\ \A c \in Builds \ {b} : cr[c] = creating[c]
        /\ cr[b] = creating[b] \/ cr[b] = m
    BY <1>1, <1>2, <1>3
  <1>5. /\ cr[b] \in CreatingType /\ cr[b].new_steps \subseteq creating[b].new_steps \cup {st}
        /\ cr[b].step = creating[b].step /\ cr[b].sub = creating[b].sub /\ cr[b].res = creating[b].res
        /\ cr[b].pc = creating[b].pc
    BY <1>2, <1>4
  <1> DEFINE n == [cr[b] EXCEPT !.res = r, !.pc = "result"]
  <1>6. /\ n \in CreatingType /\ n.new_steps = cr[b].new_steps
        /\ n.step = cr[b].step /\ n.sub = cr[b].sub /\ n.res = r /\ n.pc = "result"
    BY <1>5 DEF CreatingType, BuildPcs
  <1>7. done = [cr EXCEPT ![b] = n]
    BY <1>4 DEF Returned
  <1> HIDE DEF n
  <1>8. done \in [Builds -> CreatingType]
    BY <1>4, <1>6, <1>7
  <1>9. done[b] = n
    BY <1>4, <1>7
  <1>10. \A c \in Builds \ {b} : done[c] = cr[c]
    BY <1>4, <1>7
  <1>11. CASE frame[st].parent # NoStep
    BY <1>4, <1>5, <1>11
  <1>12. CASE frame[st].parent = NoStep
    BY <1>4, <1>5, <1>6, <1>8, <1>9, <1>10, <1>12
  <1> QED BY <1>11, <1>12

(* When create_step of a toplevel returns, its build has no frame left. *)
LEMMA RootsHaveBuilds ==
    ASSUME IInv, NEW st \in Steps, Framed(st), frame[st].parent = NoStep
    PROVE  \A s \in Steps : Framed(s) /\ frame[s].build = frame[st].build => s \in Below(st)
  <1> DEFINE b == frame[st].build
             T == Below(st) \cup {s \in Steps : Framed(s) /\ frame[s].build # b}
  <1>1. /\ st \in Below(st) /\ Below(st) \in SUBSET Steps
        /\ \A s \in Below(st) : Children(s) \subseteq Below(st)
    BY BelowHas
  <1>2. \A s \in Steps : Framed(s) => FrameOwned(s)
    BY DEF IInv, FramesTrue
  <1>3. T \in SUBSET Steps
    BY <1>1
  <1>4. ASSUME NEW s \in Steps, Framed(s), frame[s].parent = NoStep PROVE s \in T
    <2>1. CASE frame[s].build = b
      BY <1>1, <1>2, <1>4, <2>1 DEF FrameOwned
    <2>2. CASE frame[s].build # b
      BY <1>4, <2>2
    <2> QED BY <2>1, <2>2
  <1>5. ASSUME NEW s \in T, NEW c \in Children(s) PROVE c \in T
    <2>1. CASE s \in Below(st)
      BY <1>1, <1>5, <2>1
    <2>2. CASE frame[s].build # b
      <3>1. c \in Steps /\ Framed(c) /\ frame[c].parent = s /\ s # NoStep
        BY <1>3, <1>5, ConstantsAssumption DEF Children
      <3>2. frame[c].build = frame[s].build
        BY <1>2, <3>1 DEF FrameOwned
      <3> QED BY <2>2, <3>1, <3>2
    <2> QED BY <1>5, <2>1, <2>2
  <1> HIDE DEF T
  <1>6. \A s \in Steps : Framed(s) => s \in T
    BY <1>3, <1>4, <1>5 DEF IInv, FramesBelow
  <1> QED BY <1>6 DEF T

(* create_step of st returns: its frame and those below it go. *)
LEMMA ReturnKeeps ==
    ASSUME IInv, NEW st \in Steps, Framed(st), NEW r \in Result, NEW cr, Return(st, r, cr),
           cr = creating \/ cr = [creating EXCEPT ![frame[st].build].new_steps = @ \cup {st}],
           r.step \in Alive \cup {NoStep}, r.kind = "Valid" => r.step = st,
           AtAwait \/ (frame[st].pc = "created" /\ r.kind = "Valid"
                         /\ (deps[st] = {} => st \in mon'.new_runnable)),
           finished \subseteq finished', finished' \subseteq Steps, previous_failure' \subseteq Steps,
           built' \subseteq Drvs, mon' \in MonType,
           mon'.pc = mon.pc /\ mon'.ids = mon.ids /\ mon'.top = mon.top /\ mon'.todo = mon.todo,
           mon.new_runnable \subseteq mon'.new_runnable,
           \A s \in mon'.new_runnable \ mon.new_runnable : s = st /\ st \in created /\ deps[st] = {},
           UNCHANGED <<db, notes, steps, created, runnable, deps, rdeps, toplevel, task>>
    PROVE  IInv' /\ Alive' \subseteq Alive
  <1>1. TypeOK /\ RestTyped /\ GraphTyped /\ FrameTyped
    BY TypeIs DEF IInv
  <1>2. Alive \in SUBSET Steps /\ HeldIn(Alive) /\ ClosedIn(Alive)
    BY <1>1, AliveHolds
  <1>3. \A s \in Steps : Framed(s) => FrameOwned(s) /\ FrameAt(s)
    BY DEF IInv, FramesTrue
  <1>4. PICK b \in Builds : b = frame[st].build
    BY <1>3 DEF FrameOwned
  <1>5. /\ st \in Below(st) /\ Below(st) \in SUBSET Steps
        /\ \A s \in Below(st) : Children(s) \subseteq Below(st)
    BY BelowHas
  <1>6. /\ FrameTyped'
        /\ \A s \in Below(st) : ~Framed(s)' /\ DOMAIN frame'[s].got = {}
        /\ \A s \in Steps \ Below(st) :
                 /\ frame'[s].pc = frame[s].pc /\ frame'[s].parent = frame[s].parent
                 /\ frame'[s].build = frame[s].build /\ frame'[s].next = frame[s].next
                 /\ DOMAIN frame'[s].got = DOMAIN frame[s].got
                 /\ \A i \in DOMAIN frame[s].got :
                       \/ frame'[s].got[i] = frame[s].got[i]
                       \/ s = frame[st].parent /\ frame'[s].got[i] = r
        /\ creating' = IF frame[st].parent = NoStep
                       THEN [cr EXCEPT ![b].res = r, ![b].pc = "result"]
                       ELSE cr
    <2>1. Return(st, r, cr)
      OBVIOUS
    <2>2. \A s \in Steps : \A i : Answers(st, s, i) => s = frame[st].parent
      BY DEF Answers
    <2> QED BY <1>1, <1>4, <2>1, <2>2, ReturnEffect
  <1>7. /\ creating' \in [Builds -> CreatingType]
        /\ \A c \in Builds \ {b} : creating'[c] = creating[c]
        /\ creating'[b].step = creating[b].step /\ creating'[b].sub = creating[b].sub
        /\ creating'[b].new_steps \subseteq creating[b].new_steps \cup {st}
        /\ creating'[b].res \in {creating[b].res, r}
        /\ creating'[b].pc = IF frame[st].parent = NoStep THEN "result" ELSE creating[b].pc
    <2>1. cr = creating \/ cr = Added(b, st)
      BY <1>4 DEF Added
    <2>2. PICK done : done = Returned(cr, b, r)
      OBVIOUS
    <2>3. creating' = IF frame[st].parent = NoStep THEN done ELSE cr
      BY <1>6, <2>2 DEF Returned
    <2> QED BY <1>4, <2>1, <2>2, <2>3, ReturnCreating
  <1>8. TypeOK'
    BY <1>1, <1>6, <1>7, TypeIsNext DEF GraphTyped, RestTyped
  <1>9. \A s \in Steps : Framed(s)' <=> Framed(s) /\ s \notin Below(st)
    BY <1>5, <1>6 DEF Framed
  <1>10. st \in Alive /\ creating[b].pc = "step" /\ mon.pc = "create"
    <2>1. st \in Alive
      BY <1>2 DEF HeldIn, FramesHold
    <2>2. creating[b].pc = "step"
      BY <1>3, <1>4 DEF FrameOwned
    <2>3. Active # {}
      BY <2>2 DEF Active
    <2> QED BY <2>1, <2>2, <2>3 DEF IInv, BuildsBelow
  <1>11. Alive' \subseteq Alive
    <2>1. \A s \in Steps : /\ Framed(s)' => s \in Alive
                           /\ \A i \in DOMAIN frame'[s].got :
                                  frame'[s].got[i].step \in Alive \cup {NoStep}
      BY <1>2, <1>5, <1>6, <1>9 DEF HeldIn, FramesHold
    <2>2. \A c \in Builds : /\ toplevel'[c] \in Alive \cup {NoStep}
                            /\ creating'[c].res.step \in Alive \cup {NoStep}
                            /\ creating'[c].new_steps \subseteq Alive
      <3> SUFFICES ASSUME NEW c \in Builds
                   PROVE  /\ toplevel'[c] \in Alive \cup {NoStep}
                          /\ creating'[c].res.step \in Alive \cup {NoStep}
                          /\ creating'[c].new_steps \subseteq Alive
        OBVIOUS
      <3>1. /\ toplevel[c] \in Alive \cup {NoStep} /\ creating[c].res.step \in Alive \cup {NoStep}
            /\ creating[c].new_steps \subseteq Alive
        BY <1>2 DEF HeldIn, BuildsHold
      <3> QED BY <1>7, <1>10, <3>1
    <2>3. mon'.new_runnable \subseteq Alive
      BY <1>2, <1>10 DEF HeldIn
    <2>4. \A s \in Steps : task'[s].pc # "none" => s \in Alive
      BY <1>2 DEF HeldIn, TasksHold
    <2>5. \A s \in Alive : deps'[s] \subseteq Alive
      BY <1>2 DEF ClosedIn
    <2> QED BY <1>1, <2>1, <2>2, <2>3, <2>4, <2>5, AliveShrinks
  <1>12. FramesTrue'
    <2> SUFFICES ASSUME NEW s \in Steps
                 PROVE  (IF Framed(s) THEN FrameOwned(s) /\ FrameAt(s) ELSE DOMAIN frame[s].got = {})'
      BY DEF FramesTrue
    <2>1. CASE Framed(s) /\ s \notin Below(st)
      <3>1. FrameOwned(s) /\ FrameAt(s)
        BY <1>3, <2>1
      <3>2. frame[s].parent \in Steps \cup {NoStep} /\ frame[s].parent \notin Below(st)
        <4>1. frame[s].parent \in Steps \cup {NoStep}
          BY <1>1 DEF FrameTyped, FrameType
        <4> QED BY <1>5, <2>1, <4>1 DEF Children
      <3>3. frame[st].parent = NoStep => frame[s].build # b
        BY <1>4, <2>1, RootsHaveBuilds
      <3>4. /\ creating'[frame[s].build].pc = creating[frame[s].build].pc
            /\ creating'[frame[s].build].step = creating[frame[s].build].step
        BY <1>7, <3>1, <3>3 DEF FrameOwned
      <3>5. PICK p : p = frame[s].parent
        OBVIOUS
      <3>6. p # NoStep => Framed(p)' /\ frame'[p].build = frame[s].build
        BY <1>6, <1>9, <3>1, <3>2, <3>5 DEF FrameOwned
      <3>8. frame'[s].parent = p /\ frame'[s].build = frame[s].build
        BY <1>6, <2>1, <3>5
      <3>9. FrameOwned(s)'
        BY <3>1, <3>4, <3>5, <3>6, <3>8 DEF FrameOwned, Inputs, Framed
      <3>7. FrameAt(s)'
        <4>1. frame'[s].pc = "add_dep" =>
                  frame'[s].next \in DOMAIN frame'[s].got /\ frame'[s].got[frame'[s].next].kind = "Valid"
          BY <1>6, <2>1, <3>1 DEF FrameAt, NextInput, AtAwait
        <4> QED BY <1>6, <2>1, <3>1, <4>1 DEF FrameAt, NextInput, Inputs
      <3> QED BY <1>9, <2>1, <3>7, <3>9
    <2>2. CASE ~Framed(s) \/ s \in Below(st)
      BY <1>6, <1>9, <2>2 DEF IInv, FramesTrue
    <2> QED BY <2>1, <2>2
  <1>13. GotKnown'
    <2> SUFFICES ASSUME NEW s \in Steps, NEW i \in DOMAIN frame'[s].got, frame'[s].got[i].kind = "Valid"
                 PROVE  frame'[s].got[i].step \in Steps /\ s \in rdeps[frame'[s].got[i].step]
      BY DEF GotKnown
    <2>1. s \notin Below(st) /\ i \in DOMAIN frame[s].got
      BY <1>6
    <2>2. CASE frame'[s].got[i] = frame[s].got[i]
      BY <2>1, <2>2 DEF IInv, GotKnown
    <2>3. CASE s = frame[st].parent /\ frame'[s].got[i] = r
      <3>1. s \in rdeps[st]
        BY <1>3, <2>3, ConstantsAssumption DEF FrameOwned
      <3> QED BY <2>3, <3>1
    <2> QED BY <1>6, <2>1, <2>2, <2>3
  <1>14. FramesBelow'
    <2> SUFFICES ASSUME NEW T \in SUBSET Steps,
                        \A s \in Steps : Framed(s)' /\ frame'[s].parent = NoStep => s \in T,
                        \A s \in T : Children(s)' \subseteq T,
                        NEW s \in Steps, Framed(s)'
                 PROVE  s \in T
      BY DEF FramesBelow
    <2> DEFINE U == T \cup Below(st)
    <2>1. U \in SUBSET Steps
      BY <1>5
    <2>2. \A t \in Steps : Framed(t) /\ frame[t].parent = NoStep => t \in U
      BY <1>6, <1>9
    <2>3. ASSUME NEW t \in U, NEW c \in Children(t) PROVE c \in U
      <3>1. c \in Steps /\ Framed(c) /\ frame[c].parent = t
        BY DEF Children
      <3>2. CASE t \in Below(st)
        BY <1>5, <3>2, <2>3
      <3>3. CASE t \in T /\ c \notin Below(st)
        <4>1. c \in Children(t)'
          BY <1>6, <1>9, <3>1, <3>3 DEF Children
        <4> QED BY <3>3, <4>1
      <3> QED BY <2>3, <3>2, <3>3
    <2> HIDE DEF U
    <2>4. \A t \in Steps : Framed(t) => t \in U
      BY <2>1, <2>2, <2>3 DEF IInv, FramesBelow
    <2> QED BY <1>9, <2>4 DEF U
  <1>15. BuildsBelow'
    <2>1. Active' = Active
      BY <1>7, <1>10 DEF Active
    <2>2. \A c \in Builds : Subs(c)' = Subs(c)
      BY <1>7, <1>10 DEF Subs
    <2> QED BY <2>1, <2>2 DEF IInv, BuildsBelow
  <1>16. Ready'
    BY <1>10 DEF IInv, Ready
  <1>17. DepsKnown'
    BY <1>11 DEF IInv, DepsKnown
  <1>18. NoLostWakeup'
    <2> SUFFICES ASSUME NEW p \in Alive', p \in created, p \notin finished', p \notin runnable, deps[p] = {}
                 PROVE  p \in mon'.new_runnable \/ frame'[p].pc = "created"
      BY DEF NoLostWakeup
    <2>1. p \in Alive /\ p \in Steps
      BY <1>2, <1>11
    <2>2. p \in mon.new_runnable \/ frame[p].pc = "created"
      BY <2>1 DEF IInv, NoLostWakeup
    <2>3. CASE frame[p].pc = "created" /\ p \in Below(st)
      <3>1. frame[st].pc = "created" /\ (deps[st] = {} => st \in mon'.new_runnable)
        BY <2>1, <2>3 DEF AtAwait
      <3>2. p = st
        BY <2>1, <2>3, <3>1 DEF IInv, OneRuns
      <3> QED BY <3>1, <3>2
    <2> QED BY <1>6, <2>1, <2>2, <2>3
  <1>19. OneRuns'
    <2>1. \A s \in Steps : frame'[s].pc \in {"add_dep", "created"} => frame[s].pc \in {"add_dep", "created"}
      BY <1>5, <1>6 DEF Framed
    <2> QED BY <2>1 DEF IInv, OneRuns
  <1> QED BY <1>11, <1>8, <1>12, <1>13, <1>14, <1>15, <1>16, <1>17, <1>18, <1>19 DEF IInv

(* The five ways create_step returns. *)
LEMMA ReturnStep ==
    ASSUME IInv, NEW st \in Steps,
           \/ QueryDrvFails(st) \/ CheckCachedFailure(st) \/ StepFinished(st)
           \/ InputFailed(st) \/ StepCreated(st)
    PROVE  IInv' /\ Alive' \subseteq Alive
  <1> USE DEF graph, flags
  <1>1. TypeOK /\ RestTyped /\ GraphTyped
    BY TypeIs DEF IInv
  <1>2. Framed(st) /\ FrameAt(st)
    <2>1. Framed(st)
      BY DEF Framed, QueryDrvFails, CheckCachedFailure, StepFinished, InputFailed, StepCreated, MoreInputs
    <2> QED BY <2>1 DEF IInv, FramesTrue
  <1>3. Alive \in SUBSET Steps /\ HeldIn(Alive) /\ st \in Alive
    BY <1>1, <1>2, AliveHolds DEF HeldIn, FramesHold
  <1>4. /\ None \in Result /\ None.kind # "Valid" /\ None.step = NoStep
        /\ Valid(st) \in Result /\ Valid(st).kind = "Valid" /\ Valid(st).step = st
        /\ PreviousFailure(st) \in Result /\ PreviousFailure(st).kind # "Valid"
        /\ PreviousFailure(st).step = st
    BY DEF None, Valid, PreviousFailure, Result
  <1>5. CASE QueryDrvFails(st)
    BY <1>1, <1>2, <1>4, <1>5, ReturnKeeps DEF QueryDrvFails, RestTyped, GraphTyped
  <1>6. CASE CheckCachedFailure(st)
    BY <1>1, <1>2, <1>3, <1>4, <1>6, ReturnKeeps DEF CheckCachedFailure, RestTyped, GraphTyped
  <1>7. CASE StepFinished(st)
    <2>1. /\ mon' \in MonType /\ mon'.pc = mon.pc /\ mon'.ids = mon.ids /\ mon'.top = mon.top
          /\ mon'.todo = mon.todo /\ mon'.new_runnable = mon.new_runnable
      <3>1. DrvOf[st] \in Drvs
        BY ConstantsAssumption
      <3> QED BY <1>1, <1>7, <3>1 DEF StepFinished, RestTyped, MonType
    <2>2. built' \subseteq Drvs /\ finished \subseteq finished' /\ finished' \subseteq Steps
      BY <1>1, <1>7, ConstantsAssumption DEF StepFinished, RestTyped, GraphTyped
    <2>3. AtAwait /\ Return(st, None, creating)
      BY <1>7 DEF StepFinished
    <2>4. UNCHANGED <<db, notes, steps, previous_failure, created, runnable, deps, rdeps, toplevel, task>>
      BY <1>7 DEF StepFinished
    <2> QED BY <1>1, <1>2, <1>4, <2>1, <2>2, <2>3, <2>4, ReturnKeeps DEF GraphTyped
  <1>8. CASE InputFailed(st)
    <2>1. /\ AtAwait /\ MoreInputs(st) /\ NextInput(st).kind = "PreviousFailure"
          /\ Return(st, NextInput(st), creating)
          /\ UNCHANGED <<db, notes, built, graph, toplevel, mon, task>>
      BY <1>8 DEF InputFailed
    <2>2. NextInput(st) \in Result /\ NextInput(st).step \in Alive \cup {NoStep}
      BY <1>1, <1>3, <2>1, GotTyped DEF NextInput, MoreInputs, HeldIn, FramesHold
    <2>3. PICK r \in Result : r = NextInput(st)
      BY <2>2
    <2>4. r.step \in Alive \cup {NoStep} /\ r.kind # "Valid" /\ Return(st, r, creating)
      BY <2>1, <2>2, <2>3
    <2> QED BY <1>1, <1>2, <2>1, <2>4, ReturnKeeps DEF RestTyped, GraphTyped
  <1>9. CASE StepCreated(st)
    <2>1. /\ frame[st].pc = "created"
          /\ mon' = [mon EXCEPT !.new_runnable = @ \cup NewRunnable(st)]
          /\ Return(st, Valid(st), [creating EXCEPT ![frame[st].build].new_steps = @ \cup {st}])
          /\ UNCHANGED <<db, notes, built, graph, toplevel, task>>
      BY <1>9 DEF StepCreated
    <2>2. NewRunnable(st) \in SUBSET Steps /\ NewRunnable(st) = IF deps[st] = {} THEN {st} ELSE {}
      BY DEF NewRunnable
    <2>3. /\ mon' \in MonType /\ mon'.pc = mon.pc /\ mon'.ids = mon.ids /\ mon'.top = mon.top
          /\ mon'.todo = mon.todo /\ mon'.new_runnable = mon.new_runnable \cup NewRunnable(st)
      <3> HIDE DEF NewRunnable
      <3> QED BY <1>1, <2>1, <2>2 DEF RestTyped, MonType
    <2>4. st \in created
      BY <1>2, <2>1 DEF FrameAt
    <2>5. /\ deps[st] = {} => st \in mon'.new_runnable
          /\ \A s \in mon'.new_runnable \ mon.new_runnable : s = st /\ st \in created /\ deps[st] = {}
      BY <2>2, <2>3, <2>4
    <2>6. PICK cr : cr = [creating EXCEPT ![frame[st].build].new_steps = @ \cup {st}]
      OBVIOUS
    <2>7. Return(st, Valid(st), cr)
      BY <2>1, <2>6
    <2>8. /\ finished' = finished /\ finished \subseteq Steps /\ previous_failure' \subseteq Steps
          /\ built' \subseteq Drvs
      BY <1>1, <2>1 DEF RestTyped, GraphTyped
    <2>9. mon.new_runnable \subseteq mon'.new_runnable
      BY <2>3
    <2>10. PICK r \in Result : r = Valid(st) /\ r.kind = "Valid" /\ r.step = st
      BY <1>4
    <2>11. Return(st, r, cr) /\ r.step \in Alive
      BY <1>3, <2>7, <2>10
    <2>12. UNCHANGED <<db, notes, steps, created, runnable, deps, rdeps, toplevel, task>>
      BY <2>1
    <2> QED BY <1>2, <2>1, <2>3, <2>5, <2>6, <2>8, <2>9, <2>10, <2>11, <2>12, ReturnKeeps
  <1> QED BY <1>5, <1>6, <1>7, <1>8, <1>9
(* The derivations create_step is called for. *)
InputsCalled(st) == Elements(Inputs(st)) \ mon.finished_drvs
TopCalled(b) == {TopDrv[b]} \ mon.finished_drvs

(* Calls of create_step: new Steps get a frame, the caller may begin to    *)
(* read the stream, and nothing else of the graph changes.                 *)
LEMMA CallKeeps ==
    ASSUME IInv, TypeOK', AtAwait, NEW ds \in SUBSET Drvs, NEW ref \in SUBSET Steps,
           CreateSteps(ds, ref), NEW F, F = Fresh(ds),
           \A s \in Steps \ F :
               \/ frame'[s] = frame[s]
               \/ /\ Framed(s) /\ FrameAt(s)' /\ frame'[s].pc = "inputs"
                  /\ frame'[s].parent = frame[s].parent /\ frame'[s].build = frame[s].build
                  /\ \A i \in DOMAIN frame'[s].got :
                        /\ frame'[s].got[i].step \in Alive \cup {NoStep}
                        /\ frame'[s].got[i].kind = "Valid" =>
                              frame'[s].got[i].step \in Steps /\ s \in rdeps'[frame'[s].got[i].step],
           \A s \in F : /\ FrameOwned(s)' /\ FrameAt(s)' /\ frame'[s].pc = "query"
                        /\ DOMAIN frame'[s].got = {}
                        /\ frame'[s].parent # NoStep => Framed(frame'[s].parent),
           \A c \in Builds :
               /\ creating[c].pc = "step" => creating'[c].pc = "step" /\ creating'[c].step = creating[c].step
               /\ creating'[c].res.step \in Alive \cup {NoStep}
               /\ creating'[c].new_steps = creating[c].new_steps
               /\ creating'[c].pc # "none" <=> creating[c].pc # "none"
               /\ Subs(c)' = Subs(c),
           UNCHANGED <<toplevel, mon, task>>
    PROVE  IInv' /\ Alive' \subseteq Alive \cup F
  <1>1. TypeOK /\ FrameTyped
    BY TypeIs DEF IInv
  <1>2. PICK A \in SUBSET Steps : A = Alive
    BY <1>1, AliveHolds
  <1>3. HeldIn(A) /\ ClosedIn(A)
    BY <1>1, <1>2, AliveHolds
  <1>4. /\ runnable' = runnable \ F /\ created' = created \ F /\ finished' = finished \ F
        /\ \A s \in Steps : deps'[s] = IF s \in F THEN {} ELSE deps[s]
        /\ \A s \in Steps : (IF s \in F THEN {} ELSE rdeps[s]) \ F \subseteq rdeps'[s]
        /\ \A d \in ds : Existing(d) \/ HasFree(d)
    BY <1>1, CreateStepsEffect
  <1>5. F \in SUBSET Steps /\ F \cap A = {}
    BY <1>1, <1>2, <1>4, FreshSteps
  <1>6. \A s \in Steps : Framed(s) => s \in A /\ s \notin F /\ Framed(s)' /\ FrameOwned(s) /\ FrameAt(s)
    BY <1>3, <1>5 DEF HeldIn, FramesHold, IInv, FramesTrue, Framed
  <1>7. \A s \in Steps \ F : /\ Framed(s)' <=> Framed(s)
                             /\ frame'[s].parent = frame[s].parent /\ frame'[s].build = frame[s].build
    BY DEF Framed
  <1>8. Alive' \subseteq A \cup F
    <2>1. PICK T \in SUBSET Steps : T = A \cup F
      BY <1>5
    <2>2. BuildsHold(T)'
      BY <1>2, <1>3, <2>1 DEF HeldIn, BuildsHold
    <2>3. FramesHold(T)'
      <3> SUFFICES ASSUME NEW s \in Steps
                   PROVE  /\ Framed(s)' => s \in T
                          /\ \A i \in DOMAIN frame'[s].got : frame'[s].got[i].step \in T \cup {NoStep}
        BY DEF FramesHold
      <3>1. CASE s \in F
        BY <2>1, <3>1
      <3>2. CASE s \notin F
        BY <1>2, <1>3, <1>7, <2>1, <3>2 DEF HeldIn, FramesHold
      <3> QED BY <3>1, <3>2
    <2>4. TasksHold(T)' /\ mon'.new_runnable \subseteq T
      BY <1>3, <2>1 DEF HeldIn, TasksHold
    <2>5. ClosedIn(T)'
      BY <1>3, <1>4, <1>5, <2>1 DEF ClosedIn
    <2>6. HeldIn(T)'
      BY <2>2, <2>3, <2>4 DEF HeldIn
    <2> QED BY <2>1, <2>5, <2>6, AliveNext
  <1>9. FramesTrue'
    <2> SUFFICES ASSUME NEW s \in Steps
                 PROVE  (IF Framed(s) THEN FrameOwned(s) /\ FrameAt(s) ELSE DOMAIN frame[s].got = {})'
      BY DEF FramesTrue
    <2>1. CASE s \in F
      BY <2>1 DEF Framed
    <2>2. CASE s \notin F /\ Framed(s)
      <3>1. FrameAt(s)'
        <4>1. CASE frame'[s] = frame[s]
          BY <1>4, <1>6, <2>2, <4>1 DEF FrameAt, NextInput
        <4> QED BY <2>2, <4>1
      <3>2. PICK p \in Steps \cup {NoStep} : p = frame[s].parent
        BY <1>1 DEF FrameTyped, FrameType
      <3>3. p # NoStep => /\ p \notin F /\ Framed(p)' /\ frame'[p].build = frame[s].build
                          /\ DrvOf[s] \in Elements(Inputs(p)) /\ p \in rdeps[s]
        BY <1>6, <1>7, <2>2, <3>2 DEF FrameOwned
      <3>4. p # NoStep => p \in rdeps'[s]
        BY <1>4, <2>2, <3>3
      <3>5. frame'[s].parent = p /\ frame'[s].build = frame[s].build
        BY <1>7, <2>2, <3>2
      <3>6. FrameOwned(s)'
        BY <1>6, <2>2, <3>2, <3>3, <3>4, <3>5 DEF FrameOwned, Inputs
      <3> QED BY <1>6, <2>2, <3>1, <3>6
    <2>3. CASE s \notin F /\ ~Framed(s)
      BY <1>7, <2>3 DEF IInv, FramesTrue
    <2> QED BY <2>1, <2>2, <2>3
  <1>10. OneRuns'
    BY DEF OneRuns, AtAwait
  <1>11. GotKnown'
    <2> SUFFICES ASSUME NEW s \in Steps, NEW i \in DOMAIN frame'[s].got, frame'[s].got[i].kind = "Valid"
                 PROVE  frame'[s].got[i].step \in Steps /\ s \in rdeps'[frame'[s].got[i].step]
      BY DEF GotKnown
    <2>1. s \notin F
      OBVIOUS
    <2>2. CASE frame'[s] = frame[s]
      <3>1. PICK c \in Steps : c = frame[s].got[i].step /\ s \in rdeps[c]
        BY <2>2 DEF IInv, GotKnown
      <3>2. c \in A
        BY <1>3, <2>2, <3>1, ConstantsAssumption DEF HeldIn, FramesHold
      <3> QED BY <1>4, <1>5, <2>1, <2>2, <3>1, <3>2
    <2> QED BY <2>1, <2>2
  <1>12. FramesBelow'
    <2> SUFFICES ASSUME NEW T \in SUBSET Steps,
                        \A s \in Steps : Framed(s)' /\ frame'[s].parent = NoStep => s \in T,
                        \A s \in T : Children(s)' \subseteq T,
                        NEW s \in Steps, Framed(s)'
                 PROVE  s \in T
      BY DEF FramesBelow
    <2>1. \A t \in T : Children(t) \subseteq T
      <3> SUFFICES ASSUME NEW t \in T, NEW c \in Children(t) PROVE c \in T
        OBVIOUS
      <3>1. c \in Children(t)'
        BY <1>6, <1>7 DEF Children
      <3> QED BY <3>1
    <2>2. \A t \in Steps : Framed(t) => t \in T
      BY <1>6, <1>7, <2>1 DEF IInv, FramesBelow
    <2>3. CASE s \notin F
      BY <1>7, <2>2, <2>3
    <2>4. CASE s \in F /\ frame'[s].parent # NoStep
      <3>1. PICK p : p = frame'[s].parent
        OBVIOUS
      <3>2. p \in Steps
        BY <2>4, <3>1, TypeIsNext DEF FrameTyped, FrameType
      <3>3. p \in T
        BY <2>2, <2>4, <3>1, <3>2
      <3>4. s \in Children(p)'
        BY <3>1 DEF Children
      <3> QED BY <3>3, <3>4
    <2> QED BY <2>3, <2>4
  <1>13. BuildsBelow'
    <2>1. Active' = Active
      BY DEF Active
    <2> QED BY <2>1 DEF IInv, BuildsBelow
  <1>14. Ready'
    <2>1. \A s \in mon.new_runnable : s \notin F
      BY <1>3, <1>5 DEF HeldIn
    <2>2. \A s \in runnable \cup mon.new_runnable : s \in Steps
      BY <1>1 DEF TypeOK
    <2>3. \A s \in runnable' \cup mon.new_runnable : s \in created' /\ deps'[s] = {}
      BY <1>4, <2>1, <2>2 DEF IInv, Ready
    <2>4. mon.pc # "make_runnable" \/ mon.new_runnable \subseteq runnable' \cup mon.todo
      BY <1>4, <2>1 DEF IInv, Ready
    <2> QED BY <2>3, <2>4 DEF IInv, Ready
  <1>15. DepsKnown'
    <2> SUFFICES ASSUME NEW p \in Alive', NEW c \in deps'[p] PROVE p \in rdeps'[c]
      BY DEF DepsKnown
    <2>1. p \in A \cup F /\ p \in Steps
      BY <1>5, <1>8
    <2>2. p \in A /\ p \notin F /\ c \in deps[p]
      BY <1>4, <1>5, <2>1
    <2>3. c \in A /\ p \in rdeps[c]
      BY <1>2, <1>3, <2>2 DEF ClosedIn, IInv, DepsKnown
    <2> QED BY <1>4, <1>5, <2>2, <2>3
  <1>16. NoLostWakeup'
    <2> SUFFICES ASSUME NEW p \in Alive', p \in created', p \notin finished', p \notin runnable',
                        deps'[p] = {}
                 PROVE  p \in mon.new_runnable \/ frame'[p].pc = "created"
      BY DEF NoLostWakeup
    <2>1. p \in A /\ p \notin F /\ p \in created /\ p \notin finished /\ p \notin runnable /\ deps[p] = {}
      BY <1>4, <1>5, <1>8
    <2>2. p \in mon.new_runnable \/ frame[p].pc = "created"
      BY <1>2, <2>1 DEF IInv, NoLostWakeup
    <2>3. frame[p].pc # "created"
      BY <2>1 DEF AtAwait
    <2> QED BY <2>2, <2>3
  <1> QED BY <1>2, <1>8, <1>9, <1>10, <1>11, <1>12, <1>13, <1>14, <1>15, <1>16 DEF IInv

LEMMA NewFrameTyped ==
    ASSUME NEW p \in Steps \cup {NoStep}, NEW b \in Builds \cup {NoBuild}
    PROVE  /\ NewFrame(p, b) \in FrameType /\ NewFrame(p, b).pc = "query"
           /\ NewFrame(p, b).parent = p /\ NewFrame(p, b).build = b
           /\ NewFrame(p, b).got = <<>> /\ NewFrame(p, b).next = 1
  <1>1. NoFrame \in FrameType
    BY DEF NoFrame, FrameType, Frames
  <1>2. NewFrame(p, b) \in FrameType
    BY <1>1 DEF NewFrame, FrameType, Frames
  <1>3. NoFrame.got = <<>> /\ NoFrame.next = 1
    BY DEF NoFrame
  <1>4. /\ NewFrame(p, b).pc = "query" /\ NewFrame(p, b).parent = p /\ NewFrame(p, b).build = b
        /\ NewFrame(p, b).got = NoFrame.got /\ NewFrame(p, b).next = NoFrame.next
    BY <1>1 DEF NewFrame, FrameType
  <1> QED BY <1>2, <1>3, <1>4

(* The stream of the inputs of st begins. *)
LEMMA CreateInputsStep ==
    ASSUME IInv, NEW st \in Steps, CreateInputs(st)
    PROVE  IInv' /\ Alive' \subseteq Alive \cup Fresh(InputsCalled(st))
  <1> DEFINE inputs == Inputs(st)
             ds == Elements(inputs) \ mon.finished_drvs
             g == [i \in DOMAIN inputs |->
                      IF inputs[i] \notin ds THEN None
                      ELSE IF Existing(inputs[i]) THEN Valid(steps[inputs[i]])
                      ELSE Pending]
             f == [frame[st] EXCEPT !.pc = "inputs", !.next = 1, !.got = g]
  <1>1. TypeOK /\ RestTyped /\ FrameTyped
    BY TypeIs DEF IInv
  <1>2. /\ AtAwait /\ frame[st].pc = "missing" /\ CreateSteps(ds, {st})
        /\ UNCHANGED <<db, notes, built, toplevel, creating, mon, task>>
    BY DEF CreateInputs, Inputs
  <1>3. frame' = [s \in Steps |-> IF s = st THEN f
                                  ELSE IF s \in Fresh(ds) THEN NewFrame(st, frame[st].build)
                                  ELSE frame[s]]
    BY DEF CreateInputs, Inputs
  <1>4. inputs \in Seq(Drvs)
    BY ConstantsAssumption DEF Inputs
  <1>5. ds \in SUBSET Drvs /\ ds \subseteq Elements(inputs)
    BY <1>4 DEF Elements
  <1>6. PICK D \in SUBSET Drvs : D = ds
    BY <1>5
  <1>7. PICK F : F = Fresh(D)
    OBVIOUS
  <1>8. /\ GraphTyped' /\ created' = created \ F
        /\ \A d \in D : Existing(d) \/ HasFree(d)
        /\ \A s \in Steps : (IF s \in F THEN {} ELSE rdeps[s]) \ F \subseteq rdeps'[s]
        /\ \A d \in D : st \in rdeps'[StepFor(d)]
    <2>1. CreateSteps(D, {st}) /\ {st} \in SUBSET Steps
      BY <1>2, <1>6
    <2> HIDE DEF g, f, ds, inputs
    <2>2. /\ GraphTyped' /\ created' = created \ Fresh(D)
          /\ \A d \in D : Existing(d) \/ HasFree(d)
          /\ \A s \in Steps : (IF s \in Fresh(D) THEN {} ELSE rdeps[s]) \ Fresh(D) \subseteq rdeps'[s]
          /\ \A d \in D : {st} \subseteq rdeps'[StepFor(d)]
      BY <1>1, <2>1, CreateStepsEffect
    <2> QED BY <1>7, <2>2
  <1>9. /\ \A d \in D : Existing(d) => StepFor(d) = steps[d] /\ steps[d] \in Alive /\ steps[d] \in Steps
        /\ \A s \in F : s \in Steps /\ s \notin Alive /\ DrvOf[s] \in D /\ StepFor(DrvOf[s]) = s
        /\ F \in SUBSET Steps
    BY <1>1, <1>7, <1>8, FreshSteps
  <1>10. Framed(st) /\ st \in Alive /\ st \notin F /\ FrameOwned(st) /\ FrameAt(st)
    BY <1>1, <1>2, <1>9, AliveHolds DEF Framed, HeldIn, FramesHold, IInv, FramesTrue
  <1>11. \A i \in DOMAIN inputs :
            /\ g[i] \in Result /\ g[i].step \in Alive \cup {NoStep}
            /\ g[i].kind = "Valid" => g[i].step \in Steps /\ st \in rdeps'[g[i].step]
    <2> SUFFICES ASSUME NEW i \in DOMAIN inputs
                 PROVE  /\ g[i] \in Result /\ g[i].step \in Alive \cup {NoStep}
                        /\ g[i].kind = "Valid" => g[i].step \in Steps /\ st \in rdeps'[g[i].step]
      OBVIOUS
    <2>1. g[i] = IF inputs[i] \notin ds THEN None
                 ELSE IF Existing(inputs[i]) THEN Valid(steps[inputs[i]]) ELSE Pending
      OBVIOUS
    <2> HIDE DEF g, inputs, ds
    <2>2. CASE inputs[i] \in ds /\ Existing(inputs[i])
      <3>1. PICK c \in Steps : c = steps[inputs[i]] /\ c \in Alive /\ st \in rdeps'[c]
        BY <1>6, <1>8, <1>9, <2>2
      <3>2. g[i] = Valid(c)
        BY <2>1, <2>2, <3>1
      <3> QED BY <3>1, <3>2 DEF Valid, Result
    <2>3. CASE ~(inputs[i] \in ds /\ Existing(inputs[i]))
      BY <2>1, <2>3 DEF None, Pending, Result
    <2> QED BY <2>2, <2>3
  <1>12. g \in Seq(Result) /\ DOMAIN g = DOMAIN inputs
    <2>1. DOMAIN inputs = 1..Len(inputs) /\ Len(inputs) \in Nat
      BY <1>4
    <2> HIDE DEF inputs, ds
    <2>2. g = [i \in 1..Len(inputs) |-> g[i]] /\ DOMAIN g = DOMAIN inputs
      BY <2>1
    <2> HIDE DEF g
    <2> QED BY <1>11, <2>1, <2>2
  <1> HIDE DEF g
  <1>13. /\ f \in FrameType /\ f.pc = "inputs" /\ f.next = 1 /\ f.got = g
         /\ f.parent = frame[st].parent /\ f.build = frame[st].build
    <2>1. frame[st] \in FrameType
      BY <1>1 DEF FrameTyped
    <2> QED BY <1>12, <2>1 DEF FrameType, Frames
  <1> HIDE DEF f
  <1>14. PICK n : n = NewFrame(st, frame[st].build)
    OBVIOUS
  <1>15. /\ n \in FrameType /\ n.pc = "query" /\ n.parent = st /\ n.build = frame[st].build
         /\ n.got = <<>> /\ n.next = 1
    <2>1. frame[st].build \in Builds \cup {NoBuild}
      BY <1>1 DEF FrameTyped, FrameType
    <2> QED BY <1>14, <2>1, NewFrameTyped
  <1>16. /\ frame'[st] = f /\ \A s \in F : frame'[s] = n
         /\ \A s \in Steps \ F : s # st => frame'[s] = frame[s]
    BY <1>3, <1>6, <1>7, <1>9, <1>10, <1>14
  <1>17. FrameTyped'
    <2>1. \A s \in Steps : frame'[s] \in FrameType /\ frame'[s].next \in 1 .. Len(frame'[s].got) + 1
      <3> SUFFICES ASSUME NEW s \in Steps
                   PROVE  frame'[s] \in FrameType /\ frame'[s].next \in 1 .. Len(frame'[s].got) + 1
        OBVIOUS
      <3>1. CASE s = st
        BY <1>12, <1>13, <1>16, <3>1
      <3>2. CASE s \in F
        BY <1>15, <1>16, <3>2
      <3>3. CASE s # st /\ s \notin F
        BY <1>1, <1>16, <3>3 DEF FrameTyped
      <3> QED BY <3>1, <3>2, <3>3
    <2>2. frame' = [s \in Steps |-> frame'[s]]
      BY <1>3
    <2>3. frame' \in [Steps -> FrameType]
      BY <2>1, <2>2
    <2> QED BY <2>1, <2>3 DEF FrameTyped
  <1>18. TypeOK'
    BY <1>1, <1>2, <1>8, <1>17, TypeIsNext DEF RestTyped
  <1>19. FrameAt(st)'
    <2>1. st \notin created'
      BY <1>2, <1>8, <1>10 DEF FrameAt
    <2> QED BY <1>12, <1>13, <1>16, <2>1 DEF FrameAt
  <1>20. \A s \in F : /\ FrameOwned(s)' /\ FrameAt(s)' /\ frame'[s].pc = "query"
                      /\ DOMAIN frame'[s].got = {}
                      /\ frame'[s].parent # NoStep => Framed(frame'[s].parent)
    <2> SUFFICES ASSUME NEW s \in F
                 PROVE  /\ FrameOwned(s)' /\ FrameAt(s)' /\ frame'[s].pc = "query"
                        /\ DOMAIN frame'[s].got = {}
                        /\ frame'[s].parent # NoStep => Framed(frame'[s].parent)
      OBVIOUS
    <2>1. s \in Steps /\ st \in rdeps'[s] /\ DrvOf[s] \in Elements(inputs) /\ s \notin created'
      BY <1>5, <1>6, <1>8, <1>9
    <2>2. frame'[s].pc = "query" /\ frame'[s].parent = st /\ frame'[s].build = frame[st].build
      BY <1>15, <1>16
    <2>3. FrameAt(s)'
      BY <2>1, <2>2 DEF FrameAt
    <2>4. Framed(st)' /\ frame'[st].build = frame[st].build
      BY <1>13, <1>16 DEF Framed
    <2>5. FrameOwned(s)'
      BY <1>2, <1>10, <2>1, <2>2, <2>4, ConstantsAssumption DEF FrameOwned, Inputs
    <2> QED BY <1>10, <1>15, <1>16, <2>2, <2>3, <2>5
  <1>21. \A s \in Steps \ F :
               \/ frame'[s] = frame[s]
               \/ /\ Framed(s) /\ FrameAt(s)' /\ frame'[s].pc = "inputs"
                  /\ frame'[s].parent = frame[s].parent /\ frame'[s].build = frame[s].build
                  /\ \A i \in DOMAIN frame'[s].got :
                        /\ frame'[s].got[i].step \in Alive \cup {NoStep}
                        /\ frame'[s].got[i].kind = "Valid" =>
                              frame'[s].got[i].step \in Steps /\ s \in rdeps'[frame'[s].got[i].step]
    <2> HIDE DEF inputs, ds
    <2> SUFFICES ASSUME NEW s \in Steps \ F, s = st
                 PROVE  /\ Framed(s) /\ FrameAt(s)' /\ frame'[s].pc = "inputs"
                        /\ frame'[s].parent = frame[s].parent /\ frame'[s].build = frame[s].build
                        /\ \A i \in DOMAIN frame'[s].got :
                              /\ frame'[s].got[i].step \in Alive \cup {NoStep}
                              /\ frame'[s].got[i].kind = "Valid" =>
                                    frame'[s].got[i].step \in Steps /\ s \in rdeps'[frame'[s].got[i].step]
      BY <1>16
    <2> QED BY <1>10, <1>11, <1>12, <1>13, <1>16, <1>19
  <1>22. HeldIn(Alive)
    BY <1>1, AliveHolds
  <1>23. \A c \in Builds :
               /\ creating[c].pc = "step" => creating'[c].pc = "step" /\ creating'[c].step = creating[c].step
               /\ creating'[c].res.step \in Alive \cup {NoStep}
               /\ creating'[c].new_steps = creating[c].new_steps
               /\ creating'[c].pc # "none" <=> creating[c].pc # "none"
               /\ Subs(c)' = Subs(c)
    BY <1>2, <1>22 DEF HeldIn, BuildsHold, Subs
  <1>24. CreateSteps(D, {st}) /\ {st} \in SUBSET Steps
    BY <1>2, <1>6
  <1>25. AtAwait /\ UNCHANGED <<toplevel, mon, task>>
    BY <1>2
  <1>26. Fresh(InputsCalled(st)) = F
    BY <1>6, <1>7 DEF InputsCalled
  <1> QED BY <1>7, <1>18, <1>20, <1>21, <1>23, <1>24, <1>25, <1>26, CallKeeps

(* create_step of a toplevel derivation is called. *)
LEMMA CreateToplevelStep ==
    ASSUME IInv, NEW b \in Builds, CreateToplevel(b)
    PROVE  IInv' /\ Alive' \subseteq Alive \cup Fresh(TopCalled(b))
  <1> USE DEF graph, flags
  <1> DEFINE d == TopDrv[b]
  <1>1. TypeOK /\ RestTyped /\ FrameTyped /\ HeldIn(Alive) /\ Alive \in SUBSET Steps
    BY TypeIs, AliveHolds DEF IInv
  <1>2. /\ AtAwait /\ creating[b].pc = "start"
        /\ UNCHANGED <<db, notes, built, toplevel, mon, task>>
    BY DEF CreateToplevel
  <1>3. creating[b] \in CreatingType /\ d \in Drvs /\ {d} \in SUBSET Drvs /\ {} \in SUBSET Steps
    BY <1>1, ConstantsAssumption DEF RestTyped
  <1>4. CASE d \in mon.finished_drvs
    <2>1. /\ creating' = [creating EXCEPT ![b].pc = "result", ![b].res = None]
          /\ UNCHANGED <<graph, frame>>
      BY <1>4 DEF CreateToplevel
    <2> DEFINE m == [creating[b] EXCEPT !.pc = "result", !.res = None]
    <2>2. /\ m \in CreatingType /\ m.pc = "result" /\ m.res.step = NoStep
          /\ m.new_steps = creating[b].new_steps
      BY <1>3 DEF CreatingType, BuildPcs, None, Result
    <2>3. creating' = [creating EXCEPT ![b] = m]
      BY <1>1, <2>1 DEF RestTyped
    <2> HIDE DEF m
    <2>4. /\ creating' \in [Builds -> CreatingType] /\ creating'[b] = m
          /\ \A c \in Builds \ {b} : creating'[c] = creating[c]
      BY <1>1, <2>2, <2>3 DEF RestTyped
    <2>5. TypeOK'
      BY <1>1, <1>2, <2>1, <2>4, MonUpdate DEF RestTyped, TypeOK
    <2>6. BuildsBelow'
      <3>1. Active' = Active
        BY <1>2, <2>2, <2>4 DEF Active
      <3>2. \A c \in Builds : Subs(c)' = Subs(c)
        BY <1>2, <2>2, <2>4 DEF Subs
      <3> QED BY <1>2, <3>1, <3>2 DEF IInv, BuildsBelow
    <2>7. \A c \in Builds :
               /\ toplevel'[c] \in Alive \cup {NoStep}
               /\ creating[c].pc = "step" =>
                     creating'[c].pc = "step" /\ creating'[c].step = creating[c].step
               /\ creating'[c].res.step \in Alive \cup {NoStep}
               /\ creating'[c].new_steps \subseteq Alive
      BY <1>1, <1>2, <2>2, <2>4 DEF HeldIn, BuildsHold
    <2>8. /\ mon'.todo \subseteq mon'.new_runnable
          /\ mon'.pc = "make_runnable" => mon'.new_runnable \subseteq runnable' \cup mon'.todo
      BY <1>2, <2>1 DEF IInv, Ready
    <2> QED BY <1>1, <1>2, <2>1, <2>5, <2>6, <2>7, <2>8, TasksAlive, FramelessStep
  <1>5. CASE d \notin mon.finished_drvs
    <2> DEFINE pc == IF Existing(d) THEN "result" ELSE "step"
               res == IF Existing(d) THEN Valid(StepFor(d)) ELSE Pending
               m == [creating[b] EXCEPT !.step = StepFor(d), !.pc = pc, !.res = res]
    <2>1. /\ CreateSteps({d}, {})
          /\ creating' = [creating EXCEPT ![b].step = StepFor(d), ![b].pc = pc, ![b].res = res]
          /\ frame' = IF Existing(d) THEN frame
                      ELSE [frame EXCEPT ![StepFor(d)] = NewFrame(NoStep, b)]
      BY <1>5 DEF CreateToplevel
    <2>2. PICK D \in SUBSET Drvs : D = {d}
      BY <1>3
    <2>3. PICK F : F = Fresh(D)
      OBVIOUS
    <2>4. CreateSteps(D, {})
      BY <2>1, <2>2
    <2>5. /\ GraphTyped' /\ created' = created \ Fresh(D)
          /\ \A x \in D : Existing(x) \/ HasFree(x)
      <3> HIDE DEF d, pc, res, m
      <3> QED BY <1>1, <1>3, <2>4, CreateStepsEffect
    <2>6. PICK st \in Steps : /\ st = StepFor(d) /\ (Existing(d) => st \in Alive)
                              /\ (~Existing(d) => st \in F)
      BY <1>1, <2>2, <2>3, <2>5, FreshSteps
    <2>7. \A s \in F : s = st /\ s \notin Alive /\ ~Existing(d)
      BY <1>1, <2>2, <2>3, <2>5, <2>6, FreshSteps
    <2>8. pc \in BuildPcs \ {"none", "nested"} /\ res \in Result /\ res.step \in Alive \cup {NoStep}
      <3>1. CASE Existing(d)
        BY <2>6, <3>1 DEF BuildPcs, Valid, Result
      <3>2. CASE ~Existing(d)
        BY <3>2 DEF BuildPcs, Pending, Result
      <3> QED BY <3>1, <3>2
    <2>9. pc = "step" \/ Existing(d)
      OBVIOUS
    <2> HIDE DEF pc, res, d
    <2>10. /\ m \in CreatingType /\ m.step = st /\ m.pc = pc /\ m.res = res
           /\ m.new_steps = creating[b].new_steps
      BY <1>3, <2>6, <2>8 DEF CreatingType
    <2>11. creating' = [creating EXCEPT ![b] = m]
      BY <1>1, <2>1 DEF RestTyped
    <2> HIDE DEF m
    <2>12. /\ creating' \in [Builds -> CreatingType] /\ creating'[b] = m
           /\ \A c \in Builds \ {b} : creating'[c] = creating[c]
      BY <1>1, <2>10, <2>11 DEF RestTyped
    <2>13. PICK n : n = NewFrame(NoStep, b)
      OBVIOUS
    <2>14. /\ n \in FrameType /\ n.pc = "query" /\ n.parent = NoStep /\ n.build = b
           /\ n.got = <<>> /\ n.next = 1
      BY <2>13, NewFrameTyped
    <2>15. /\ \A s \in F : frame'[s] = n
           /\ \A s \in Steps \ F : frame'[s] = frame[s]
           /\ frame' = [s \in Steps |-> frame'[s]]
      <3>1. CASE Existing(d)
        BY <1>1, <2>1, <2>7, <3>1 DEF FrameTyped
      <3>2. CASE ~Existing(d)
        <4>1. frame' = [frame EXCEPT ![st] = n]
          BY <2>1, <2>6, <2>13, <3>2
        <4> QED BY <1>1, <2>6, <2>7, <3>2, <4>1 DEF FrameTyped
      <3> QED BY <3>1, <3>2
    <2>16. FrameTyped'
      <3>1. \A s \in Steps : frame'[s] \in FrameType /\ frame'[s].next \in 1 .. Len(frame'[s].got) + 1
        BY <1>1, <2>14, <2>15 DEF FrameTyped
      <3>2. frame' \in [Steps -> FrameType]
        BY <2>15, <3>1
      <3> QED BY <3>1, <3>2 DEF FrameTyped
    <2>17. TypeOK'
      BY <1>1, <1>2, <2>5, <2>12, <2>16, TypeIsNext DEF RestTyped
    <2>18. \A s \in F : /\ FrameOwned(s)' /\ FrameAt(s)' /\ frame'[s].pc = "query"
                        /\ DOMAIN frame'[s].got = {}
                        /\ frame'[s].parent # NoStep => Framed(frame'[s].parent)
      <3> SUFFICES ASSUME NEW s \in F
                   PROVE  /\ FrameOwned(s)' /\ FrameAt(s)' /\ frame'[s].pc = "query"
                          /\ DOMAIN frame'[s].got = {}
                          /\ frame'[s].parent # NoStep => Framed(frame'[s].parent)
        OBVIOUS
      <3>1. s \notin created' /\ s = st /\ pc = "step"
        BY <2>3, <2>5, <2>7, <2>9
      <3>2. frame'[s].pc = "query" /\ frame'[s].parent = NoStep /\ frame'[s].build = b
        BY <2>14, <2>15
      <3>3. FrameAt(s)'
        BY <3>1, <3>2 DEF FrameAt
      <3>4. FrameOwned(s)'
        BY <2>10, <2>12, <3>1, <3>2 DEF FrameOwned
      <3> QED BY <2>14, <2>15, <3>2, <3>3, <3>4
    <2>19. \A c \in Builds :
               /\ creating[c].pc = "step" => creating'[c].pc = "step" /\ creating'[c].step = creating[c].step
               /\ creating'[c].res.step \in Alive \cup {NoStep}
               /\ creating'[c].new_steps = creating[c].new_steps
               /\ creating'[c].pc # "none" <=> creating[c].pc # "none"
               /\ Subs(c)' = Subs(c)
      <3>1. /\ creating'[b].pc \notin {"none", "nested"} /\ creating'[b].res.step \in Alive \cup {NoStep}
            /\ creating'[b].new_steps = creating[b].new_steps
        BY <2>8, <2>10, <2>12
      <3>2. \A c \in Builds : creating[c].res.step \in Alive \cup {NoStep}
        BY <1>1 DEF HeldIn, BuildsHold
      <3> QED BY <1>2, <2>12, <3>1, <3>2 DEF Subs
    <2>20. Fresh(TopCalled(b)) = F
      BY <1>5, <2>2, <2>3 DEF TopCalled, d
    <2> QED BY <1>2, <1>3, <2>3, <2>4, <2>15, <2>17, <2>18, <2>19, <2>20, CallKeeps
  <1> QED BY <1>4, <1>5
-----------------------------------------------------------------------------
(* The invariant.                                                          *)

LEMMA InitTrue ==
    ASSUME Init
    PROVE  IInv
  <1>1. FrameTyped
    BY DEF Init, FrameTyped, FrameType, NoFrame, Frames
  <1>2. GraphTyped
    BY DEF Init, GraphTyped
  <1>3. RestTyped
    <2>1. NotCreating \in CreatingType
      BY DEF NotCreating, CreatingType, Pending, Result, BuildPcs
    <2>2. creating \in [Builds -> CreatingType]
      BY <2>1 DEF Init
    <2>3. NoTask \in TaskType
      BY DEF NoTask, TaskType, TaskPcs
    <2>4. task \in [Steps -> TaskType]
      BY <2>3 DEF Init
    <2>5. mon \in MonType
      BY DEF Init, MonType
    <2>6. db \in [Builds -> {"absent", "queued", "succeeded", "failed", "cancelled"}]
      BY DEF Init
    <2> QED BY <2>2, <2>4, <2>5, <2>6 DEF Init, RestTyped
  <1>4. TypeOK
    BY <1>1, <1>2, <1>3, TypeIs
  <1>5. \A st \in Steps : ~Framed(st) /\ DOMAIN frame[st].got = {} /\ frame[st].pc = "none"
    BY DEF Init, Framed, NoFrame
  <1>6. FramesTrue /\ GotKnown /\ OneRuns
    BY <1>5 DEF FramesTrue, GotKnown, OneRuns
  <1>7. FramesBelow
    BY <1>5 DEF FramesBelow
  <1>8. BuildsBelow
    BY DEF Init, BuildsBelow, Active, NotCreating
  <1>9. Ready
    BY DEF Init, Ready
  <1>10. DepsKnown
    <2>1. Alive \in SUBSET Steps
      BY <1>4, AliveHolds
    <2> QED BY <2>1 DEF Init, DepsKnown
  <1>11. NoLostWakeup
    BY DEF Init, NoLostWakeup
  <1> QED BY <1>4, <1>6, <1>7, <1>8, <1>9, <1>10, <1>11 DEF IInv

LEMMA NextTrue ==
    ASSUME IInv, [Next]_vars
    PROVE  IInv'
  <1>1. CASE UNCHANGED vars
    <2>1. TypeOK'
      BY <1>1 DEF IInv, TypeOK, vars, graph, flags, monitored
    <2>2. \A st \in Steps : task'[st].pc # "none" => st \in Alive
      BY <1>1, TasksAlive DEF IInv, vars
    <2> QED BY <1>1, <2>1, <2>2, QuietStep DEF vars, graph, flags, monitored
  <1>2. ASSUME NEW st \in Steps, CreateStepNext(st) PROVE IInv'
    BY <1>2, FrameStep, ReturnStep, CreateInputsStep DEF CreateStepNext
  <1>3. ASSUME NEW b \in Builds, CreateBuildNext(b) PROVE IInv'
    BY <1>3, BuildDoneStep, NestedBuildsStep, CreateToplevelStep DEF CreateBuildNext
  <1>4. ASSUME NEW st \in Steps, TaskNext(st) PROVE IInv'
    BY <1>4, BuilderStep, GetBuildsStep, CommitStep, RdepsStep DEF TaskNext
  <1>5. CASE Monitor
    BY <1>2, <1>3, <1>5, LoopStep, NextBuildStep, RdepsStep DEF Monitor
  <1>6. CASE \E st \in Steps : Enqueue(st) \/ TaskNext(st)
    BY <1>4, <1>6, EnqueueStep
  <1>7. CASE \E b \in Builds : BuildAdded(b) \/ BuildCancelled(b)
    BY <1>7, RowsStep
  <1> QED BY <1>1, <1>5, <1>6, <1>7 DEF Next

(* The bookkeeping of the queue monitor and of the tasks that end steps,   *)
(* together: no step of one breaks what the other relies on.               *)
THEOREM Inductive == Spec => []IInv
  BY InitTrue, NextTrue, PTL DEF Spec

(* Every variable keeps its type, the weak map names a step of the         *)
(* derivation it is asked for, and create_step reads the stream of its     *)
(* inputs within its bounds.                                               *)
THEOREM TypeCorrect == Spec => []TypeOK
  <1>1. IInv => TypeOK
    BY DEF IInv
  <1> QED BY <1>1, Inductive, PTL

(* The assertions of Step::make_runnable on created and deps hold: a       *)
(* runnable step that something holds is complete and has no dependency.   *)
THEOREM RunnableReady == Spec => []RunnableIsReady
  <1>1. IInv => RunnableIsReady
    BY DEF IInv, Ready, RunnableIsReady
  <1> QED BY <1>1, Inductive, PTL

(* Step::make_rdeps_runnable of a dependency finds every step that waits   *)
(* for it.                                                                 *)
THEOREM DependentsKnown == Spec => []DepsKnown
  <1>1. IInv => DepsKnown
    BY DEF IInv
  <1> QED BY <1>1, Inductive, PTL

(* No wakeup is lost between set_created of create_step and the            *)
(* make_rdeps_runnable of its last dependency.                             *)
THEOREM WakeupsArrive == Spec => []NoLostWakeup
  <1>1. IInv => NoLostWakeup
    BY DEF IInv
  <1> QED BY <1>1, Inductive, PTL
-----------------------------------------------------------------------------
(* The inputs of a step that is built.                                     *)

Ended == {"imported", "finish", "succeed", "notify"}
ReadPast(st, i) == st \in created \/ (frame[st].pc \in {"inputs", "add_dep"} /\ i < frame[st].next)

LEMMA BuiltKept ==
    ASSUME BuiltTrue, built \subseteq built', previous_failure' = {}, mon'.finished_drvs \subseteq built',
           \A st \in finished' : st \in finished \/ DrvOf[st] \in built',
           \A st \in Steps :
               /\ frame'[st].pc = "present" => frame[st].pc = "present" \/ DrvOf[st] \in built'
               /\ task'[st].pc \in Ended => task[st].pc \in Ended \/ DrvOf[st] \in built'
               /\ task'[st].pc # "none" => task[st].pc # "none" \/ Elements(Inputs(st)) \subseteq built'
    PROVE  BuiltTrue'
  BY DEF BuiltTrue, Inputs, Ended

LEMMA CoverKept ==
    ASSUME InputsCovered, built \subseteq built',
           \A st \in Steps : \A i \in DOMAIN Inputs(st) :
               ReadPast(st, i)' => \/ Covered(st, i)'
                                   \/ ReadPast(st, i) /\ \A c \in deps[st] \ deps'[st] : DrvOf[c] \in built'
    PROVE  InputsCovered'
  <1> SUFFICES ASSUME NEW st \in Steps, NEW i \in DOMAIN Inputs(st), ReadPast(st, i)'
               PROVE  Covered(st, i)'
    BY DEF InputsCovered, ReadPast, Inputs
  <1>1. CASE ReadPast(st, i) /\ \A c \in deps[st] \ deps'[st] : DrvOf[c] \in built'
    <2>1. Covered(st, i)
      BY <1>1 DEF InputsCovered, ReadPast
    <2> QED BY <1>1, <2>1 DEF Covered, Inputs
  <1> QED BY <1>1

LEMMA GotKept ==
    ASSUME GotTrue, built \subseteq built',
           \A st \in Steps : \A i \in DOMAIN frame'[st].got :
               \/ i \in DOMAIN frame[st].got /\ frame'[st].got[i] = frame[st].got[i]
               \/ /\ frame'[st].got[i].kind = "Valid" => DrvOf[frame'[st].got[i].step] = Inputs(st)[i]
                  /\ frame'[st].got[i].kind = "None" => Inputs(st)[i] \in built'
                  /\ frame'[st].got[i].kind # "PreviousFailure"
    PROVE  GotTrue'
  <1> SUFFICES ASSUME NEW st \in Steps, NEW i \in DOMAIN frame'[st].got
               PROVE  /\ frame'[st].got[i].kind = "Valid" => DrvOf[frame'[st].got[i].step] = Inputs(st)[i]
                      /\ frame'[st].got[i].kind = "None" => Inputs(st)[i] \in built'
                      /\ frame'[st].got[i].kind # "PreviousFailure"
    BY DEF GotTrue, Inputs
  <1>1. CASE i \in DOMAIN frame[st].got /\ frame'[st].got[i] = frame[st].got[i]
    BY <1>1 DEF GotTrue
  <1> QED BY <1>1

(* A step outside create_step. *)
LEMMA FramelessBuilt ==
    ASSUME BInv, UNCHANGED <<frame, created, previous_failure>>, built \subseteq built',
           \A st \in Steps : \A c \in deps[st] \ deps'[st] : DrvOf[c] \in built,
           mon'.finished_drvs \subseteq mon.finished_drvs,
           \A st \in finished' : st \in finished \/ DrvOf[st] \in built,
           \A st \in Steps :
               /\ task'[st].pc \in Ended => task[st].pc \in Ended \/ DrvOf[st] \in built'
               /\ task'[st].pc # "none" => task[st].pc # "none" \/ Elements(Inputs(st)) \subseteq built
    PROVE  BInv'
  <1>1. BuiltTrue'
    <2>1. BuiltTrue /\ previous_failure' = {} /\ mon'.finished_drvs \subseteq built'
      BY DEF BInv, BuiltTrue
    <2> QED BY <2>1, BuiltKept
  <1>2. InputsCovered'
    <2>1. \A st \in Steps : \A i \in DOMAIN Inputs(st) :
             ReadPast(st, i)' => ReadPast(st, i) /\ \A c \in deps[st] \ deps'[st] : DrvOf[c] \in built'
      BY DEF ReadPast
    <2> QED BY <2>1, CoverKept DEF BInv
  <1>3. GotTrue'
    BY GotKept DEF BInv
  <1> QED BY <1>1, <1>2, <1>3 DEF BInv

(* A task changes its state. *)
LEMMA TaskPc ==
    ASSUME RestTyped, NEW st \in Steps, NEW pc, task' = [task EXCEPT ![st].pc = pc]
    PROVE  task'[st].pc = pc /\ \A s \in Steps \ {st} : task'[s].pc = task[s].pc
  BY DEF RestTyped, TaskType

LEMMA TasksBuilt ==
    ASSUME IInv, BInv, NEW st \in Steps,
           \/ Enqueue(st) \/ Realise(st) \/ OutputsImported(st) \/ SucceedStep(st) \/ FailStep(st)
           \/ TaskDbError(st) \/ GetDirectBuilds(st) \/ CommitSucceeded(st) \/ CommitFailed(st)
           \/ \E ids \in SUBSET Builds : GetAllIndirectBuilds(st, ids)
    PROVE  BInv'
  <1> USE DEF graph, flags, monitored
  <1>1. TypeOK /\ RestTyped
    BY TypeIs DEF IInv
  <1>2. UNCHANGED <<frame, created, previous_failure, deps, mon>> /\ built \subseteq built'
    BY DEF Enqueue, Realise, OutputsImported, SucceedStep, FailStep, TaskDbError, GetDirectBuilds,
           CommitSucceeded, CommitFailed, GetAllIndirectBuilds
  <1>3. \A s \in finished' : s \in finished \/ DrvOf[s] \in built
    <2>1. finished' = finished \/ (finished' = finished \cup {st} /\ task[st].pc = "imported")
      BY DEF Enqueue, Realise, OutputsImported, SucceedStep, FailStep, TaskDbError, GetDirectBuilds,
             CommitSucceeded, CommitFailed, GetAllIndirectBuilds
    <2> QED BY <2>1 DEF BInv, BuiltTrue
  <1>4. \A s \in Steps \ {st} : task'[s].pc = task[s].pc
    BY <1>1 DEF RestTyped, Enqueue, Realise, OutputsImported, SucceedStep, FailStep, TaskDbError,
                GetDirectBuilds, CommitSucceeded, CommitFailed, GetAllIndirectBuilds
  <1>5. /\ task'[st].pc \in Ended => task[st].pc \in Ended \/ DrvOf[st] \in built'
        /\ task'[st].pc # "none" => task[st].pc # "none" \/ Elements(Inputs(st)) \subseteq built
    <2>1. CASE Enqueue(st)
      <3>1. task'[st].pc = "queued" /\ st \in runnable
        BY <1>1, <2>1, TaskPc DEF Enqueue
      <3>2. st \in created /\ deps[st] = {}
        BY <3>1 DEF IInv, Ready
      <3>3. \A i \in DOMAIN Inputs(st) : Inputs(st)[i] \in built
        BY <3>2 DEF BInv, InputsCovered, Covered
      <3> QED BY <3>1, <3>3 DEF Elements, Ended
    <2>2. CASE Realise(st) \/ OutputsImported(st) \/ SucceedStep(st) \/ FailStep(st)
      BY <1>1, <2>2, TaskPc DEF Realise, OutputsImported, SucceedStep, FailStep, Ended
    <2>3. CASE TaskDbError(st)
      BY <1>1, <2>3 DEF TaskDbError, RestTyped, NoTask, Ended
    <2>4. CASE GetDirectBuilds(st)
      BY <2>4 DEF GetDirectBuilds, Ended
    <2>5. CASE CommitSucceeded(st) \/ CommitFailed(st)
      BY <1>1, <2>5 DEF CommitSucceeded, CommitFailed, RestTyped, NoTask, Ended
    <2>6. ASSUME NEW ids \in SUBSET Builds, GetAllIndirectBuilds(st, ids)
          PROVE  task'[st].pc \notin Ended /\ task[st].pc # "none"
      <3>1. \/ task' = [task EXCEPT ![st] = NoTask]
            \/ \E fresh : task' = [task EXCEPT ![st].pc = "fail", ![st].ids = ids, ![st].fresh = fresh]
        BY <2>6 DEF GetAllIndirectBuilds
      <3>2. task'[st].pc \notin Ended
        BY <1>1, <3>1 DEF RestTyped, TaskType, NoTask, Ended
      <3> QED BY <2>6, <3>2 DEF GetAllIndirectBuilds
    <2> QED BY <2>1, <2>2, <2>3, <2>4, <2>5, <2>6
  <1> QED BY <1>2, <1>3, <1>4, <1>5, FramelessBuilt

LEMMA RowsBuilt ==
    ASSUME BInv, NEW b \in Builds, BuildAdded(b) \/ BuildCancelled(b)
    PROVE  BInv'
  BY FramelessBuilt DEF BuildAdded, BuildCancelled, graph, flags, monitored

LEMMA RdepsBuilt ==
    ASSUME IInv, BInv, NewBuildsProcessed \/ \E st \in Steps : StepSucceeded(st)
    PROVE  BInv'
  <1> USE DEF monitored
  <1>1. TypeOK /\ RestTyped
    BY TypeIs DEF IInv
  <1>2. PICK F : MakeRdepsRunnable(F) /\ \A c \in F : DrvOf[c] \in built
    <2>1. CASE NewBuildsProcessed
      <3> DEFINE G == {st \in (Alive \cap finished) \ previous_failure : steps[DrvOf[st]] = st}
      <3>1. MakeRdepsRunnable(G) /\ \A c \in G : c \in finished
        BY <2>1 DEF NewBuildsProcessed
      <3> HIDE DEF G
      <3> QED BY <3>1 DEF BInv, BuiltTrue
    <2>2. CASE \E st \in Steps : StepSucceeded(st)
      <3>1. PICK st \in Steps : StepSucceeded(st)
        BY <2>2
      <3>2. MakeRdepsRunnable({st}) /\ task[st].pc = "notify"
        BY <3>1 DEF StepSucceeded
      <3>3. DrvOf[st] \in built
        BY <3>2 DEF BInv, BuiltTrue
      <3> QED BY <3>2, <3>3
    <2> QED BY <2>1, <2>2
  <1>3. \A st \in Steps : \A c \in deps[st] \ deps'[st] : DrvOf[c] \in built
    <2>1. \A p \in Steps : \A d \in deps[p] \ deps'[p] : \E c \in F : DrvOf[c] = DrvOf[d]
      BY <1>1, <1>2, MakeRdepsEffect
    <2> QED BY <1>2, <2>1
  <1>4. UNCHANGED <<frame, created, previous_failure, built, finished>>
    BY DEF NewBuildsProcessed, StepSucceeded
  <1>5. mon'.finished_drvs = mon.finished_drvs
    BY <1>1 DEF NewBuildsProcessed, StepSucceeded, RestTyped, MonType
  <1>6. \A s \in Steps : task'[s].pc = task[s].pc \/ task'[s].pc = "none"
    <2>1. task' = task \/ \E st \in Steps : task' = [task EXCEPT ![st] = NoTask]
      BY DEF NewBuildsProcessed, StepSucceeded
    <2>2. NoTask.pc = "none"
      BY DEF NoTask
    <2> QED BY <1>1, <2>1, <2>2 DEF RestTyped
  <1>7. \A st \in Steps :
               /\ task'[st].pc \in Ended => task[st].pc \in Ended \/ DrvOf[st] \in built'
               /\ task'[st].pc # "none" => task[st].pc # "none" \/ Elements(Inputs(st)) \subseteq built
    BY <1>6 DEF Ended
  <1> QED BY <1>3, <1>4, <1>5, <1>7, FramelessBuilt

(* process_new_builds and create_build call nothing but create_step that   *)
(* the inputs depend on.                                                   *)
LEMMA LoopBuilt ==
    ASSUME IInv, BInv, \/ \E n \in notes : ReadNotification(n)
                       \/ GetQueuedBuilds \/ AllMadeRunnable \/ BuildCreated
                       \/ \E st \in Steps : MakeRunnable(st)
                       \/ \E b \in Builds : \/ NextBuild(b) \/ AbortBuild(b) \/ HandlePreviousFailure(b)
                                            \/ InsertBuild(b) \/ HandleCachedBuild(b) \/ CreateNestedBuilds(b)
    PROVE  BInv'
  <1> USE DEF graph, flags
  <1>1. TypeOK /\ RestTyped
    BY TypeIs DEF IInv
  <1>2. UNCHANGED <<frame, created, previous_failure, built, finished, deps>>
    BY DEF ReadNotification, GetQueuedBuilds, AllMadeRunnable, BuildCreated, MakeRunnable, NextBuild,
           AbortBuild, HandlePreviousFailure, InsertBuild, HandleCachedBuild, CreateNestedBuilds
  <1>3. mon'.finished_drvs \subseteq mon.finished_drvs
    <2>1. CASE GetQueuedBuilds
      BY <1>1, <2>1 DEF GetQueuedBuilds, RestTyped, MonType
    <2>2. CASE AllMadeRunnable
      BY <1>1, <2>2 DEF AllMadeRunnable, RestTyped, MonType
    <2>3. CASE \/ \E n \in notes : ReadNotification(n)
               \/ BuildCreated
               \/ \E st \in Steps : MakeRunnable(st)
               \/ \E b \in Builds : NextBuild(b) \/ CreateNestedBuilds(b)
      BY <1>1, <2>3 DEF ReadNotification, BuildCreated, MakeRunnable, NextBuild, CreateNestedBuilds,
                        RestTyped, MonType
    <2>4. CASE \E b \in Builds : \/ AbortBuild(b) \/ HandlePreviousFailure(b)
                                 \/ InsertBuild(b) \/ HandleCachedBuild(b)
      BY <2>4 DEF AbortBuild, HandlePreviousFailure, InsertBuild, HandleCachedBuild
    <2> QED BY <2>1, <2>2, <2>3, <2>4
  <1>4. \A s \in Steps : task'[s].pc = task[s].pc
    <2>1. task' = task \/ \E b \in Builds : task' = [st \in Steps |-> [task[st] EXCEPT !.fresh = @ \ {b}]]
      BY DEF ReadNotification, GetQueuedBuilds, AllMadeRunnable, BuildCreated, MakeRunnable, NextBuild,
             AbortBuild, HandlePreviousFailure, InsertBuild, HandleCachedBuild, CreateNestedBuilds, BuildDone
    <2> QED BY <1>1, <2>1 DEF RestTyped, TaskType
  <1> QED BY <1>2, <1>3, <1>4, FramelessBuilt

(* The stream of the inputs is read to its end before set_created. *)
LEMMA FrameBuilt ==
    ASSUME IInv, BInv, NEW st \in Steps,
           QueryMissingOutputs(st) \/ ConsumeInput(st) \/ ResumeAddDep(st) \/ SetCreated(st)
    PROVE  BInv'
  <1> USE DEF graph, flags
  <1>1. TypeOK /\ FrameTyped /\ GraphTyped
    BY TypeIs DEF IInv
  <1>2. Framed(st) /\ FrameAt(st)
    <2>1. Framed(st)
      BY DEF Framed, QueryMissingOutputs, ConsumeInput, ResumeAddDep, SetCreated, MoreInputs
    <2> QED BY <2>1 DEF IInv, FramesTrue
  <1>3. UNCHANGED <<built, finished, previous_failure, mon, task>>
    BY DEF QueryMissingOutputs, ConsumeInput, ResumeAddDep, SetCreated
  <1>4. \A s \in Steps : deps[s] \subseteq deps'[s]
    BY <1>1 DEF QueryMissingOutputs, ConsumeInput, ResumeAddDep, SetCreated, AddDep, GraphTyped
  <1>5. /\ frame'[st].got = frame[st].got /\ \A s \in Steps \ {st} : frame'[s] = frame[s]
        /\ frame'[st].pc = "present" => DrvOf[st] \in built
    <2>1. CASE QueryMissingOutputs(st)
      <3>1. PICK pc : pc = IF DrvOf[st] \in built THEN "present" ELSE "missing"
        OBVIOUS
      <3>2. pc \in Frames \ {"none"} /\ (pc = "present" => DrvOf[st] \in built)
        BY <3>1 DEF Frames
      <3>3. frame' = [frame EXCEPT ![st].pc = pc]
        BY <2>1, <3>1 DEF QueryMissingOutputs
      <3> QED BY <3>2, <3>3, FramePcTyped
    <2>2. CASE SetCreated(st)
      <3>1. "created" \in Frames \ {"none"} /\ frame' = [frame EXCEPT ![st].pc = "created"]
        BY <2>2 DEF SetCreated, Frames
      <3> QED BY <3>1, FramePcTyped
    <2>3. CASE ConsumeInput(st) \/ ResumeAddDep(st)
      <3>1. frame' = Consumed(st) \/ frame' = [frame EXCEPT ![st].pc = "add_dep"]
        BY <2>3 DEF ConsumeInput, ResumeAddDep
      <3>2. frame[st].next \in DOMAIN frame[st].got /\ "add_dep" \in Frames \ {"none"}
        BY <1>2, <2>3 DEF ConsumeInput, ResumeAddDep, MoreInputs, FrameAt, Frames
      <3> QED BY <1>2, <3>1, <3>2, FramePcTyped, ConsumedFrame
    <2> QED BY <2>1, <2>2, <2>3
  <1>6. BuiltTrue'
    <2>1. BuiltTrue /\ previous_failure' = {} /\ mon'.finished_drvs \subseteq built'
      BY <1>3 DEF BInv, BuiltTrue
    <2> QED BY <1>3, <1>5, <2>1, BuiltKept
  <1>7. GotTrue'
    BY <1>3, <1>5, GotKept DEF BInv
  <1>8. InputsCovered'
    <2>1. \A s \in Steps \ {st} : \A i \in DOMAIN Inputs(s) : ReadPast(s, i)' => ReadPast(s, i)
      BY <1>5 DEF ReadPast, QueryMissingOutputs, ConsumeInput, ResumeAddDep, SetCreated
    <2>2. ASSUME NEW i \in DOMAIN Inputs(st), ReadPast(st, i)', ~ReadPast(st, i)
          PROVE  Covered(st, i)'
      <3>1. CASE QueryMissingOutputs(st)
        <4>1. frame'[st].pc \notin {"inputs", "add_dep"} /\ created' = created
          <5>1. PICK pc \in {"present", "missing"} : frame' = [frame EXCEPT ![st].pc = pc]
            BY <3>1 DEF QueryMissingOutputs
          <5>2. pc \in Frames \ {"none"}
            BY DEF Frames
          <5>3. frame'[st].pc = pc
            BY <5>1, <5>2, FramePcTyped
          <5> QED BY <3>1, <5>3 DEF QueryMissingOutputs
        <4> QED BY <2>2, <4>1 DEF ReadPast
      <3>2. CASE SetCreated(st)
        <4>1. frame[st].pc = "inputs" /\ frame[st].next \notin DOMAIN frame[st].got
          BY <3>2 DEF SetCreated
        <4>2. DOMAIN frame[st].got = DOMAIN Inputs(st)
          BY <1>2, <4>1 DEF FrameAt
        <4>3. frame[st].got \in Seq(Result) /\ frame[st].next \in 1 .. Len(frame[st].got) + 1
          BY <1>1, GotTyped DEF FrameTyped
        <4>4. i < frame[st].next
          BY <4>1, <4>2, <4>3
        <4> QED BY <2>2, <4>1, <4>4 DEF ReadPast
      <3>3. CASE ConsumeInput(st) \/ ResumeAddDep(st)
        <4>1. frame[st].next \in DOMAIN frame[st].got /\ frame[st].pc \in {"inputs", "add_dep"}
          BY <1>2, <3>3 DEF ConsumeInput, ResumeAddDep, MoreInputs, FrameAt
        <4>2. DOMAIN frame[st].got = DOMAIN Inputs(st) /\ created' = created
          BY <1>2, <3>3, <4>1 DEF FrameAt, ConsumeInput, ResumeAddDep
        <4>3. frame' = Consumed(st) \/ frame' = [frame EXCEPT ![st].pc = "add_dep"]
          BY <3>3 DEF ConsumeInput, ResumeAddDep
        <4>4. frame' # [frame EXCEPT ![st].pc = "add_dep"]
          <5>1. ASSUME frame' = [frame EXCEPT ![st].pc = "add_dep"] PROVE FALSE
            <6>1. "add_dep" \in Frames \ {"none"}
              BY DEF Frames
            <6>2. frame'[st].pc = "add_dep" /\ frame'[st].next = frame[st].next
              BY <5>1, <6>1, FramePcTyped
            <6> QED BY <2>2, <4>1, <4>2, <6>2 DEF ReadPast
          <5> QED BY <5>1
        <4>5. frame' = Consumed(st) /\ frame'[st].next = frame[st].next + 1
          BY <1>2, <4>1, <4>3, <4>4, ConsumedFrame
        <4>6. i = frame[st].next
          <5>1. frame[st].next \in Nat /\ i \in Nat
            BY <1>1, <4>1, ConstantsAssumption DEF FrameTyped, FrameType, Inputs
          <5> QED BY <2>2, <4>1, <4>2, <4>5, <5>1 DEF ReadPast
        <4>7. PICK r : r = frame[st].got[i] /\ r = NextInput(st)
          BY <4>6 DEF NextInput
        <4>8. /\ r.kind = "Valid" => DrvOf[r.step] = Inputs(st)[i]
              /\ r.kind = "None" => Inputs(st)[i] \in built
          BY <4>1, <4>6, <4>7 DEF BInv, GotTrue
        <4>9. \/ r.kind = "None"
              \/ r.kind = "Valid" /\ r.step \in finished \cup previous_failure
              \/ r.kind = "Valid" /\ AddDep(st, r.step)
          BY <1>2, <3>3, <4>4, <4>7 DEF ConsumeInput, ResumeAddDep, FrameAt
        <4>10. CASE r.kind = "Valid" /\ AddDep(st, r.step)
          <5>1. r.step \in deps'[st]
            BY <1>1, <4>10 DEF AddDep, GraphTyped
          <5> QED BY <4>8, <4>10, <5>1 DEF Covered, Inputs
        <4>11. CASE r.kind = "None" \/ (r.kind = "Valid" /\ r.step \in finished \cup previous_failure)
          <5>1. Inputs(st)[i] \in built
            BY <4>8, <4>11 DEF BInv, BuiltTrue
          <5> QED BY <1>3, <5>1 DEF Covered, Inputs
        <4> QED BY <4>9, <4>10, <4>11
      <3> QED BY <3>1, <3>2, <3>3
    <2> QED BY <1>3, <1>4, <2>1, <2>2, CoverKept DEF BInv
  <1> QED BY <1>6, <1>7, <1>8 DEF BInv

(* A result says what is true of the input it is for. *)
LEMMA ReturnBuilt ==
    ASSUME IInv, BInv, NEW st \in Steps, StepFinished(st) \/ StepCreated(st)
    PROVE  BInv'
  <1> USE DEF graph, flags
  <1>1. TypeOK /\ RestTyped
    BY TypeIs DEF IInv
  <1>2. Framed(st) /\ FrameOwned(st)
    <2>1. Framed(st)
      BY DEF Framed, StepFinished, StepCreated
    <2> QED BY <2>1 DEF IInv, FramesTrue
  <1>3. PICK r, cr : /\ r \in Result
                     /\ Return(st, r, cr) /\ r.kind # "PreviousFailure"
                     /\ r.kind = "Valid" => r.step = st
                     /\ r.kind = "None" => DrvOf[st] \in built'
    <2>1. /\ None \in Result /\ None.kind = "None"
          /\ Valid(st) \in Result /\ Valid(st).kind = "Valid" /\ Valid(st).step = st
      BY DEF None, Valid, Result
    <2>2. CASE StepFinished(st)
      <3>1. DrvOf[st] \in built'
        BY <2>2 DEF StepFinished, BInv, BuiltTrue
      <3> QED BY <2>1, <2>2, <3>1 DEF StepFinished
    <2>3. CASE StepCreated(st)
      BY <2>1, <2>3 DEF StepCreated
    <2> QED BY <2>2, <2>3
  <1>4. Below(st) \in SUBSET Steps
    BY BelowHas
  <1>5. /\ FrameTyped'
        /\ \A s \in Below(st) : ~Framed(s)' /\ DOMAIN frame'[s].got = {}
        /\ \A s \in Steps \ Below(st) :
                 /\ frame'[s].pc = frame[s].pc /\ frame'[s].parent = frame[s].parent
                 /\ frame'[s].build = frame[s].build /\ frame'[s].next = frame[s].next
                 /\ DOMAIN frame'[s].got = DOMAIN frame[s].got
                 /\ \A i \in DOMAIN frame[s].got :
                       \/ frame'[s].got[i] = frame[s].got[i]
                       \/ Answers(st, s, i) /\ frame'[s].got[i] = r
        /\ creating' = IF frame[st].parent = NoStep
                       THEN [cr EXCEPT ![frame[st].build].res = r, ![frame[st].build].pc = "result"]
                       ELSE cr
    <2>1. r \in Result /\ Return(st, r, cr)
      BY <1>3
    <2> QED BY <1>1, <2>1, ReturnEffect
  <1>6. /\ UNCHANGED <<created, deps, previous_failure, task>> /\ built \subseteq built'
        /\ \A s \in finished' : s \in finished \/ DrvOf[s] \in built'
    BY DEF StepFinished, StepCreated, BInv, BuiltTrue
  <1>7. BuiltTrue'
    <2>1. mon'.finished_drvs \subseteq built'
      <3>1. CASE StepFinished(st)
        <4>1. mon'.finished_drvs = mon.finished_drvs \cup {DrvOf[st]}
          BY <1>1, <3>1 DEF StepFinished, RestTyped, MonType
        <4>2. DrvOf[st] \in built'
          BY <3>1 DEF StepFinished, BInv, BuiltTrue
        <4> QED BY <1>6, <4>1, <4>2 DEF BInv, BuiltTrue
      <3>2. CASE StepCreated(st)
        BY <1>1, <1>6, <3>2 DEF StepCreated, RestTyped, MonType, BInv, BuiltTrue
      <3> QED BY <3>1, <3>2
    <2>2. \A s \in Steps : frame'[s].pc = "present" => frame[s].pc = "present"
      BY <1>4, <1>5 DEF Framed
    <2>3. BuiltTrue /\ previous_failure' = {}
      BY <1>6 DEF BInv, BuiltTrue
    <2> QED BY <1>6, <2>1, <2>2, <2>3, BuiltKept
  <1>8. InputsCovered'
    <2>1. \A s \in Steps : \A i \in DOMAIN Inputs(s) : ReadPast(s, i)' => ReadPast(s, i)
      BY <1>4, <1>5, <1>6 DEF ReadPast, Framed
    <2> QED BY <1>6, <2>1, CoverKept DEF BInv
  <1>9. GotTrue'
    <2>1. ASSUME NEW s \in Steps, NEW i \in DOMAIN frame'[s].got
          PROVE  \/ i \in DOMAIN frame[s].got /\ frame'[s].got[i] = frame[s].got[i]
                 \/ /\ frame'[s].got[i].kind = "Valid" => DrvOf[frame'[s].got[i].step] = Inputs(s)[i]
                    /\ frame'[s].got[i].kind = "None" => Inputs(s)[i] \in built'
                    /\ frame'[s].got[i].kind # "PreviousFailure"
      <3>1. s \notin Below(st) /\ i \in DOMAIN frame[s].got
        BY <1>5
      <3>2. CASE Answers(st, s, i) /\ frame'[s].got[i] = r
        <4>1. DrvOf[st] \in Elements(Inputs(s))
          BY <1>2, <3>2, ConstantsAssumption DEF FrameOwned, Answers
        <4>2. \E k \in DOMAIN Inputs(s) : Inputs(s)[k] = DrvOf[st]
          BY <4>1 DEF Elements
        <4>3. Inputs(s)[i] = DrvOf[st]
          BY <3>2, <4>2 DEF InputIndex, Inputs, Answers
        <4> QED BY <1>3, <3>2, <4>3
      <3> QED BY <1>5, <3>1, <3>2
    <2> QED BY <1>6, <2>1, GotKept DEF BInv
  <1> QED BY <1>7, <1>8, <1>9 DEF BInv

LEMMA CallBuilt ==
    ASSUME IInv, BInv, NEW ds \in SUBSET Drvs, NEW ref \in SUBSET Steps,
           CreateSteps(ds, ref), NEW F, F = Fresh(ds), UNCHANGED <<built, mon, task>>,
           \A s \in F : frame'[s].pc = "query" /\ DOMAIN frame'[s].got = {},
           \A s \in Steps \ F :
               \/ frame'[s] = frame[s]
               \/ /\ frame'[s].pc = "inputs" /\ frame'[s].next = 1 /\ s \notin created
                  /\ \A i \in DOMAIN frame'[s].got :
                        /\ frame'[s].got[i].kind = "Valid" => DrvOf[frame'[s].got[i].step] = Inputs(s)[i]
                        /\ frame'[s].got[i].kind = "None" => Inputs(s)[i] \in built
                        /\ frame'[s].got[i].kind # "PreviousFailure"
    PROVE  BInv'
  <1>1. TypeOK
    BY DEF IInv
  <1>2. /\ created' = created \ F /\ finished' = finished \ F /\ previous_failure' = previous_failure \ F
        /\ \A s \in Steps : deps'[s] = IF s \in F THEN {} ELSE deps[s]
    BY <1>1, CreateStepsEffect
  <1>3. BuiltTrue'
    <2>1. BuiltTrue /\ previous_failure' = {} /\ mon'.finished_drvs \subseteq built'
      BY <1>2 DEF BInv, BuiltTrue
    <2>2. \A s \in finished' : s \in finished
      BY <1>2
    <2>3. \A s \in Steps : frame'[s].pc = "present" => frame[s].pc = "present"
      OBVIOUS
    <2> QED BY <2>1, <2>2, <2>3, BuiltKept
  <1>4. InputsCovered'
    <2>1. ASSUME NEW s \in Steps, NEW i \in DOMAIN Inputs(s), ReadPast(s, i)'
          PROVE  ReadPast(s, i) /\ deps'[s] = deps[s]
      <3>1. s \notin F
        BY <1>2, <2>1 DEF ReadPast
      <3>2. i \in Nat /\ i >= 1
        <4>1. Inputs(s) \in Seq(Drvs)
          BY ConstantsAssumption DEF Inputs
        <4> QED BY <4>1
      <3>3. CASE frame'[s] = frame[s]
        BY <1>2, <2>1, <3>1, <3>3 DEF ReadPast
      <3>4. CASE frame'[s].next = 1 /\ s \notin created
        BY <1>2, <2>1, <3>2, <3>4 DEF ReadPast
      <3> QED BY <3>1, <3>3, <3>4
    <2> QED BY <2>1, CoverKept DEF BInv
  <1>5. GotTrue'
    <2>1. ASSUME NEW s \in Steps, NEW i \in DOMAIN frame'[s].got
          PROVE  \/ i \in DOMAIN frame[s].got /\ frame'[s].got[i] = frame[s].got[i]
                 \/ /\ frame'[s].got[i].kind = "Valid" => DrvOf[frame'[s].got[i].step] = Inputs(s)[i]
                    /\ frame'[s].got[i].kind = "None" => Inputs(s)[i] \in built'
                    /\ frame'[s].got[i].kind # "PreviousFailure"
      <3>1. CASE s \in F
        BY <3>1
      <3>2. CASE s \notin F
        BY <3>2
      <3> QED BY <3>1, <3>2
    <2> QED BY <2>1, GotKept DEF BInv
  <1> QED BY <1>3, <1>4, <1>5 DEF BInv

LEMMA CreateInputsBuilt ==
    ASSUME IInv, BInv, NEW st \in Steps, CreateInputs(st)
    PROVE  BInv'
  <1> DEFINE inputs == Inputs(st)
             ds == Elements(inputs) \ mon.finished_drvs
             g == [i \in DOMAIN inputs |->
                      IF inputs[i] \notin ds THEN None
                      ELSE IF Existing(inputs[i]) THEN Valid(steps[inputs[i]])
                      ELSE Pending]
             f == [frame[st] EXCEPT !.pc = "inputs", !.next = 1, !.got = g]
  <1>1. TypeOK /\ FrameTyped
    BY TypeIs DEF IInv
  <1>2. frame[st].pc = "missing" /\ CreateSteps(ds, {st}) /\ UNCHANGED <<built, mon, task>>
    BY DEF CreateInputs, Inputs
  <1>3. frame' = [s \in Steps |-> IF s = st THEN f
                                  ELSE IF s \in Fresh(ds) THEN NewFrame(st, frame[st].build)
                                  ELSE frame[s]]
    BY DEF CreateInputs, Inputs
  <1>4. inputs \in Seq(Drvs)
    BY ConstantsAssumption DEF Inputs
  <1>5. PICK D \in SUBSET Drvs : D = ds
    <2>1. Elements(inputs) \subseteq Drvs
      BY <1>4 DEF Elements
    <2> HIDE DEF inputs
    <2> QED BY <2>1
  <1>6. PICK F : F = Fresh(D)
    OBVIOUS
  <1>7. CreateSteps(D, {st}) /\ {st} \in SUBSET Steps
    BY <1>2, <1>5
  <1>8. \A i \in DOMAIN g :
            /\ g[i].kind = "Valid" => DrvOf[g[i].step] = inputs[i]
            /\ g[i].kind = "None" => inputs[i] \in built
            /\ g[i].kind # "PreviousFailure"
    <2> SUFFICES ASSUME NEW i \in DOMAIN inputs
                 PROVE  /\ g[i].kind = "Valid" => DrvOf[g[i].step] = inputs[i]
                        /\ g[i].kind = "None" => inputs[i] \in built
                        /\ g[i].kind # "PreviousFailure"
      OBVIOUS
    <2>1. g[i] = IF inputs[i] \notin ds THEN None
                 ELSE IF Existing(inputs[i]) THEN Valid(steps[inputs[i]]) ELSE Pending
      OBVIOUS
    <2>2. inputs[i] \in Drvs /\ (inputs[i] \notin ds => inputs[i] \in built)
      BY <1>4 DEF Elements, BInv, BuiltTrue
    <2> HIDE DEF g, inputs, ds
    <2>3. CASE inputs[i] \in ds /\ Existing(inputs[i])
      <3>1. DrvOf[steps[inputs[i]]] = inputs[i]
        BY <1>1, <2>2, <2>3 DEF Existing, TypeOK
      <3> QED BY <2>1, <2>3, <3>1 DEF Valid
    <2>4. CASE inputs[i] \notin ds
      BY <2>1, <2>2, <2>4 DEF None
    <2>5. CASE inputs[i] \in ds /\ ~Existing(inputs[i])
      BY <2>1, <2>5 DEF Pending
    <2> QED BY <2>3, <2>4, <2>5
  <1> HIDE DEF g, inputs, ds
  <1>9. f.pc = "inputs" /\ f.next = 1 /\ f.got = g
    BY <1>1 DEF FrameTyped, FrameType
  <1> HIDE DEF f
  <1>10. Framed(st) /\ st \notin created /\ st \in Alive
    BY <1>1, <1>2, AliveHolds DEF Framed, IInv, FramesTrue, FrameAt, HeldIn, FramesHold
  <1>11. F \in SUBSET Steps /\ st \notin F
    <2>1. \A d \in D : Existing(d) \/ HasFree(d)
      BY <1>1, <1>7, CreateStepsEffect
    <2> QED BY <1>1, <1>6, <1>10, <2>1, FreshSteps
  <1>12. PICK n : n = NewFrame(st, frame[st].build)
    OBVIOUS
  <1>13. n.pc = "query" /\ DOMAIN n.got = {}
    <2>1. frame[st].build \in Builds \cup {NoBuild}
      BY <1>1 DEF FrameTyped, FrameType
    <2>2. n.pc = "query" /\ n.got = <<>>
      BY <1>12, <2>1, NewFrameTyped
    <2> QED BY <2>2
  <1>14. /\ frame'[st] = f /\ \A s \in F : frame'[s] = n
         /\ \A s \in Steps \ F : s # st => frame'[s] = frame[s]
    BY <1>3, <1>5, <1>6, <1>11, <1>12
  <1>15. \A s \in F : frame'[s].pc = "query" /\ DOMAIN frame'[s].got = {}
    BY <1>13, <1>14
  <1>16. \A s \in Steps \ F :
               \/ frame'[s] = frame[s]
               \/ /\ frame'[s].pc = "inputs" /\ frame'[s].next = 1 /\ s \notin created
                  /\ \A i \in DOMAIN frame'[s].got :
                        /\ frame'[s].got[i].kind = "Valid" => DrvOf[frame'[s].got[i].step] = Inputs(s)[i]
                        /\ frame'[s].got[i].kind = "None" => Inputs(s)[i] \in built
                        /\ frame'[s].got[i].kind # "PreviousFailure"
    BY <1>8, <1>9, <1>10, <1>14 DEF inputs
  <1> QED BY <1>2, <1>6, <1>7, <1>15, <1>16, CallBuilt

LEMMA CreateToplevelBuilt ==
    ASSUME IInv, BInv, NEW b \in Builds, CreateToplevel(b)
    PROVE  BInv'
  <1> USE DEF graph, flags
  <1> DEFINE d == TopDrv[b]
  <1>1. TypeOK /\ FrameTyped
    BY TypeIs DEF IInv
  <1>2. UNCHANGED <<built, mon, task>>
    BY DEF CreateToplevel
  <1>3. CASE d \in mon.finished_drvs
    BY <1>2, <1>3, FramelessBuilt DEF CreateToplevel
  <1>4. CASE d \notin mon.finished_drvs
    <2>1. /\ CreateSteps({d}, {})
          /\ frame' = IF Existing(d) THEN frame
                      ELSE [frame EXCEPT ![StepFor(d)] = NewFrame(NoStep, b)]
      BY <1>4 DEF CreateToplevel
    <2>2. PICK D \in SUBSET Drvs : D = {d}
      BY ConstantsAssumption
    <2>3. PICK F : F = Fresh(D)
      OBVIOUS
    <2>4. CreateSteps(D, {}) /\ {} \in SUBSET Steps
      BY <2>1, <2>2
    <2> HIDE DEF d
    <2>5. \A x \in D : Existing(x) \/ HasFree(x)
      BY <1>1, <2>4, CreateStepsEffect
    <2>6. /\ ~Existing(d) => StepFor(d) \in F /\ StepFor(d) \in Steps
          /\ \A s \in F : s = StepFor(d) /\ ~Existing(d)
      BY <1>1, <2>2, <2>3, <2>5, FreshSteps
    <2>7. NewFrame(NoStep, b).pc = "query" /\ DOMAIN NewFrame(NoStep, b).got = {}
      <3>1. NewFrame(NoStep, b).pc = "query" /\ NewFrame(NoStep, b).got = <<>>
        BY NewFrameTyped
      <3> QED BY <3>1
    <2>8. /\ \A s \in F : frame'[s] = NewFrame(NoStep, b)
          /\ \A s \in Steps \ F : frame'[s] = frame[s]
      <3>1. CASE Existing(d)
        BY <2>1, <2>6, <3>1
      <3>2. CASE ~Existing(d)
        BY <1>1, <2>1, <2>6, <3>2 DEF FrameTyped
      <3> QED BY <3>1, <3>2
    <2>9. \A s \in F : frame'[s].pc = "query" /\ DOMAIN frame'[s].got = {}
      BY <2>7, <2>8
    <2> QED BY <1>2, <2>3, <2>4, <2>8, <2>9, CallBuilt
  <1> QED BY <1>3, <1>4

LEMMA InitBuilt ==
    ASSUME Init
    PROVE  BInv
  <1>1. BuiltTrue
    BY DEF Init, BuiltTrue, NoFrame, NoTask
  <1>2. InputsCovered /\ GotTrue
    BY DEF Init, InputsCovered, GotTrue, NoFrame
  <1> QED BY <1>1, <1>2 DEF BInv

LEMMA NextBuilt ==
    ASSUME IInv, BInv, [Next]_vars, FailedPaths = {}, Unreadable = {}
    PROVE  BInv'
  <1>1. CASE UNCHANGED vars
    BY <1>1, FramelessBuilt DEF vars, graph, flags, monitored
  <1>2. ASSUME NEW st \in Steps, CreateStepNext(st) PROVE BInv'
    <2>1. ~QueryDrvFails(st) /\ ~CheckCachedFailure(st)
      BY DEF QueryDrvFails, CheckCachedFailure
    <2>2. ~InputFailed(st)
      BY DEF InputFailed, MoreInputs, NextInput, BInv, GotTrue
    <2> QED BY <1>2, <2>1, <2>2, FrameBuilt, ReturnBuilt, CreateInputsBuilt DEF CreateStepNext
  <1>3. ASSUME NEW b \in Builds, CreateBuildNext(b) PROVE BInv'
    BY <1>3, LoopBuilt, CreateToplevelBuilt DEF CreateBuildNext
  <1>4. ASSUME NEW st \in Steps, Enqueue(st) \/ TaskNext(st) PROVE BInv'
    BY <1>4, TasksBuilt, RdepsBuilt DEF TaskNext
  <1>5. CASE Monitor
    BY <1>2, <1>3, <1>5, LoopBuilt, RdepsBuilt DEF Monitor
  <1>6. CASE \E b \in Builds : BuildAdded(b) \/ BuildCancelled(b)
    BY <1>6, RowsBuilt
  <1> QED BY <1>1, <1>4, <1>5, <1>6 DEF Next

(* A step is handed to a builder only when the outputs of all its inputs   *)
(* are in the store, wherever every derivation can be read and none is in  *)
(* failedpaths.  create_step answers a derivation it cannot read as it     *)
(* answers one that is there, and one known to have failed is no           *)
(* dependency, so neither assumption can be left out.                      *)
THEOREM InputsAreBuilt ==
    ASSUME FailedPaths = {}, Unreadable = {}
    PROVE  Spec => []InputsBuilt
  <1>1. Init => BInv
    BY InitBuilt
  <1>2. IInv /\ BInv /\ [Next]_vars => BInv'
    BY NextBuilt
  <1>3. BInv => InputsBuilt
    BY DEF BInv, BuiltTrue, InputsBuilt, Inputs
  <1> QED BY <1>1, <1>2, <1>3, Inductive, PTL DEF Spec

-----------------------------------------------------------------------------
(* Where builds and the database do not fail and the monitor keeps its     *)
(* thread between is_finished and add_dep, process_new_builds can find     *)
(* every finished step that something waits for.                           *)

(* A flag is set once: create_step that is under way has none to set, and  *)
(* what is known to have failed is neither built nor complete.             *)
Marks ==
    /\ \A st \in Steps : frame[st].pc \notin {"none", "created"} => st \notin finished
    /\ \A st \in previous_failure : ~Framed(st) /\ st \notin finished \cup created

Unended == {"queued", "building", "imported"}
Over == {"finish", "succeed", "notify"}

(* A task is about a complete step, which succeed_step marks as finished   *)
(* and only get_direct_builds takes out of the map.                        *)
TasksTrue ==
    \A st \in Steps :
        /\ frame[st].pc # "add_dep" /\ task[st].pc \in {"none"} \cup Unended \cup Over
        /\ task[st].pc # "none" => st \in created
        /\ task[st].pc \in Unended => st \notin finished
        /\ task[st].pc \in Over => st \in finished
        /\ task[st].pc = "finish" => steps[DrvOf[st]] = st

(* The map names every step that is not finished. *)
Mapped == \A st \in Alive \ finished : steps[DrvOf[st]] = st

(* A finished step that something waits for has a task that will tell it,  *)
(* or is named by the map.                                                 *)
DepsFound ==
    \A p \in Alive : \A c \in deps[p] \cap finished :
        task[c].pc # "none" \/ steps[DrvOf[c]] = c

(* While the monitor waits for a notification, nothing else waits for a    *)
(* finished step but one whose task will tell it.                          *)
Waiting ==
    /\ mon.pc \in {"wait", "load", "next"} => mon.new_runnable = {}
    /\ mon.pc = "wait" => \A p \in Alive : \A c \in deps[p] \cap finished : task[c].pc # "none"

RInv == Marks /\ TasksTrue /\ Mapped /\ DepsFound /\ Waiting

(* create_step runs within process_new_builds. *)
LEMMA FramedCreates ==
    ASSUME IInv, NEW st \in Steps, Framed(st)
    PROVE  mon.pc = "create"
  <1>1. frame[st].build \in Builds /\ creating[frame[st].build].pc = "step"
    BY DEF IInv, FramesTrue, FrameOwned
  <1>2. Active # {}
    BY <1>1 DEF Active
  <1> QED BY <1>2 DEF IInv, BuildsBelow

(* No step is finished, no task goes on, and the map is left alone. *)
LEMMA RepairKept ==
    ASSUME TypeOK, RInv, Alive' \subseteq Alive, UNCHANGED <<finished, previous_failure, steps>>,
           created \subseteq created', \A st \in created' \ created : Framed(st),
           \A st \in Steps :
               /\ frame'[st].pc \notin {"none", "created"} => frame[st].pc \notin {"none", "created"}
               /\ frame'[st].pc # "none" => frame[st].pc # "none"
               /\ frame'[st].pc # "add_dep",
           \A st \in Steps : task'[st].pc = task[st].pc,
           \A p \in Steps : \A c \in deps'[p] : c \in deps[p] \/ c \notin finished,
           mon'.pc \in {"wait", "load", "next"} => mon'.new_runnable = {},
           mon'.pc = "wait" => \/ mon.pc = "wait"
                               \/ \A p \in Alive' : \A c \in deps'[p] \cap finished : task[c].pc # "none"
    PROVE  RInv'
  <1>1. Alive \in SUBSET Steps /\ finished \subseteq Steps /\ previous_failure \subseteq Steps
    BY AliveHolds DEF TypeOK
  <1>2. Marks'
    BY <1>1 DEF RInv, Marks, Framed
  <1>3. TasksTrue'
    BY DEF RInv, TasksTrue
  <1>4. Mapped'
    BY DEF RInv, Mapped
  <1>5. DepsFound'
    <2> SUFFICES ASSUME NEW p \in Alive', NEW c \in deps'[p] \cap finished
                 PROVE  task'[c].pc # "none" \/ steps[DrvOf[c]] = c
      BY DEF DepsFound
    <2>1. p \in Alive /\ p \in Steps /\ c \in Steps /\ c \in deps[p]
      BY <1>1
    <2> QED BY <2>1 DEF RInv, DepsFound
  <1>6. Waiting'
    <2> SUFFICES ASSUME mon'.pc = "wait", NEW p \in Alive', NEW c \in deps'[p] \cap finished
                 PROVE  task'[c].pc # "none"
      BY DEF Waiting
    <2>1. p \in Alive /\ p \in Steps /\ c \in Steps /\ c \in deps[p]
      BY <1>1
    <2> QED BY <2>1 DEF RInv, Waiting
  <1> QED BY <1>2, <1>3, <1>4, <1>5, <1>6 DEF RInv

LEMMA RowsRepair ==
    ASSUME IInv, RInv, NEW b \in Builds, BuildAdded(b) \/ BuildCancelled(b)
    PROVE  RInv'
  <1>1. TypeOK /\ Alive' \subseteq Alive
    BY RowsStep DEF IInv
  <1>2. \A st \in Steps : frame[st].pc # "add_dep"
    BY DEF RInv, TasksTrue
  <1>3. UNCHANGED <<finished, previous_failure, steps, created, frame, task, deps, mon>>
    BY DEF BuildAdded, BuildCancelled, graph, flags, monitored
  <1> QED BY <1>1, <1>2, <1>3, RepairKept DEF RInv, Waiting

LEMMA LoopRepair ==
    ASSUME IInv, RInv, \/ \E n \in notes : ReadNotification(n)
                       \/ GetQueuedBuilds \/ AllMadeRunnable \/ BuildCreated
                       \/ \E st \in Steps : MakeRunnable(st)
                       \/ \E b \in Builds : \/ NextBuild(b) \/ AbortBuild(b) \/ HandlePreviousFailure(b)
                                            \/ InsertBuild(b) \/ HandleCachedBuild(b) \/ CreateNestedBuilds(b)
    PROVE  RInv'
  <1> USE DEF graph, flags
  <1>1. TypeOK /\ RestTyped
    BY TypeIs DEF IInv
  <1>2. Alive' \subseteq Alive
    BY LoopStep, NextBuildStep, BuildDoneStep, NestedBuildsStep
  <1>3. UNCHANGED <<finished, previous_failure, steps, created, frame, deps>>
    BY DEF ReadNotification, GetQueuedBuilds, AllMadeRunnable, BuildCreated, MakeRunnable, NextBuild,
           AbortBuild, HandlePreviousFailure, InsertBuild, HandleCachedBuild, CreateNestedBuilds
  <1>4. \A s \in Steps : task'[s].pc = task[s].pc
    <2>1. task' = task \/ \E b \in Builds : task' = [st \in Steps |-> [task[st] EXCEPT !.fresh = @ \ {b}]]
      BY DEF ReadNotification, GetQueuedBuilds, AllMadeRunnable, BuildCreated, MakeRunnable, NextBuild,
             AbortBuild, HandlePreviousFailure, InsertBuild, HandleCachedBuild, CreateNestedBuilds, BuildDone
    <2> QED BY <1>1, <2>1 DEF RestTyped, TaskType
  <1>5. \A st \in Steps : frame[st].pc # "add_dep"
    BY DEF RInv, TasksTrue
  <1>6. /\ mon'.pc \in {"wait", "load", "next"} => mon'.new_runnable = {}
        /\ mon'.pc = "wait" => mon.pc = "wait"
    <2>1. mon.pc \in {"wait", "load", "next"} => mon.new_runnable = {}
      BY DEF RInv, Waiting
    <2>2. CASE AllMadeRunnable
      <3>1. CASE mon' = [mon EXCEPT !.pc = "next", !.new_runnable = {}]
        BY <1>1, <3>1 DEF RestTyped, MonType
      <3>2. CASE mon' = [mon EXCEPT !.pc = "next", !.new_runnable = {}, !.ids = {}]
        BY <1>1, <3>2 DEF RestTyped, MonType
      <3> QED BY <2>2, <3>1, <3>2 DEF AllMadeRunnable
    <2>3. CASE GetQueuedBuilds \/ \E n \in notes : ReadNotification(n)
      BY <1>1, <2>1, <2>3 DEF GetQueuedBuilds, ReadNotification, RestTyped, MonType
    <2>4. CASE BuildCreated \/ (\E st \in Steps : MakeRunnable(st)) \/ \E b \in Builds : NextBuild(b)
      BY <1>1, <2>4 DEF BuildCreated, MakeRunnable, NextBuild, RestTyped, MonType
    <2>5. CASE \E b \in Builds : CreateNestedBuilds(b)
      BY <1>1, <2>1, <2>5 DEF CreateNestedBuilds, RestTyped, MonType
    <2>6. CASE \E b \in Builds : \/ AbortBuild(b) \/ HandlePreviousFailure(b)
                                 \/ InsertBuild(b) \/ HandleCachedBuild(b)
      BY <2>1, <2>6 DEF AbortBuild, HandlePreviousFailure, InsertBuild, HandleCachedBuild
    <2> QED BY <2>2, <2>3, <2>4, <2>5, <2>6
  <1> QED BY <1>1, <1>2, <1>3, <1>4, <1>5, <1>6, RepairKept

(* A task goes on, and is over for everything that waits. *)
LEMMA RepairTask ==
    ASSUME IInv, RInv, NEW st \in Steps, Alive' \subseteq Alive,
           UNCHANGED <<frame, created, previous_failure, mon>>,
           \A s \in Steps \ {st} : task'[s].pc = task[s].pc,
           task'[st].pc \in {"none"} \cup Unended \cup Over,
           task'[st].pc # "none" => st \in created,
           \/ finished' = finished
           \/ finished' = finished \cup {st} /\ task[st].pc = "imported" /\ task'[st].pc = "finish",
           task'[st].pc \in Unended => st \notin finished',
           task'[st].pc \in Over => st \in finished',
           task'[st].pc = "finish" => task[st].pc = "imported" /\ steps' = steps,
           \/ steps' = steps
           \/ task[st].pc = "finish" /\ task'[st].pc # "none" /\ steps' = [steps EXCEPT ![DrvOf[st]] = NoStep],
           \A p \in Steps : deps'[p] \subseteq deps[p],
           task'[st].pc = "none" => st \notin finished \/ \A p \in Alive : st \notin deps'[p]
    PROVE  RInv'
  <1>1. TypeOK /\ GraphTyped /\ Alive \in SUBSET Steps
    BY TypeIs, AliveHolds DEF IInv
  <1>2. task[st].pc = "imported" =>
            st \in created /\ frame[st].pc \in {"none", "created"} /\ st \notin previous_failure
    <2>1. task[st].pc = "imported" => st \in created
      BY DEF RInv, TasksTrue
    <2>2. st \in created /\ Framed(st) => frame[st].pc = "created"
      BY DEF IInv, FramesTrue, FrameAt
    <2> QED BY <2>1, <2>2 DEF Framed, RInv, Marks
  <1>3. Marks'
    BY <1>2 DEF RInv, Marks, Framed
  <1>4. \A s \in Steps : steps[DrvOf[s]] = s /\ (s # st \/ steps' = steps) => steps'[DrvOf[s]] = s
    <2> SUFFICES ASSUME NEW s \in Steps, steps[DrvOf[s]] = s, s # st \/ steps' = steps,
                        task[st].pc = "finish", steps' = [steps EXCEPT ![DrvOf[st]] = NoStep]
                 PROVE  steps'[DrvOf[s]] = s
      OBVIOUS
    <2>1. steps[DrvOf[st]] = st /\ DrvOf[s] \in Drvs /\ steps \in [Drvs -> Steps \cup {NoStep}]
      BY <1>1, ConstantsAssumption DEF RInv, TasksTrue, GraphTyped
    <2>2. CASE DrvOf[s] = DrvOf[st]
      BY <2>1, <2>2
    <2>3. CASE DrvOf[s] # DrvOf[st]
      BY <2>1, <2>3
    <2> QED BY <2>2, <2>3
  <1>5. TasksTrue'
    <2> SUFFICES ASSUME NEW s \in Steps
                 PROVE  /\ frame[s].pc # "add_dep" /\ task'[s].pc \in {"none"} \cup Unended \cup Over
                        /\ task'[s].pc # "none" => s \in created
                        /\ task'[s].pc \in Unended => s \notin finished'
                        /\ task'[s].pc \in Over => s \in finished'
                        /\ task'[s].pc = "finish" => steps'[DrvOf[s]] = s
      BY DEF TasksTrue
    <2>1. CASE s = st
      <3>1. task[st].pc = "imported" => steps[DrvOf[st]] = st
        <4>1. task[st].pc = "imported" => st \in Alive /\ st \notin finished
          BY <1>1, TasksAlive DEF RInv, TasksTrue, Unended
        <4> QED BY <4>1 DEF RInv, Mapped
      <3> QED BY <2>1, <3>1 DEF RInv, TasksTrue
    <2>2. CASE s # st
      BY <1>4, <2>2 DEF RInv, TasksTrue
    <2> QED BY <2>1, <2>2
  <1>6. Mapped'
    <2> SUFFICES ASSUME NEW s \in Alive', s \notin finished' PROVE steps'[DrvOf[s]] = s
      BY DEF Mapped
    <2>1. s \in Steps /\ s \in Alive /\ s \notin finished
      BY <1>1
    <2>2. steps[DrvOf[s]] = s
      BY <2>1 DEF RInv, Mapped
    <2>3. s # st \/ steps' = steps
      BY <2>1 DEF RInv, TasksTrue, Over
    <2> QED BY <1>4, <2>1, <2>2, <2>3
  <1>7. DepsFound'
    <2> SUFFICES ASSUME NEW p \in Alive', NEW c \in deps'[p], c \in finished'
                 PROVE  task'[c].pc # "none" \/ steps'[DrvOf[c]] = c
      BY DEF DepsFound
    <2>1. p \in Alive /\ p \in Steps /\ c \in deps[p] /\ c \in Steps
      BY <1>1 DEF GraphTyped
    <2>2. CASE c = st
      BY <2>1, <2>2 DEF RInv, DepsFound
    <2>3. CASE c # st
      <3>1. task[c].pc # "none" \/ steps[DrvOf[c]] = c
        BY <2>1, <2>3 DEF RInv, DepsFound
      <3> QED BY <1>4, <2>1, <2>3, <3>1
    <2> QED BY <2>2, <2>3
  <1>8. Waiting'
    <2> SUFFICES ASSUME mon.pc = "wait", NEW p \in Alive', NEW c \in deps'[p], c \in finished'
                 PROVE  task'[c].pc # "none"
      BY DEF RInv, Waiting
    <2>1. p \in Alive /\ p \in Steps /\ c \in deps[p] /\ c \in Steps
      BY <1>1 DEF GraphTyped
    <2> QED BY <2>1 DEF RInv, Waiting
  <1> QED BY <1>3, <1>5, <1>6, <1>7, <1>8 DEF RInv

LEMMA TasksRepair ==
    ASSUME IInv, RInv, NEW st \in Steps,
           \/ Enqueue(st) \/ Realise(st) \/ OutputsImported(st) \/ SucceedStep(st)
           \/ GetDirectBuilds(st) \/ CommitSucceeded(st) \/ StepSucceeded(st)
    PROVE  RInv'
  <1> USE DEF graph, flags, monitored
  <1>1. TypeOK /\ RestTyped /\ Alive \in SUBSET Steps
    BY TypeIs, AliveHolds DEF IInv
  <1>2. Alive' \subseteq Alive
    <2>1. CASE StepSucceeded(st)
      BY <2>1, RdepsStep
    <2> QED BY <2>1, EnqueueStep, BuilderStep, GetBuildsStep, CommitStep
  <1>3. UNCHANGED <<frame, created, previous_failure, mon>>
    BY DEF Enqueue, Realise, OutputsImported, SucceedStep, GetDirectBuilds, CommitSucceeded, StepSucceeded
  <1>4. \A s \in Steps \ {st} : task'[s].pc = task[s].pc
    BY <1>1 DEF RestTyped, Enqueue, Realise, OutputsImported, SucceedStep, GetDirectBuilds,
                CommitSucceeded, StepSucceeded
  <1>5. /\ task[st].pc \in Unended => st \notin finished /\ st \in created
        /\ task[st].pc \in Over => st \in finished /\ st \in created
    BY DEF RInv, TasksTrue, Unended, Over
  <1>6. CASE Enqueue(st)
    <2>1. task'[st].pc = "queued" /\ st \in created /\ st \notin finished
      BY <1>1, <1>6, TaskPc DEF Enqueue, IInv, Ready
    <2> QED BY <1>2, <1>3, <1>4, <1>6, <2>1, RepairTask DEF Enqueue, Unended, Over
  <1>7. CASE Realise(st)
    <2>1. task'[st].pc \in {"none", "building"} /\ task[st].pc = "queued"
      BY <1>1, <1>7, TaskPc DEF Realise
    <2> QED BY <1>2, <1>3, <1>4, <1>5, <1>7, <2>1, RepairTask DEF Realise, Unended, Over
  <1>8. CASE OutputsImported(st)
    <2>1. task'[st].pc = "imported" /\ task[st].pc = "building"
      BY <1>1, <1>8, TaskPc DEF OutputsImported
    <2> QED BY <1>2, <1>3, <1>4, <1>5, <1>8, <2>1, RepairTask DEF OutputsImported, Unended, Over
  <1>9. CASE SucceedStep(st)
    <2>1. task'[st].pc = "finish" /\ task[st].pc = "imported"
      BY <1>1, <1>9, TaskPc DEF SucceedStep
    <2> QED BY <1>2, <1>3, <1>4, <1>5, <1>9, <2>1, RepairTask DEF SucceedStep, Unended, Over
  <1>10. CASE GetDirectBuilds(st)
    <2>1. task'[st].pc = "succeed" /\ task[st].pc = "finish"
      BY <1>1, <1>10 DEF GetDirectBuilds, RestTyped, TaskType
    <2> QED BY <1>2, <1>3, <1>4, <1>5, <1>10, <2>1, RepairTask DEF GetDirectBuilds, Unended, Over
  <1>11. CASE CommitSucceeded(st)
    <2>1. task'[st].pc = "notify" /\ task[st].pc = "succeed"
      BY <1>1, <1>11 DEF CommitSucceeded, RestTyped, NoTask
    <2> QED BY <1>2, <1>3, <1>4, <1>5, <1>11, <2>1, RepairTask DEF CommitSucceeded, Unended, Over
  <1>12. CASE StepSucceeded(st)
    <2>1. task'[st].pc = "none" /\ task[st].pc = "notify"
      BY <1>1, <1>12 DEF StepSucceeded, RestTyped, NoTask
    <2>2. MakeRdepsRunnable({st})
      BY <1>12 DEF StepSucceeded
    <2>3. \A p \in Steps : deps'[p] \subseteq deps[p]
      BY <1>1, <2>2, MakeRdepsEffect
    <2>4. ASSUME NEW p \in Alive, st \in deps'[p] PROVE FALSE
      <3>1. p \in Steps /\ st \in deps[p]
        BY <1>1, <2>3, <2>4
      <3>2. p \in rdeps[st]
        BY <3>1 DEF IInv, DepsKnown
      <3> QED BY <2>2, <2>4, <3>1, <3>2 DEF MakeRdepsRunnable
    <2>5. finished' = finished /\ steps' = steps
      BY <1>12 DEF StepSucceeded
    <2> QED BY <1>2, <1>3, <1>4, <1>5, <2>1, <2>3, <2>4, <2>5, RepairTask DEF Unended, Over
  <1> QED BY <1>6, <1>7, <1>8, <1>9, <1>10, <1>11, <1>12

(* The repair itself. *)
LEMMA ProcessedRepair ==
    ASSUME IInv, RInv, NewBuildsProcessed
    PROVE  RInv' /\ \A p \in Alive' : \A c \in deps'[p] \cap finished : task[c].pc # "none"
  <1> DEFINE F == {st \in (Alive \cap finished) \ previous_failure : steps[DrvOf[st]] = st}
  <1>1. TypeOK /\ Alive \in SUBSET Steps /\ ClosedIn(Alive) /\ Alive' \subseteq Alive
    BY AliveHolds, RdepsStep DEF IInv
  <1>2. /\ MakeRdepsRunnable(F)
        /\ UNCHANGED <<finished, previous_failure, steps, created, frame, task>>
    BY DEF NewBuildsProcessed
  <1>3. \A p \in Steps : deps'[p] \subseteq deps[p]
    BY <1>1, <1>2, MakeRdepsEffect
  <1>4. \A st \in Steps : frame[st].pc # "add_dep"
    BY DEF RInv, TasksTrue
  <1>5. ASSUME NEW p \in Alive', NEW c \in deps'[p], c \in finished, task[c].pc = "none"
        PROVE  FALSE
    <2>1. p \in Alive /\ p \in Steps /\ c \in deps[p]
      BY <1>1, <1>3
    <2>2. c \in Alive /\ p \in rdeps[c] /\ steps[DrvOf[c]] = c
      BY <1>1, <1>5, <2>1 DEF ClosedIn, IInv, DepsKnown, RInv, DepsFound
    <2>3. c \in F
      BY <1>5, <2>2 DEF RInv, Marks
    <2> HIDE DEF F
    <2> QED BY <1>2, <1>5, <2>1, <2>2, <2>3 DEF MakeRdepsRunnable
  <1>6. mon'.new_runnable = {}
    <2>1. RestTyped
      BY TypeIs DEF IInv
    <2> QED BY <2>1 DEF NewBuildsProcessed, RInv, Waiting, RestTyped, MonType
  <1> HIDE DEF F
  <1>7. \A p \in Alive' : \A c \in deps'[p] \cap finished : task[c].pc # "none"
    BY <1>5
  <1> QED BY <1>1, <1>2, <1>3, <1>4, <1>6, <1>7, RepairKept

LEMMA FrameRepair ==
    ASSUME IInv, RInv, ~Preempted, NEW st \in Steps,
           QueryMissingOutputs(st) \/ ConsumeInput(st) \/ ResumeAddDep(st) \/ SetCreated(st)
    PROVE  RInv'
  <1> USE DEF graph, flags
  <1>1. TypeOK /\ FrameTyped /\ GraphTyped
    BY TypeIs DEF IInv
  <1>2. Alive' \subseteq Alive /\ ~ResumeAddDep(st)
    BY FrameStep DEF ResumeAddDep, RInv, TasksTrue
  <1>3. UNCHANGED <<finished, previous_failure, steps, task, mon>> /\ Framed(st)
    BY <1>2 DEF QueryMissingOutputs, ConsumeInput, SetCreated, MoreInputs, Framed
  <1>4. created \subseteq created' /\ created' \subseteq created \cup {st}
    BY <1>2 DEF QueryMissingOutputs, ConsumeInput, SetCreated
  <1>5. \A s \in Steps : /\ s # st => frame'[s].pc = frame[s].pc
                         /\ frame'[st].pc # "add_dep" /\ frame[st].pc \notin {"none", "created"}
    <2>1. CASE QueryMissingOutputs(st)
      BY <1>1, <2>1 DEF QueryMissingOutputs, FrameTyped, FrameType
    <2>2. CASE SetCreated(st)
      BY <1>1, <2>2 DEF SetCreated, FrameTyped, FrameType
    <2>3. CASE ConsumeInput(st)
      <3>1. frame' = Consumed(st) /\ frame[st].pc = "inputs"
        BY <2>3 DEF ConsumeInput, MoreInputs
      <3>2. frame'[st].pc = "inputs" /\ \A s \in Steps \ {st} : frame'[s] = frame[s]
        BY <1>1, <3>1 DEF Consumed, FrameTyped, FrameType
      <3> QED BY <3>1, <3>2
    <2> QED BY <1>2, <2>1, <2>2, <2>3
  <1>6. \A s \in Steps : frame[s].pc # "add_dep"
    BY DEF RInv, TasksTrue
  <1>7. \A p \in Steps : \A c \in deps'[p] : c \in deps[p] \/ c \notin finished
    <2>1. CASE ConsumeInput(st)
      <3>1. deps' = deps \/ \E c : c \notin finished /\ deps' = [deps EXCEPT ![st] = @ \cup {c}]
        BY <2>1 DEF ConsumeInput, AddDep
      <3> QED BY <1>1, <3>1 DEF GraphTyped
    <2> QED BY <1>2, <2>1 DEF QueryMissingOutputs, SetCreated
  <1>8. mon.pc = "create"
    BY <1>3, FramedCreates
  <1> QED BY <1>1, <1>2, <1>3, <1>4, <1>5, <1>6, <1>7, <1>8, RepairKept

(* create_step returns, having marked its step or not. *)
LEMMA ReturnRepair ==
    ASSUME IInv, RInv, NEW st \in Steps,
           \/ QueryDrvFails(st) \/ CheckCachedFailure(st) \/ StepFinished(st)
           \/ InputFailed(st) \/ StepCreated(st)
    PROVE  RInv'
  <1> USE DEF graph, flags
  <1>1. TypeOK /\ Alive \in SUBSET Steps /\ HeldIn(Alive) /\ Alive' \subseteq Alive
    BY AliveHolds, ReturnStep DEF IInv
  <1>2. Framed(st) /\ FrameAt(st)
    <2>1. Framed(st)
      BY DEF Framed, QueryDrvFails, CheckCachedFailure, StepFinished, InputFailed, StepCreated, MoreInputs
    <2> QED BY <2>1 DEF IInv, FramesTrue
  <1>3. UNCHANGED <<created, steps, deps, task>>
    BY DEF QueryDrvFails, CheckCachedFailure, StepFinished, InputFailed, StepCreated
  <1>4. ~Framed(st)' /\ \A s \in Steps : ~Framed(s)' \/ frame'[s].pc = frame[s].pc
    <2>1. \E r \in Result : \E cr : Return(st, r, cr)
      <3>1. None \in Result /\ PreviousFailure(st) \in Result /\ Valid(st) \in Result
        BY DEF None, Valid, PreviousFailure, Result
      <3>2. InputFailed(st) => NextInput(st) \in Result
        BY <1>1, GotTyped DEF InputFailed, MoreInputs, NextInput
      <3> QED BY <3>1, <3>2 DEF QueryDrvFails, CheckCachedFailure, StepFinished, InputFailed, StepCreated
    <2>2. PICK r, cr : r \in Result /\ Return(st, r, cr)
      BY <2>1
    <2>3. \A s \in Below(st) : ~Framed(s)'
      BY <1>1, <2>2, ReturnEffect
    <2>4. \A s \in Steps \ Below(st) : frame'[s].pc = frame[s].pc
      BY <1>1, <2>2, ReturnEffect
    <2> QED BY <2>3, <2>4, BelowHas
  <1>5. \A s \in Steps : frame[s].pc # "add_dep"
    BY DEF RInv, TasksTrue
  <1>6. mon'.pc = "create"
    <2>1. mon.pc = "create" /\ RestTyped
      BY <1>1, <1>2, FramedCreates, TypeIs
    <2>2. CASE StepFinished(st) \/ StepCreated(st)
      BY <2>1, <2>2 DEF StepFinished, StepCreated, RestTyped, MonType
    <2> QED BY <2>1, <2>2 DEF QueryDrvFails, CheckCachedFailure, InputFailed
  <1>7. CASE QueryDrvFails(st) \/ InputFailed(st) \/ StepCreated(st)
    <2>1. UNCHANGED <<finished, previous_failure>>
      BY <1>7 DEF QueryDrvFails, InputFailed, StepCreated
    <2> QED BY <1>1, <1>3, <1>4, <1>5, <1>6, <2>1, RepairKept DEF Framed
  <1>8. CASE CheckCachedFailure(st) \/ StepFinished(st)
    <2>1. st \notin created /\ st \notin finished /\ st \notin previous_failure /\ task[st].pc = "none"
      BY <1>2, <1>8 DEF CheckCachedFailure, StepFinished, FrameAt, RInv, Marks, TasksTrue
    <2>2. \/ finished' = finished /\ previous_failure' = previous_failure \cup {st}
          \/ finished' = finished \cup {st} /\ previous_failure' = previous_failure
      BY <1>8 DEF CheckCachedFailure, StepFinished
    <2>3. Marks'
      <3>1. finished \subseteq Steps /\ previous_failure \subseteq Steps
        BY <1>1 DEF TypeOK
      <3> QED BY <1>3, <1>4, <2>1, <2>2, <3>1 DEF RInv, Marks, Framed
    <2>4. TasksTrue'
      BY <1>3, <1>4, <2>1, <2>2 DEF RInv, TasksTrue, Framed, Unended, Over
    <2>5. Mapped'
      BY <1>1, <1>3, <2>2 DEF RInv, Mapped
    <2>6. DepsFound'
      <3> SUFFICES ASSUME NEW p \in Alive', NEW c \in deps[p], c \in finished'
                   PROVE  task[c].pc # "none" \/ steps[DrvOf[c]] = c
        BY <1>3 DEF DepsFound
      <3>1. CASE c \in finished
        BY <1>1, <3>1 DEF RInv, DepsFound
      <3>2. CASE c = st
        BY <1>1, <1>2, <2>1, <3>2 DEF RInv, Mapped, HeldIn, FramesHold
      <3> QED BY <2>2, <3>1, <3>2
    <2>7. Waiting'
      BY <1>6 DEF Waiting
    <2> QED BY <2>3, <2>4, <2>5, <2>6, <2>7 DEF RInv
  <1> QED BY <1>7, <1>8

(* A call of create_step names a new step only where the map named none    *)
(* that is alive.                                                          *)
LEMMA CallRepair ==
    ASSUME IInv, RInv, NEW ds \in SUBSET Drvs, NEW ref \in SUBSET Steps, CreateSteps(ds, ref),
           NEW F, F = Fresh(ds), Alive' \subseteq Alive \cup F, UNCHANGED <<task, mon>>, mon.pc = "create",
           \A s \in F : frame'[s].pc = "query",
           \A s \in Steps \ F : \/ frame'[s] = frame[s]
                                \/ frame'[s].pc = "inputs" /\ frame[s].pc = "missing"
    PROVE  RInv'
  <1>1. TypeOK /\ Alive \in SUBSET Steps /\ HeldIn(Alive) /\ ClosedIn(Alive)
    BY AliveHolds DEF IInv
  <1>2. /\ created' = created \ F /\ finished' = finished \ F /\ previous_failure' = previous_failure \ F
        /\ \A s \in Steps : deps'[s] = IF s \in F THEN {} ELSE deps[s]
        /\ \A d \in ds : Existing(d) \/ HasFree(d)
    BY <1>1, CreateStepsEffect
  <1>3. /\ F \in SUBSET Steps
        /\ \A s \in F : s \notin Alive /\ DrvOf[s] \in ds /\ StepFor(DrvOf[s]) = s
        /\ \A d \in ds : Existing(d) => StepFor(d) = steps[d]
    BY <1>1, <1>2, FreshSteps
  <1>4. \A d \in Drvs : steps'[d] = IF d \in ds THEN StepFor(d) ELSE steps[d]
    BY DEF CreateSteps
  <1>5. \A s \in F : steps'[DrvOf[s]] = s
    BY <1>3, <1>4
  <1>6. ASSUME NEW s \in Alive, steps[DrvOf[s]] = s PROVE steps'[DrvOf[s]] = s
    <2>1. DrvOf[s] \in Drvs /\ s \in Steps /\ s # NoStep
      BY <1>1, ConstantsAssumption
    <2>2. Existing(DrvOf[s])
      BY <1>6, <2>1 DEF Existing
    <2> QED BY <1>3, <1>4, <1>6, <2>1, <2>2
  <1>7. \A s \in Steps : task[s].pc # "none" => s \in Alive /\ s \notin F
    BY <1>1, <1>3, TasksAlive
  <1>8. Marks'
    <2>1. finished \subseteq Steps /\ previous_failure \subseteq Steps
      BY <1>1 DEF TypeOK
    <2> QED BY <1>2, <1>3, <2>1 DEF RInv, Marks, Framed
  <1>9. TasksTrue'
    <2> SUFFICES ASSUME NEW s \in Steps
                 PROVE  /\ frame'[s].pc # "add_dep" /\ task[s].pc \in {"none"} \cup Unended \cup Over
                        /\ task[s].pc # "none" => s \in created'
                        /\ task[s].pc \in Unended => s \notin finished'
                        /\ task[s].pc \in Over => s \in finished'
                        /\ task[s].pc = "finish" => steps'[DrvOf[s]] = s
      BY DEF TasksTrue
    <2>1. frame'[s].pc # "add_dep"
      BY DEF RInv, TasksTrue
    <2> QED BY <1>2, <1>6, <1>7, <2>1 DEF RInv, TasksTrue, Over
  <1>10. Mapped'
    <2> SUFFICES ASSUME NEW s \in Alive', s \notin finished' PROVE steps'[DrvOf[s]] = s
      BY DEF Mapped
    <2>1. CASE s \in F
      BY <1>5, <2>1
    <2>2. CASE s \notin F
      BY <1>2, <1>6, <2>2 DEF RInv, Mapped
    <2> QED BY <2>1, <2>2
  <1>11. DepsFound'
    <2> SUFFICES ASSUME NEW p \in Alive', NEW c \in deps'[p], c \in finished'
                 PROVE  task[c].pc # "none" \/ steps'[DrvOf[c]] = c
      BY DEF DepsFound
    <2>1. p \in Steps /\ p \notin F /\ p \in Alive /\ c \in deps[p] /\ c \in finished
      BY <1>1, <1>2, <1>3
    <2>2. c \in Alive
      BY <1>1, <2>1 DEF ClosedIn
    <2> QED BY <1>6, <2>1, <2>2 DEF RInv, DepsFound
  <1>12. Waiting'
    BY DEF Waiting
  <1> QED BY <1>8, <1>9, <1>10, <1>11, <1>12 DEF RInv

(* The frames after a call of create_step for the inputs of st. *)
GotAtStart(st, i) ==
    IF Inputs(st)[i] \notin InputsCalled(st) THEN None
    ELSE IF Existing(Inputs(st)[i]) THEN Valid(steps[Inputs(st)[i]])
    ELSE Pending

InputsFramed(st, F) ==
    /\ InputsCalled(st) \in SUBSET Drvs /\ CreateSteps(InputsCalled(st), {st})
    /\ F \in SUBSET Steps /\ st \notin F /\ frame[st].pc = "missing"
    /\ frame'[st].pc = "inputs" /\ frame'[st].next = 1 /\ frame'[st].parent = frame[st].parent
    /\ DOMAIN frame'[st].got = DOMAIN Inputs(st)
    /\ \A i \in DOMAIN Inputs(st) : frame'[st].got[i] = GotAtStart(st, i)
    /\ \A s \in F : frame'[s].pc = "query" /\ frame'[s].parent = st /\ DOMAIN frame'[s].got = {}
    /\ \A s \in Steps \ F : s # st => frame'[s] = frame[s]

LEMMA InputsFrames ==
    ASSUME IInv, NEW st \in Steps, CreateInputs(st), NEW F, F = Fresh(InputsCalled(st))
    PROVE  InputsFramed(st, F)
  <1> DEFINE g == [i \in DOMAIN Inputs(st) |-> GotAtStart(st, i)]
             f == [frame[st] EXCEPT !.pc = "inputs", !.next = 1, !.got = g]
             n == NewFrame(st, frame[st].build)
  <1>1. TypeOK /\ FrameTyped
    BY TypeIs DEF IInv
  <1>2. frame[st].pc = "missing" /\ CreateSteps(InputsCalled(st), {st})
    BY DEF CreateInputs, Inputs, InputsCalled
  <1>3. frame' = [s \in Steps |-> IF s = st THEN f ELSE IF s \in F THEN n ELSE frame[s]]
    BY DEF CreateInputs, Inputs, InputsCalled, GotAtStart
  <1>4. InputsCalled(st) \in SUBSET Drvs
    <2>1. Inputs(st) \in Seq(Drvs)
      BY ConstantsAssumption DEF Inputs
    <2>2. Elements(Inputs(st)) \subseteq Drvs
      BY <2>1 DEF Elements
    <2> QED BY <2>2 DEF InputsCalled
  <1>5. PICK D \in SUBSET Drvs : D = InputsCalled(st)
    BY <1>4
  <1>6. F \in SUBSET Steps /\ st \notin F
    <2>1. {st} \in SUBSET Steps /\ CreateSteps(D, {st})
      BY <1>2, <1>5
    <2>2. \A d \in D : Existing(d) \/ HasFree(d)
      BY <1>1, <2>1, CreateStepsEffect
    <2>3. st \in Alive
      BY <1>1, <1>2, AliveHolds DEF HeldIn, FramesHold, Framed
    <2> QED BY <1>1, <1>5, <2>2, <2>3, FreshSteps
  <1>7. f.pc = "inputs" /\ f.next = 1 /\ f.got = g /\ f.parent = frame[st].parent
    BY <1>1 DEF FrameTyped, FrameType
  <1>8. n.pc = "query" /\ n.parent = st /\ DOMAIN n.got = {}
    <2>1. frame[st].build \in Builds \cup {NoBuild}
      BY <1>1 DEF FrameTyped, FrameType
    <2>2. n.pc = "query" /\ n.parent = st /\ n.got = <<>>
      BY <2>1, NewFrameTyped
    <2> QED BY <2>2
  <1>9. DOMAIN g = DOMAIN Inputs(st) /\ \A i \in DOMAIN Inputs(st) : g[i] = GotAtStart(st, i)
    OBVIOUS
  <1> HIDE DEF f, n, g
  <1>10. /\ frame'[st] = f /\ \A s \in F : frame'[s] = n
         /\ \A s \in Steps \ F : s # st => frame'[s] = frame[s]
    BY <1>3, <1>6
  <1> QED BY <1>2, <1>4, <1>6, <1>7, <1>8, <1>9, <1>10 DEF InputsFramed

(* And for the toplevel derivation of b. *)
ToplevelFramed(b, F) ==
    /\ TopCalled(b) \in SUBSET Drvs /\ CreateSteps(TopCalled(b), {}) /\ F \in SUBSET Steps
    /\ \A s \in F : frame'[s].pc = "query" /\ frame'[s].parent = NoStep /\ DOMAIN frame'[s].got = {}
    /\ \A s \in Steps \ F : frame'[s] = frame[s]

LEMMA ToplevelFrames ==
    ASSUME IInv, NEW b \in Builds, CreateToplevel(b), TopDrv[b] \notin mon.finished_drvs,
           NEW F, F = Fresh(TopCalled(b))
    PROVE  ToplevelFramed(b, F)
  <1> DEFINE d == TopDrv[b]
  <1>1. TypeOK /\ FrameTyped /\ TopCalled(b) = {d} /\ d \in Drvs
    BY TypeIs, ConstantsAssumption DEF IInv, TopCalled
  <1>2. /\ CreateSteps({d}, {})
        /\ frame' = IF Existing(d) THEN frame
                    ELSE [frame EXCEPT ![StepFor(d)] = NewFrame(NoStep, b)]
    BY DEF CreateToplevel
  <1> HIDE DEF d
  <1>3. PICK D \in SUBSET Drvs : D = TopCalled(b)
    BY <1>1
  <1>4. {} \in SUBSET Steps /\ CreateSteps(D, {})
    BY <1>1, <1>2, <1>3
  <1>5. \A x \in D : Existing(x) \/ HasFree(x)
    BY <1>1, <1>4, CreateStepsEffect
  <1>6. /\ ~Existing(d) => StepFor(d) \in F /\ StepFor(d) \in Steps
        /\ \A s \in F : s = StepFor(d) /\ ~Existing(d)
        /\ F \in SUBSET Steps
    BY <1>1, <1>3, <1>5, FreshSteps
  <1>7. PICK n : n = NewFrame(NoStep, b)
    OBVIOUS
  <1>8. n.pc = "query" /\ n.parent = NoStep /\ DOMAIN n.got = {}
    <2>1. n.pc = "query" /\ n.parent = NoStep /\ n.got = <<>>
      BY <1>7, NewFrameTyped
    <2> QED BY <2>1
  <1>9. /\ \A s \in F : frame'[s] = n
        /\ \A s \in Steps \ F : frame'[s] = frame[s]
    <2>1. CASE Existing(d)
      BY <1>2, <1>6, <2>1
    <2>2. CASE ~Existing(d)
      BY <1>1, <1>2, <1>6, <1>7, <2>2 DEF FrameTyped
    <2> QED BY <2>1, <2>2
  <1> QED BY <1>1, <1>3, <1>4, <1>6, <1>8, <1>9 DEF ToplevelFramed

LEMMA InputsRepair ==
    ASSUME IInv, RInv, NEW st \in Steps, CreateInputs(st)
    PROVE  RInv'
  <1>1. PICK D : D = InputsCalled(st)
    OBVIOUS
  <1>2. PICK F : F = Fresh(InputsCalled(st))
    OBVIOUS
  <1>3. InputsFramed(st, F)
    BY <1>2, InputsFrames
  <1>4. D \in SUBSET Drvs /\ CreateSteps(D, {st}) /\ {st} \in SUBSET Steps /\ F = Fresh(D)
    BY <1>1, <1>2, <1>3 DEF InputsFramed
  <1>5. \A s \in Steps \ F : \/ frame'[s] = frame[s]
                             \/ frame'[s].pc = "inputs" /\ frame[s].pc = "missing"
    BY <1>3 DEF InputsFramed
  <1>6. Alive' \subseteq Alive \cup F /\ UNCHANGED <<task, mon>> /\ Framed(st)
    BY <1>1, <1>2, CreateInputsStep DEF CreateInputs, Framed
  <1>7. mon.pc = "create"
    BY <1>6, FramedCreates
  <1>8. \A s \in F : frame'[s].pc = "query"
    BY <1>3 DEF InputsFramed
  <1> QED BY <1>8, <1>4, <1>5, <1>6, <1>7, CallRepair

LEMMA CreateRepair ==
    ASSUME IInv, RInv, \/ \E st \in Steps : CreateInputs(st)
                       \/ \E b \in Builds : CreateToplevel(b)
    PROVE  RInv'
  <1> USE DEF graph, flags
  <1>1. ASSUME NEW st \in Steps, CreateInputs(st) PROVE RInv'
    BY <1>1, InputsRepair
  <1>2. ASSUME NEW b \in Builds, CreateToplevel(b) PROVE RInv'
    <2>1. PICK D : D = TopCalled(b)
      OBVIOUS
    <2>2. PICK F : F = Fresh(D)
      OBVIOUS
    <2>3. Alive' \subseteq Alive \cup F /\ UNCHANGED <<task, mon>> /\ mon.pc = "create"
      <3>1. Active # {}
        BY <1>2 DEF CreateToplevel, Active
      <3> QED BY <1>2, <2>1, <2>2, <3>1, CreateToplevelStep DEF CreateToplevel, IInv, BuildsBelow
    <2>4. CASE TopDrv[b] \notin mon.finished_drvs
      <3>1. F = Fresh(TopCalled(b))
        BY <2>1, <2>2
      <3>2. ToplevelFramed(b, F)
        BY <1>2, <2>4, <3>1, ToplevelFrames
      <3>3. D \in SUBSET Drvs /\ CreateSteps(D, {}) /\ {} \in SUBSET Steps
        BY <2>1, <3>2 DEF ToplevelFramed
      <3>4. (\A s \in F : frame'[s].pc = "query") /\ \A s \in Steps \ F : frame'[s] = frame[s]
        BY <3>2 DEF ToplevelFramed
      <3> QED BY <2>2, <2>3, <3>3, <3>4, CallRepair
    <2>5. CASE TopDrv[b] \in mon.finished_drvs
      <3>1. UNCHANGED <<finished, previous_failure, steps, created, frame, deps>>
        BY <1>2, <2>5 DEF CreateToplevel
      <3>2. F = {}
        BY <2>1, <2>2, <2>5 DEF TopCalled, Fresh
      <3>3. TypeOK /\ \A s \in Steps : frame[s].pc # "add_dep"
        BY DEF IInv, RInv, TasksTrue
      <3> QED BY <2>3, <3>1, <3>2, <3>3, RepairKept
    <2> QED BY <2>4, <2>5
  <1> QED BY <1>1, <1>2

LEMMA InitNothing ==
    ASSUME Init
    PROVE  Alive \subseteq {}
  <1>1. \A b \in Builds : /\ toplevel[b] = NoStep /\ creating[b].res.step = NoStep
                          /\ creating[b].new_steps = {}
    BY DEF Init, NotCreating, Pending
  <1>2. \A st \in Steps : frame[st].pc = "none" /\ task[st].pc = "none" /\ DOMAIN frame[st].got = {}
    BY DEF Init, NoFrame, NoTask
  <1>3. mon.new_runnable = {}
    BY DEF Init
  <1>4. Held \subseteq {}
    BY <1>1, <1>2, <1>3, ConstantsAssumption DEF Held
  <1>5. PICK T \in SUBSET Steps : T = {}
    OBVIOUS
  <1> QED BY <1>4, <1>5, ReachLeast DEF Alive

LEMMA InitRepair ==
    ASSUME Init
    PROVE  RInv
  <1>1. \A st \in Steps : frame[st].pc = "none" /\ task[st].pc = "none"
    BY DEF Init, NoFrame, NoTask
  <1>2. Marks
    BY <1>1 DEF Init, Marks
  <1>3. TasksTrue
    BY <1>1 DEF TasksTrue, Unended, Over
  <1>4. Mapped /\ DepsFound
    BY InitNothing DEF Mapped, DepsFound
  <1>5. Waiting
    BY DEF Init, Waiting
  <1> QED BY <1>2, <1>3, <1>4, <1>5 DEF RInv

LEMMA NextRepair ==
    ASSUME IInv, RInv, [Next]_vars, ~BuildsMayFail, ~DbMayFail, ~Preempted
    PROVE  RInv'
  <1>1. CASE UNCHANGED vars
    <2>1. UNCHANGED <<finished, previous_failure, steps, created, frame, task, deps, toplevel, creating, mon>>
      BY <1>1 DEF vars, graph, flags, monitored
    <2>2. TypeOK /\ \A s \in Steps : frame[s].pc # "add_dep"
      BY DEF IInv, RInv, TasksTrue
    <2>3. Alive' \subseteq Alive
      BY <2>1 DEF Alive, Held, Reach
    <2>4. mon.pc \in {"wait", "load", "next"} => mon.new_runnable = {}
      BY DEF RInv, Waiting
    <2> QED BY <2>1, <2>2, <2>3, <2>4, RepairKept
  <1>2. ASSUME NEW st \in Steps, CreateStepNext(st) PROVE RInv'
    BY <1>2, FrameRepair, ReturnRepair, CreateRepair DEF CreateStepNext
  <1>3. ASSUME NEW b \in Builds, CreateBuildNext(b) PROVE RInv'
    BY <1>3, LoopRepair, CreateRepair DEF CreateBuildNext
  <1>4. ASSUME NEW st \in Steps, Enqueue(st) \/ TaskNext(st) PROVE RInv'
    <2>1. ~FailStep(st) /\ ~TaskDbError(st)
      BY DEF FailStep, TaskDbError
    <2>2. ~CommitFailed(st) /\ \A ids : ~GetAllIndirectBuilds(st, ids)
      BY DEF CommitFailed, GetAllIndirectBuilds, RInv, TasksTrue, Unended, Over
    <2> QED BY <1>4, <2>1, <2>2, TasksRepair DEF TaskNext
  <1>5. CASE Monitor
    BY <1>2, <1>3, <1>5, LoopRepair, ProcessedRepair DEF Monitor
  <1>6. CASE \E b \in Builds : BuildAdded(b) \/ BuildCancelled(b)
    BY <1>6, RowsRepair
  <1> QED BY <1>1, <1>4, <1>5, <1>6 DEF Next

(* process_new_builds ends with the repair. *)
LEMMA RepairIsLast ==
    ASSUME IInv, [Next]_vars, mon.pc = "next", mon'.pc = "wait"
    PROVE  NewBuildsProcessed
  <1> USE DEF graph, flags, monitored
  <1>1. RestTyped
    BY TypeIs DEF IInv
  <1>2. ~UNCHANGED mon
    OBVIOUS
  <1>3. ASSUME NEW st \in Steps, CreateStepNext(st) \/ MakeRunnable(st) PROVE FALSE
    <2>1. CASE StepFinished(st)
      BY <1>1, <2>1 DEF StepFinished, RestTyped, MonType
    <2>2. CASE StepCreated(st)
      BY <1>1, <2>2 DEF StepCreated, RestTyped, MonType
    <2> QED BY <1>2, <1>3, <2>1, <2>2 DEF CreateStepNext, QueryDrvFails, QueryMissingOutputs,
           CheckCachedFailure, CreateInputs, ConsumeInput, ResumeAddDep, InputFailed, SetCreated, MakeRunnable
  <1>4. ASSUME NEW b \in Builds, CreateBuildNext(b) PROVE FALSE
    <2>1. CASE CreateNestedBuilds(b)
      BY <1>1, <2>1 DEF CreateNestedBuilds, RestTyped, MonType
    <2> QED BY <1>2, <1>4, <2>1 DEF CreateBuildNext, AbortBuild, CreateToplevel, HandlePreviousFailure,
           InsertBuild, HandleCachedBuild
  <1>5. ASSUME NEW b \in Builds, NextBuild(b) PROVE FALSE
    BY <1>1, <1>5 DEF NextBuild, RestTyped, MonType
  <1>6. /\ ~GetQueuedBuilds /\ ~BuildCreated /\ ~AllMadeRunnable
        /\ \A n \in notes : ~ReadNotification(n)
    BY DEF GetQueuedBuilds, BuildCreated, AllMadeRunnable, ReadNotification
  <1>7. ASSUME NEW st \in Steps, Enqueue(st) \/ TaskNext(st) PROVE FALSE
    BY <1>2, <1>7 DEF TaskNext, Enqueue, Realise, OutputsImported, SucceedStep, GetDirectBuilds,
           CommitSucceeded, StepSucceeded, FailStep, GetAllIndirectBuilds, CommitFailed, TaskDbError
  <1>8. \A b \in Builds : ~BuildAdded(b) /\ ~BuildCancelled(b)
    BY <1>2 DEF BuildAdded, BuildCancelled
  <1>9. ~UNCHANGED vars
    BY <1>2 DEF vars
  <1> QED BY <1>3, <1>4, <1>5, <1>6, <1>7, <1>8, <1>9 DEF Next, Monitor

(* "This is here to ensure that we dont have any deps to finished steps":  *)
(* it does, for every graph and any number of builds, cancelled ones       *)
(* included, while no database call fails, no step fails, and create_step  *)
(* is not preempted between is_finished and add_dep.  A transaction that   *)
(* fails after get_direct_builds leaves a finished step outside the map,   *)
(* where the loop does not look, and a preempted create_step may add a     *)
(* dependency on a step whose task has already called make_rdeps_runnable. *)
(* When a step fails, get_all_indirect_builds removes map entries by their *)
(* derivation, and its second call may remove those of newer steps.        *)
THEOREM RepairComplete ==
    ASSUME ~BuildsMayFail, ~DbMayFail, ~Preempted
    PROVE  Spec => RepairLeavesNoDeps
  <1>1. Init => RInv
    BY InitRepair
  <1>2. IInv /\ RInv /\ [Next]_vars => RInv'
    BY NextRepair
  <1>3. IInv /\ RInv /\ [Next]_vars =>
           [mon.pc = "next" /\ mon'.pc = "wait" =>
              \A p \in Alive' : \A c \in deps'[p] \cap finished : task[c].pc # "none"]_vars
    BY RepairIsLast, ProcessedRepair
  <1> QED BY <1>1, <1>2, <1>3, Inductive, PTL DEF Spec, RepairLeavesNoDeps

-----------------------------------------------------------------------------
(* Where, besides, every derivation can be read and none is known to fail, *)
(* create_step leaves no step behind that is neither complete nor          *)
(* finished.                                                               *)

AwaitedBy(c, p) ==
    LET k == InputIndex(p, DrvOf[c])
    IN  /\ frame[p].pc = "inputs" /\ k \in DOMAIN frame[p].got
        /\ frame[p].got[k].kind = "Pending" /\ k >= frame[p].next

(* A create_step that a stream polls has its place among the results still *)
(* to be read, and has it alone.                                           *)
ChildrenWait ==
    /\ \A c \in Steps : Framed(c) /\ frame[c].parent # NoStep => AwaitedBy(c, frame[c].parent)
    /\ \A c, d \in Steps :
          /\ Framed(c) /\ Framed(d) /\ frame[c].parent = frame[d].parent
          /\ frame[c].parent # NoStep /\ DrvOf[c] = DrvOf[d]
          => c = d

Complete == \A st \in Alive : Framed(st) \/ st \in created \cup finished

DepsAreInputs == \A p \in Steps : \A c \in deps[p] : DrvOf[c] \in Elements(Inputs(p))

CInv == ChildrenWait /\ Complete /\ DepsAreInputs

LEMMA CompleteKept ==
    ASSUME TypeOK, CInv, Alive' \subseteq Alive, UNCHANGED <<frame, created>>,
           finished \subseteq finished', \A p \in Steps : deps'[p] \subseteq deps[p]
    PROVE  CInv'
  <1>1. ChildrenWait'
    BY DEF CInv, ChildrenWait, AwaitedBy, Framed
  <1>2. Complete'
    BY DEF CInv, Complete, Framed
  <1>3. DepsAreInputs'
    BY DEF CInv, DepsAreInputs, Inputs
  <1> QED BY <1>1, <1>2, <1>3 DEF CInv

LEMMA OutsideComplete ==
    ASSUME IInv, CInv,
           \/ NewBuildsProcessed
           \/ \E n \in notes : ReadNotification(n)
           \/ GetQueuedBuilds \/ AllMadeRunnable \/ BuildCreated
           \/ \E st \in Steps : MakeRunnable(st)
           \/ \E b \in Builds : \/ NextBuild(b) \/ AbortBuild(b) \/ HandlePreviousFailure(b)
                                \/ InsertBuild(b) \/ HandleCachedBuild(b) \/ CreateNestedBuilds(b)
                                \/ BuildAdded(b) \/ BuildCancelled(b)
           \/ \E st \in Steps :
                 \/ Enqueue(st) \/ Realise(st) \/ OutputsImported(st) \/ SucceedStep(st)
                 \/ GetDirectBuilds(st) \/ CommitSucceeded(st) \/ StepSucceeded(st)
    PROVE  CInv'
  <1> USE DEF graph, flags, monitored
  <1>1. TypeOK
    BY DEF IInv
  <1>2. CASE \/ NewBuildsProcessed
             \/ \E st \in Steps : StepSucceeded(st)
    <2>1. \E F : MakeRdepsRunnable(F)
      BY <1>2 DEF NewBuildsProcessed, StepSucceeded
    <2>2. \A p \in Steps : deps'[p] \subseteq deps[p]
      BY <1>1, <2>1, MakeRdepsEffect
    <2>3. UNCHANGED <<frame, created, finished>>
      BY <1>2 DEF NewBuildsProcessed, StepSucceeded
    <2> QED BY <1>1, <1>2, <2>2, <2>3, RdepsStep, CompleteKept
  <1>3. CASE \/ \E n \in notes : ReadNotification(n)
             \/ GetQueuedBuilds \/ AllMadeRunnable \/ BuildCreated
             \/ \E st \in Steps : MakeRunnable(st)
             \/ \E b \in Builds : \/ NextBuild(b) \/ AbortBuild(b) \/ HandlePreviousFailure(b)
                                  \/ InsertBuild(b) \/ HandleCachedBuild(b) \/ CreateNestedBuilds(b)
                                  \/ BuildAdded(b) \/ BuildCancelled(b)
    <2>1. UNCHANGED <<frame, created, finished, deps>>
      BY <1>3 DEF ReadNotification, GetQueuedBuilds, AllMadeRunnable, BuildCreated, MakeRunnable, NextBuild,
             AbortBuild, HandlePreviousFailure, InsertBuild, HandleCachedBuild, CreateNestedBuilds,
             BuildAdded, BuildCancelled
    <2>2. Alive' \subseteq Alive
      BY <1>3, LoopStep, NextBuildStep, BuildDoneStep, NestedBuildsStep, RowsStep
    <2> QED BY <1>1, <2>1, <2>2, CompleteKept
  <1>4. ASSUME NEW st \in Steps,
               \/ Enqueue(st) \/ Realise(st) \/ OutputsImported(st) \/ SucceedStep(st)
               \/ GetDirectBuilds(st) \/ CommitSucceeded(st)
        PROVE  CInv'
    <2>1. UNCHANGED <<frame, created, deps>> /\ finished \subseteq finished'
      BY <1>4 DEF Enqueue, Realise, OutputsImported, SucceedStep, GetDirectBuilds, CommitSucceeded
    <2>2. Alive' \subseteq Alive
      BY <1>4, EnqueueStep, BuilderStep, GetBuildsStep, CommitStep
    <2> QED BY <1>1, <2>1, <2>2, CompleteKept
  <1> QED BY <1>2, <1>3, <1>4

(* create_step that is not reading its stream polls no other. *)
LEMMA NoChildren ==
    ASSUME IInv, CInv, NEW st \in Steps, frame[st].pc # "inputs" \/ frame[st].next \notin DOMAIN frame[st].got
    PROVE  \A c \in Steps : Framed(c) => frame[c].parent # st
  <1> SUFFICES ASSUME NEW c \in Steps, Framed(c), frame[c].parent = st PROVE FALSE
    OBVIOUS
  <1>1. AwaitedBy(c, st)
    BY ConstantsAssumption DEF CInv, ChildrenWait
  <1>2. PICK k : k \in DOMAIN frame[st].got /\ k >= frame[st].next
    BY <1>1 DEF AwaitedBy
  <1>3. frame[st].got \in Seq(Result) /\ frame[st].next \in 1 .. Len(frame[st].got) + 1
    BY TypeIs DEF IInv, FrameTyped, FrameType
  <1> QED BY <1>1, <1>2, <1>3 DEF AwaitedBy

LEMMA FrameComplete ==
    ASSUME IInv, RInv, BInv, CInv, ~Preempted, NEW st \in Steps,
           QueryMissingOutputs(st) \/ ConsumeInput(st) \/ ResumeAddDep(st) \/ SetCreated(st)
    PROVE  CInv'
  <1> USE DEF graph, flags
  <1>1. TypeOK /\ FrameTyped /\ GraphTyped
    BY TypeIs DEF IInv
  <1>2. Alive' \subseteq Alive /\ ~ResumeAddDep(st)
    BY FrameStep DEF ResumeAddDep, RInv, TasksTrue
  <1>3. UNCHANGED finished /\ Framed(st) /\ created \subseteq created'
    BY <1>2 DEF QueryMissingOutputs, ConsumeInput, SetCreated, MoreInputs, Framed
  <1>4. /\ \A s \in Steps \ {st} : frame'[s] = frame[s]
        /\ frame'[st].parent = frame[st].parent /\ frame'[st].got = frame[st].got /\ Framed(st)'
        /\ \/ \A c \in Steps : Framed(c) => frame[c].parent # st
           \/ /\ frame'[st].pc = "inputs" /\ frame[st].pc = "inputs" /\ frame'[st].next = frame[st].next + 1
              /\ NextInput(st).kind # "Pending"
    <2>1. CASE QueryMissingOutputs(st)
      <3>1. \A c \in Steps : Framed(c) => frame[c].parent # st
        BY <2>1, NoChildren DEF QueryMissingOutputs
      <3> QED BY <1>1, <2>1, <3>1 DEF QueryMissingOutputs, FrameTyped, FrameType, Framed
    <2>2. CASE SetCreated(st)
      <3>1. \A c \in Steps : Framed(c) => frame[c].parent # st
        BY <2>2, NoChildren DEF SetCreated
      <3> QED BY <1>1, <2>2, <3>1 DEF SetCreated, FrameTyped, FrameType, Framed
    <2>3. CASE ConsumeInput(st)
      <3>1. frame' = Consumed(st) /\ frame[st].pc = "inputs" /\ NextInput(st).kind # "Pending"
        BY <2>3 DEF ConsumeInput, MoreInputs
      <3> QED BY <1>1, <3>1 DEF Consumed, FrameTyped, FrameType, Framed
    <2> QED BY <1>2, <2>1, <2>2, <2>3
  <1>5. \A s \in Steps : (Framed(s)' <=> Framed(s)) /\ frame'[s].parent = frame[s].parent
    BY <1>3, <1>4 DEF Framed
  <1>6. ChildrenWait'
    <2>1. ASSUME NEW c \in Steps, Framed(c), NEW p \in Steps, p = frame[c].parent
          PROVE  AwaitedBy(c, p)'
      <3>1. AwaitedBy(c, p)
        BY <2>1, ConstantsAssumption DEF CInv, ChildrenWait
      <3>2. CASE p # st
        BY <1>4, <3>1, <3>2 DEF AwaitedBy
      <3>3. CASE p = st
        <4>1. PICK k : /\ k = InputIndex(st, DrvOf[c]) /\ k \in DOMAIN frame[st].got
                       /\ frame[st].got[k].kind = "Pending" /\ k >= frame[st].next
          BY <3>1, <3>3 DEF AwaitedBy
        <4>2. frame'[st].pc = "inputs" /\ frame'[st].next = frame[st].next + 1 /\ k # frame[st].next
          BY <1>4, <2>1, <3>3, <4>1 DEF NextInput
        <4>3. frame[st].got \in Seq(Result) /\ frame[st].next \in Nat
          BY <1>1 DEF FrameTyped, FrameType
        <4>4. k >= frame[st].next + 1
          BY <4>1, <4>2, <4>3
        <4> QED BY <1>4, <3>3, <4>1, <4>2, <4>4 DEF AwaitedBy
      <3> QED BY <3>2, <3>3
    <2>2. \A c \in Steps : frame[c].parent \in Steps \cup {NoStep}
      BY <1>1 DEF FrameTyped, FrameType
    <2> QED BY <1>5, <2>1, <2>2 DEF CInv, ChildrenWait
  <1>7. Complete'
    BY <1>2, <1>3, <1>5, AliveHolds, <1>1 DEF CInv, Complete
  <1>8. DepsAreInputs'
    <2>1. CASE ConsumeInput(st)
      <3>1. deps' = deps \/ (AddDep(st, NextInput(st).step) /\ NextInput(st).kind = "Valid")
        BY <2>1 DEF ConsumeInput
      <3>2. CASE AddDep(st, NextInput(st).step) /\ NextInput(st).kind = "Valid"
        <4>1. PICK i \in DOMAIN frame[st].got : NextInput(st) = frame[st].got[i]
          BY <2>1 DEF ConsumeInput, MoreInputs, NextInput
        <4>2. DrvOf[NextInput(st).step] = Inputs(st)[i] /\ i \in DOMAIN Inputs(st)
          BY <1>3, <2>1, <3>2, <4>1 DEF BInv, GotTrue, IInv, FramesTrue, FrameAt, ConsumeInput, MoreInputs
        <4>3. DrvOf[NextInput(st).step] \in Elements(Inputs(st))
          BY <4>2 DEF Elements
        <4>4. \A p \in Steps : \A c \in deps'[p] : c \in deps[p] \/ (p = st /\ c = NextInput(st).step)
          BY <1>1, <3>2 DEF AddDep, GraphTyped
        <4> QED BY <4>3, <4>4 DEF CInv, DepsAreInputs, Inputs
      <3> QED BY <3>1, <3>2 DEF CInv, DepsAreInputs, Inputs
    <2>2. CASE QueryMissingOutputs(st) \/ SetCreated(st)
      BY <2>2 DEF QueryMissingOutputs, SetCreated, CInv, DepsAreInputs, Inputs
    <2> QED BY <1>2, <2>1, <2>2
  <1> QED BY <1>6, <1>7, <1>8 DEF CInv

LEMMA ReturnComplete ==
    ASSUME IInv, BInv, CInv, NEW st \in Steps, StepFinished(st) \/ StepCreated(st)
    PROVE  CInv'
  <1> USE DEF graph, flags
  <1>1. TypeOK /\ FrameTyped /\ Alive' \subseteq Alive
    BY TypeIs, ReturnStep DEF IInv
  <1>2. Framed(st) /\ FrameOwned(st) /\ FrameAt(st) /\ frame[st].pc # "inputs"
    BY DEF Framed, StepFinished, StepCreated, IInv, FramesTrue
  <1>3. \A c \in Steps : Framed(c) => frame[c].parent # st
    BY <1>2, NoChildren
  <1>4. Below(st) \subseteq {st}
    <2> DEFINE succ == [s \in Steps |-> {c \in Steps : frame[c].pc # "none" /\ frame[c].parent = s}]
    <2>1. Below(st) = Reach({st}, succ)
      BY DEF Below
    <2>2. succ[st] = {}
      BY <1>3 DEF Framed
    <2> HIDE DEF succ
    <2>3. PICK T \in SUBSET Steps : T = {st}
      OBVIOUS
    <2>4. {st} \subseteq T /\ \A x \in T : succ[x] \subseteq T
      BY <2>2, <2>3
    <2>5. Reach({st}, succ) \subseteq T
      BY <2>4, ReachLeast
    <2> QED BY <2>1, <2>3, <2>5
  <1>5. PICK r, cr : r \in Result /\ Return(st, r, cr)
    <2>1. None \in Result /\ Valid(st) \in Result
      BY DEF None, Valid, Result
    <2> QED BY <2>1 DEF StepFinished, StepCreated
  <1>6. /\ FrameTyped'
        /\ \A s \in Below(st) : ~Framed(s)' /\ DOMAIN frame'[s].got = {}
        /\ \A s \in Steps \ Below(st) :
                 /\ frame'[s].pc = frame[s].pc /\ frame'[s].parent = frame[s].parent
                 /\ frame'[s].build = frame[s].build /\ frame'[s].next = frame[s].next
                 /\ DOMAIN frame'[s].got = DOMAIN frame[s].got
                 /\ \A i \in DOMAIN frame[s].got :
                       \/ frame'[s].got[i] = frame[s].got[i]
                       \/ Answers(st, s, i) /\ frame'[s].got[i] = r
        /\ creating' = IF frame[st].parent = NoStep
                       THEN [cr EXCEPT ![frame[st].build].res = r, ![frame[st].build].pc = "result"]
                       ELSE cr
    BY <1>1, <1>5, ReturnEffect
  <1>7. \A s \in Steps : /\ Framed(s)' <=> Framed(s) /\ s # st
                         /\ s # st => frame'[s].parent = frame[s].parent
    BY <1>4, <1>6, BelowHas DEF Framed
  <1>8. ChildrenWait'
    <2>1. ASSUME NEW c \in Steps, Framed(c), c # st, NEW p \in Steps, p = frame[c].parent
          PROVE  AwaitedBy(c, p)'
      <3>1. AwaitedBy(c, p) /\ p # st
        BY <1>3, <2>1, ConstantsAssumption DEF CInv, ChildrenWait
      <3>2. PICK k : k = InputIndex(p, DrvOf[c])
        OBVIOUS
      <3>3. ~Answers(st, p, k)
        <4> SUFFICES ASSUME p = frame[st].parent, k = InputIndex(p, DrvOf[st]) PROVE FALSE
          BY DEF Answers
        <4>1. DrvOf[st] \in Elements(Inputs(p)) /\ DrvOf[c] \in Elements(Inputs(p))
          BY <1>2, <2>1, ConstantsAssumption DEF FrameOwned, IInv, FramesTrue
        <4>2. /\ \E i \in DOMAIN Inputs(p) : Inputs(p)[i] = DrvOf[st]
              /\ \E i \in DOMAIN Inputs(p) : Inputs(p)[i] = DrvOf[c]
          BY <4>1 DEF Elements
        <4>3. Inputs(p)[k] = DrvOf[st] /\ Inputs(p)[k] = DrvOf[c]
          BY <3>2, <4>2 DEF InputIndex, Inputs
        <4> QED BY <1>2, <2>1, <4>3, ConstantsAssumption DEF CInv, ChildrenWait
      <3>4. p \in Steps \ Below(st)
        BY <1>4, <3>1
      <3> QED BY <1>6, <3>1, <3>2, <3>3, <3>4 DEF AwaitedBy
    <2>2. \A c \in Steps : frame[c].parent \in Steps \cup {NoStep}
      BY <1>1 DEF FrameTyped, FrameType
    <2> QED BY <1>7, <2>1, <2>2 DEF CInv, ChildrenWait
  <1>9. Complete'
    <2>1. st \in created' \cup finished' /\ created' = created /\ finished \subseteq finished'
      BY <1>2 DEF StepFinished, StepCreated, FrameAt
    <2>2. Alive \in SUBSET Steps
      BY <1>1, AliveHolds
    <2> QED BY <1>1, <1>7, <2>1, <2>2 DEF CInv, Complete
  <1>10. DepsAreInputs'
    BY DEF StepFinished, StepCreated, CInv, DepsAreInputs, Inputs
  <1> QED BY <1>8, <1>9, <1>10 DEF CInv

(* New steps begin with a frame; what is alive stays what it was. *)
LEMMA CallComplete ==
    ASSUME IInv, CInv, NEW ds \in SUBSET Drvs, NEW ref \in SUBSET Steps, CreateSteps(ds, ref),
           NEW F, F = Fresh(ds), Alive' \subseteq Alive \cup F,
           \A s \in F : Framed(s)', \A s \in Steps \ F : Framed(s) => Framed(s)'
    PROVE  Complete' /\ DepsAreInputs'
  <1>1. TypeOK /\ Alive \in SUBSET Steps
    BY AliveHolds DEF IInv
  <1>2. /\ created' = created \ F /\ finished' = finished \ F
        /\ \A s \in Steps : deps'[s] = IF s \in F THEN {} ELSE deps[s]
    BY <1>1, CreateStepsEffect
  <1>3. Complete'
    <2> SUFFICES ASSUME NEW s \in Alive' PROVE Framed(s)' \/ s \in created' \cup finished'
      BY DEF Complete
    <2>1. CASE s \in F
      BY <2>1
    <2>2. CASE s \notin F
      <3>1. s \in Alive /\ s \in Steps \ F
        BY <1>1, <2>2
      <3> QED BY <1>2, <3>1 DEF CInv, Complete
    <2> QED BY <2>1, <2>2
  <1>4. DepsAreInputs'
    BY <1>2 DEF CInv, DepsAreInputs, Inputs
  <1> QED BY <1>3, <1>4

LEMMA InputsComplete ==
    ASSUME IInv, CInv, NEW st \in Steps, CreateInputs(st)
    PROVE  CInv'
  <1>1. PICK D : D = InputsCalled(st)
    OBVIOUS
  <1>2. PICK F : F = Fresh(InputsCalled(st))
    OBVIOUS
  <1>3. /\ InputsCalled(st) \in SUBSET Drvs /\ CreateSteps(InputsCalled(st), {st})
        /\ F \in SUBSET Steps /\ st \notin F /\ frame[st].pc = "missing"
        /\ frame'[st].pc = "inputs" /\ frame'[st].next = 1 /\ frame'[st].parent = frame[st].parent
        /\ DOMAIN frame'[st].got = DOMAIN Inputs(st)
        /\ \A i \in DOMAIN Inputs(st) : frame'[st].got[i] = GotAtStart(st, i)
        /\ \A s \in F : frame'[s].pc = "query" /\ frame'[s].parent = st /\ DOMAIN frame'[s].got = {}
        /\ \A s \in Steps \ F : s # st => frame'[s] = frame[s]
    <2>1. InputsFramed(st, F)
      BY <1>2, InputsFrames
    <2> QED BY <2>1 DEF InputsFramed
  <1>4. D \in SUBSET Drvs /\ CreateSteps(D, {st}) /\ {st} \in SUBSET Steps /\ F = Fresh(D)
    BY <1>1, <1>2, <1>3
  <1>5. TypeOK /\ FrameTyped
    BY TypeIs DEF IInv
  <1>6. \A c \in Steps : Framed(c) => frame[c].parent # st /\ c \notin F
    <2>1. \A d \in D : Existing(d) \/ HasFree(d)
      BY <1>4, <1>5, CreateStepsEffect
    <2>2. \A c \in F : c \notin Alive
      BY <1>4, <1>5, <2>1, FreshSteps
    <2>3. \A c \in Steps : Framed(c) => c \in Alive
      BY <1>5, AliveHolds DEF HeldIn, FramesHold
    <2> QED BY <1>3, <2>2, <2>3, NoChildren
  <1>7. \A s \in F : ~Existing(DrvOf[s]) /\ StepFor(DrvOf[s]) = s /\ DrvOf[s] \in D
    <2>1. \A d \in D : Existing(d) \/ HasFree(d)
      BY <1>4, <1>5, CreateStepsEffect
    <2> QED BY <1>4, <1>5, <2>1, FreshSteps
  <1>8. \A s \in Steps : /\ Framed(s)' <=> Framed(s) \/ s \in F
                         /\ s \notin F => frame'[s].parent = frame[s].parent
    BY <1>3 DEF Framed
  <1>9. \A c \in F : AwaitedBy(c, st)'
    <2> TAKE c \in F
    <2>1. DrvOf[c] \in Elements(Inputs(st)) /\ DrvOf[c] \in InputsCalled(st)
      BY <1>1, <1>7 DEF InputsCalled
    <2>2. \E i \in DOMAIN Inputs(st) : Inputs(st)[i] = DrvOf[c]
      BY <2>1 DEF Elements
    <2>3. PICK k : k = InputIndex(st, DrvOf[c])
      OBVIOUS
    <2>4. k \in DOMAIN Inputs(st) /\ Inputs(st)[k] = DrvOf[c]
      BY <2>2, <2>3 DEF InputIndex, Inputs
    <2>5. GotAtStart(st, k) = Pending /\ Pending.kind = "Pending"
      BY <1>7, <2>1, <2>4 DEF GotAtStart, Pending
    <2>6. k >= 1
      <3>1. Inputs(st) \in Seq(Drvs)
        BY ConstantsAssumption DEF Inputs
      <3> QED BY <2>4, <3>1
    <2> QED BY <1>3, <2>3, <2>4, <2>5, <2>6 DEF AwaitedBy
  <1>10. ASSUME NEW c \in Steps, Framed(c), NEW p \in Steps, p = frame[c].parent
         PROVE  AwaitedBy(c, p)'
    <2>1. AwaitedBy(c, p) /\ p # st
      BY <1>6, <1>10, ConstantsAssumption DEF CInv, ChildrenWait
    <2>2. Framed(p)
      BY <2>1 DEF AwaitedBy, Framed
    <2>3. frame'[p] = frame[p]
      BY <1>3, <1>6, <2>1, <2>2
    <2> QED BY <2>1, <2>3 DEF AwaitedBy
  <1>11. ChildrenWait'
    <2>1. \A c \in Steps : frame[c].parent \in Steps \cup {NoStep}
      BY <1>5 DEF FrameTyped, FrameType
    <2>2. ASSUME NEW c \in Steps, NEW p, Framed(c)', p = frame'[c].parent, p # NoStep
          PROVE  AwaitedBy(c, p)'
      <3>1. CASE c \in F
        <4>1. p = st
          BY <1>3, <2>2, <3>1
        <4> QED BY <1>9, <3>1, <4>1
      <3>2. CASE c \notin F
        <4>1. Framed(c) /\ p = frame[c].parent /\ p \in Steps
          BY <1>8, <2>1, <2>2, <3>2
        <4> QED BY <1>10, <4>1
      <3> QED BY <3>1, <3>2
    <2>3. ASSUME NEW c \in Steps, NEW d \in Steps, Framed(c)', Framed(d)',
                 frame'[c].parent = frame'[d].parent, frame'[c].parent # NoStep, DrvOf[c] = DrvOf[d]
          PROVE  c = d
      <3>1. CASE c \in F /\ d \in F
        BY <1>7, <2>3, <3>1
      <3>2. CASE c \notin F /\ d \notin F
        BY <1>8, <2>3, <3>2 DEF CInv, ChildrenWait
      <3>3. CASE (c \in F) # (d \in F)
        BY <1>3, <1>6, <1>8, <2>3, <3>3
      <3> QED BY <3>1, <3>2, <3>3
    <2> QED BY <2>2, <2>3 DEF ChildrenWait
  <1>12. Alive' \subseteq Alive \cup F
    BY <1>2, CreateInputsStep
  <1>13. Complete' /\ DepsAreInputs'
    <2>1. (\A s \in F : Framed(s)') /\ \A s \in Steps \ F : Framed(s) => Framed(s)'
      BY <1>3, <1>8
    <2> QED BY <1>4, <1>12, <2>1, CallComplete
  <1> QED BY <1>11, <1>13 DEF CInv

LEMMA ToplevelComplete ==
    ASSUME IInv, CInv, NEW b \in Builds, CreateToplevel(b)
    PROVE  CInv'
  <1>1. PICK D : D = TopCalled(b)
    OBVIOUS
  <1>2. PICK F : F = Fresh(TopCalled(b))
    OBVIOUS
  <1>3. TypeOK /\ FrameTyped /\ Alive' \subseteq Alive \cup F
    BY <1>2, TypeIs, CreateToplevelStep DEF IInv
  <1>4. CASE TopDrv[b] \notin mon.finished_drvs
    <2>1. /\ TopCalled(b) \in SUBSET Drvs /\ CreateSteps(TopCalled(b), {}) /\ F \in SUBSET Steps
          /\ \A s \in F : frame'[s].pc = "query" /\ frame'[s].parent = NoStep /\ DOMAIN frame'[s].got = {}
          /\ \A s \in Steps \ F : frame'[s] = frame[s]
      <3>1. ToplevelFramed(b, F)
        BY <1>2, <1>4, ToplevelFrames
      <3> QED BY <3>1 DEF ToplevelFramed
    <2>2. D \in SUBSET Drvs /\ CreateSteps(D, {}) /\ {} \in SUBSET Steps /\ F = Fresh(D)
      BY <1>1, <1>2, <2>1
    <2>3. \A c \in Steps : Framed(c) => c \notin F
      <3>1. \A d \in D : Existing(d) \/ HasFree(d)
        BY <1>3, <2>2, CreateStepsEffect
      <3>2. \A c \in F : c \notin Alive
        BY <1>3, <2>2, <3>1, FreshSteps
      <3> QED BY <1>3, <3>2, AliveHolds DEF HeldIn, FramesHold
    <2>4. ChildrenWait'
      <3>1. \A c \in Steps : Framed(c)' /\ frame'[c].parent # NoStep => c \notin F /\ Framed(c)
        BY <2>1 DEF Framed
      <3>2. ASSUME NEW c \in Steps, Framed(c), NEW p \in Steps, p = frame[c].parent
            PROVE  AwaitedBy(c, p)'
        <4>1. AwaitedBy(c, p)
          BY <3>2, ConstantsAssumption DEF CInv, ChildrenWait
        <4>2. frame'[p] = frame[p]
          BY <2>1, <2>3, <4>1 DEF AwaitedBy, Framed
        <4> QED BY <4>1, <4>2 DEF AwaitedBy
      <3>3. \A c \in Steps : frame[c].parent \in Steps \cup {NoStep}
        BY <1>3 DEF FrameTyped, FrameType
      <3> QED BY <2>1, <3>1, <3>2, <3>3 DEF CInv, ChildrenWait
    <2>5. (\A s \in F : Framed(s)') /\ \A s \in Steps \ F : Framed(s) => Framed(s)'
      BY <2>1 DEF Framed
    <2>6. Complete' /\ DepsAreInputs'
      BY <1>3, <2>2, <2>5, CallComplete
    <2> QED BY <2>4, <2>6 DEF CInv
  <1>5. CASE TopDrv[b] \in mon.finished_drvs
    <2>1. UNCHANGED <<frame, created, finished, deps>>
      BY <1>5 DEF CreateToplevel, graph, flags
    <2>2. F = {}
      BY <1>2, <1>5 DEF TopCalled, Fresh
    <2> QED BY <1>3, <2>1, <2>2, CompleteKept
  <1> QED BY <1>4, <1>5

LEMMA InitComplete ==
    ASSUME Init
    PROVE  CInv
  <1>1. \A st \in Steps : ~Framed(st) /\ deps[st] = {}
    BY DEF Init, NoFrame, Framed
  <1>2. ChildrenWait /\ DepsAreInputs
    BY <1>1 DEF ChildrenWait, DepsAreInputs
  <1>3. Complete
    BY InitNothing DEF Complete
  <1> QED BY <1>2, <1>3 DEF CInv

LEMMA NextComplete ==
    ASSUME IInv, RInv, BInv, CInv, [Next]_vars, ~BuildsMayFail, ~DbMayFail, ~Preempted,
           FailedPaths = {}, Unreadable = {}
    PROVE  CInv'
  <1>1. CASE UNCHANGED vars
    <2>1. UNCHANGED <<finished, created, frame, task, deps, toplevel, creating, mon>>
      BY <1>1 DEF vars, graph, flags, monitored
    <2>2. Alive' \subseteq Alive
      BY <2>1 DEF Alive, Held, Reach
    <2> QED BY <2>1, <2>2, CompleteKept DEF IInv
  <1>2. ASSUME NEW st \in Steps, CreateStepNext(st) PROVE CInv'
    <2>1. ~QueryDrvFails(st) /\ ~CheckCachedFailure(st)
      BY DEF QueryDrvFails, CheckCachedFailure
    <2>2. ~InputFailed(st)
      BY DEF InputFailed, MoreInputs, NextInput, BInv, GotTrue
    <2> QED BY <1>2, <2>1, <2>2, FrameComplete, ReturnComplete, InputsComplete DEF CreateStepNext
  <1>3. ASSUME NEW b \in Builds, CreateBuildNext(b) PROVE CInv'
    BY <1>3, OutsideComplete, ToplevelComplete DEF CreateBuildNext
  <1>4. ASSUME NEW st \in Steps, Enqueue(st) \/ TaskNext(st) PROVE CInv'
    <2>1. ~FailStep(st) /\ ~TaskDbError(st)
      BY DEF FailStep, TaskDbError
    <2>2. ~CommitFailed(st) /\ \A ids : ~GetAllIndirectBuilds(st, ids)
      BY DEF CommitFailed, GetAllIndirectBuilds, RInv, TasksTrue, Unended, Over
    <2> QED BY <1>4, <2>1, <2>2, OutsideComplete DEF TaskNext
  <1>5. CASE Monitor
    BY <1>2, <1>3, <1>5, OutsideComplete DEF Monitor
  <1>6. CASE \E b \in Builds : BuildAdded(b) \/ BuildCancelled(b)
    BY <1>6, OutsideComplete
  <1> QED BY <1>1, <1>4, <1>5, <1>6 DEF Next

(* Derivations do not depend on themselves: of any of them, one has none   *)
(* of the others as an input.                                              *)
Acyclic == \A S \in SUBSET Drvs : S # {} => \E d \in S : Elements(InputDrvs[d]) \cap S = {}

LEMMA CanProceed ==
    ASSUME IInv, RInv, CInv, Acyclic
    PROVE  BuildsCanProceed
  <1> SUFFICES ASSUME mon.pc = "wait", \A st \in Steps : task[st].pc = "none",
                      NEW b \in Builds, toplevel[b] \notin finished \cup {NoStep}
               PROVE  \E st \in Reach({toplevel[b]}, deps) \cap runnable :
                          st \notin finished /\ steps[DrvOf[st]] = st
    BY DEF BuildsCanProceed
  <1>1. TypeOK /\ Alive \in SUBSET Steps /\ HeldIn(Alive) /\ ClosedIn(Alive)
    BY AliveHolds DEF IInv
  <1>2. PICK t \in Steps : t = toplevel[b] /\ t \in Alive /\ t \notin finished
    BY <1>1 DEF HeldIn, BuildsHold
  <1>3. PICK R \in SUBSET Steps : R = Reach({t}, deps)
    BY DEF Reach
  <1>4. /\ t \in R /\ R \subseteq Alive
        /\ \A s \in R : deps[s] \subseteq R
    <2>1. {t} \in SUBSET Steps /\ {t} \subseteq R
      BY <1>3, ReachContains
    <2>2. PICK A \in SUBSET Steps : A = Alive
      BY <1>1
    <2>3. {t} \subseteq A /\ \A s \in A : deps[s] \subseteq A
      BY <1>1, <1>2, <2>2 DEF ClosedIn
    <2>4. R \subseteq A
      BY <1>3, <2>3, ReachLeast
    <2>5. ASSUME NEW s \in R, NEW c \in deps[s] PROVE c \in R
      <3>1. c \in Steps
        BY <1>1 DEF TypeOK
      <3> QED BY <1>3, <2>5, <3>1, ReachClosed
    <2> QED BY <2>1, <2>2, <2>4, <2>5
  <1>5. PICK W \in SUBSET Steps : W = R \ finished
    OBVIOUS
  <1>6. \A s \in W : s \in Alive /\ steps[DrvOf[s]] = s /\ s \in created /\ ~Framed(s)
    BY <1>4, <1>5, FramedCreates DEF RInv, Mapped, CInv, Complete
  <1>7. \A s \in W : deps[s] \subseteq W
    <2> SUFFICES ASSUME NEW s \in W, NEW c \in deps[s] PROVE c \in W
      OBVIOUS
    <2>1. c \in R /\ c \in Steps
      BY <1>4, <1>5
    <2>2. c \notin finished
      BY <1>6, <2>1 DEF RInv, Waiting
    <2> QED BY <1>5, <2>1, <2>2
  <1>8. PICK s \in W : deps[s] = {}
    <2> DEFINE S == {DrvOf[s] : s \in W}
    <2>1. S \in SUBSET Drvs /\ S # {}
      BY <1>2, <1>4, <1>5, ConstantsAssumption
    <2>2. PICK d \in S : Elements(InputDrvs[d]) \cap S = {}
      BY <2>1 DEF Acyclic
    <2>3. PICK s \in W : DrvOf[s] = d
      OBVIOUS
    <2>4. ASSUME NEW c \in deps[s] PROVE FALSE
      <3>1. DrvOf[c] \in S
        BY <1>7, <2>4
      <3>2. DrvOf[c] \in Elements(InputDrvs[d])
        BY <2>3 DEF CInv, DepsAreInputs, Inputs
      <3> QED BY <2>2, <3>1, <3>2
    <2> QED BY <2>4
  <1>9. s \in runnable
    <2>1. mon.new_runnable = {}
      BY DEF RInv, Waiting
    <2>2. frame[s].pc # "created"
      BY <1>6 DEF Framed
    <2> QED BY <1>5, <1>6, <1>8, <2>1, <2>2 DEF IInv, NoLostWakeup
  <1> QED BY <1>2, <1>3, <1>5, <1>6, <1>9

(* No standstill: whenever the queue monitor waits for a notification and  *)
(* no task runs, each build of state.builds whose toplevel is not finished *)
(* has a runnable step below it, which the job queues can still upgrade.   *)
(* For every acyclic graph and any number of builds, cancelled ones        *)
(* included, without failing steps, failing database calls, unreadable     *)
(* derivations, paths known to have failed, or the preemption of           *)
(* create_step.  A failing database call, a derivation that cannot be read *)
(* and the preemption each break it when two builds share a diamond.       *)
THEOREM BuildsProceed ==
    ASSUME Acyclic, ~BuildsMayFail, ~DbMayFail, ~Preempted, FailedPaths = {}, Unreadable = {}
    PROVE  Spec => []BuildsCanProceed
  <1>1. Init => RInv /\ BInv /\ CInv
    BY InitRepair, InitBuilt, InitComplete
  <1>2. IInv /\ RInv /\ BInv /\ CInv /\ [Next]_vars => RInv' /\ BInv' /\ CInv'
    BY NextRepair, NextBuilt, NextComplete
  <1>3. IInv /\ RInv /\ CInv => BuildsCanProceed
    BY CanProceed
  <1> QED BY <1>1, <1>2, <1>3, Inductive, PTL DEF Spec
=============================================================================
