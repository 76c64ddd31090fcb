--------------------------- MODULE SchedulingProofs ---------------------------
(***************************************************************************)
(* Machines are tried in the order of their scores, are not given more     *)
(* than their max_jobs, and show since when they are idle, for every set   *)
(* of machines, jobs and configurations.                                   *)
(***************************************************************************)
EXTENDS Scheduling, FiniteSetTheorems, SequenceTheorems, TLAPS

Pcs      == {"idle", "round", "send", "insert", "count"}
DispType == [pc : Pcs, todo : SUBSET Jobs, at : (Machines \X Jobs) \cup {NoJob}, free_fn : MachineFreeFns]

(* Types that TypeOK follows from. *)
Typed ==
    /\ config \in Configs /\ reload \in [pc : {"none", "sort", "swap"}, new : Configs]
    /\ raced \in BOOLEAN
    /\ by_system \in Seq(Machines) /\ IsInjective(by_system)
    /\ jobs \in [Machines -> SUBSET Jobs] /\ idle \in [Machines -> BOOLEAN]
    /\ ping \in [Machines -> {"ok", "busy", "full"}]
    /\ age \in [Machines -> 0..OldAge] /\ count \in [Machines -> 0..(U64 - 1)]
    /\ ending \in [Machines -> 0..MaxEnding]
    /\ disp \in DispType /\ events \in 0..MaxEvents

(* A job under way has a machine; and where max_jobs counted when it was   *)
(* chosen, there is a place for it until it is inserted.                   *)
Sent == disp.pc \in {"send", "insert", "count"} => disp.at \in Machines \X Jobs
Room ==
    disp.pc \in {"send", "insert"} /\ disp.free_fn # "Dynamic" =>
        Cardinality(jobs[disp.at[1]]) < MaxJobs[disp.at[1]]

(* The machines are sorted; between ReloadMachines and ReloadSwap by the   *)
(* function that is about to be the configuration's.                       *)
InOrder(ms, fn) ==
    \A i, k \in 1..Len(ms) : i < k => Score(fn, Hardware[ms[i]]) >= Score(fn, Hardware[ms[k]])
Fn    == IF reload.pc = "swap" THEN reload.new.machine_sort_fn ELSE config.machine_sort_fn
Order == ~raced => InOrder(by_system, Fn)

IInv == Typed /\ Sent /\ Room /\ IdleSinceRight /\ Order

-----------------------------------------------------------------------------
(* Sorting.                                                                *)

(* A score is a number. *)
LEMMA ProductNat ==
    ASSUME NEW a \in Nat, NEW b \in Nat
    PROVE  a * b \in Nat
  BY SMT

LEMMA ScoreNat ==
    ASSUME NEW fn \in MachineSortFns, NEW m \in Machines
    PROVE  Score(fn, Hardware[m]) \in Nat
  <1> DEFINE h == Hardware[m]
             f == IF h.bogomips > 1 THEN h.bogomips ELSE 1
  <1>1. h \in [speed_factor : Nat, cpu_count : Nat, bogomips : Nat]
    BY SchedulingAssumption
  <1>2. h.speed_factor \in Nat /\ h.cpu_count \in Nat /\ h.bogomips \in Nat
    BY <1>1
  <1>3. f \in Nat
    BY <1>2
  <1>4. h.speed_factor * h.cpu_count \in Nat
    BY <1>2, ProductNat
  <1>5. h.speed_factor * h.cpu_count * f \in Nat
    <2> HIDE DEF f
    <2> QED BY <1>3, <1>4, ProductNat
  <1> QED
    BY <1>2, <1>4, <1>5 DEF Score, MachineSortFns

(* sort puts the machines it is given into the order of their scores, each *)
(* of them once.                                                           *)
LEMMA SortedOrders ==
    ASSUME NEW ms \in Seq(Machines), NEW fn \in MachineSortFns,
           jobs \in [Machines -> SUBSET Jobs], IsInjective(ms)
    PROVE  /\ Sorted(ms, fn) \in Seq(Machines) /\ Range(Sorted(ms, fn)) = Range(ms)
           /\ IsInjective(Sorted(ms, fn))
           /\ InOrder(Sorted(ms, fn), fn)
  <1> DEFINE score(m) == Score(fn, Hardware[m])
             less(m, n) == \/ score(m) > score(n)
                           \/ score(m) = score(n) /\ Cardinality(jobs[m]) < Cardinality(jobs[n])
             first(k, i) == IF k < i THEN ~less(ms[i], ms[k]) ELSE less(ms[k], ms[i])
             R(i) == {k \in 1..Len(ms) : k = i \/ first(k, i)}
             rank(i) == Cardinality(R(i))
             N == Len(ms)
             out == [i \in 1..N |-> ms[CHOOSE k \in 1..N : rank(k) = i]]
  <1>1. Sorted(ms, fn) = out
    BY DEF Sorted, StableSort
  <1>2. N \in Nat /\ \A i \in 1..N : ms[i] \in Machines
    OBVIOUS
  <1>3. \A m \in Machines : score(m) \in Nat
    BY ScoreNat
  <1>4. \A m \in Machines : Cardinality(jobs[m]) \in Nat
    BY SchedulingAssumption, FS_Subset, FS_CardinalityType
  <1> HIDE DEF score
  <1>5. \A i, k \in 1..N : i # k => first(i, k) \/ first(k, i)
    BY <1>2, <1>3, <1>4
  <1>6. \A i, k \in 1..N : i # k => ~(first(i, k) /\ first(k, i))
    BY <1>2, <1>3, <1>4
  <1>7. ASSUME NEW i \in 1..N, NEW k \in 1..N, NEW l \in 1..N, first(i, k), first(k, l)
        PROVE  first(i, l)
    <2>1. /\ score(ms[i]) \in Nat /\ score(ms[k]) \in Nat /\ score(ms[l]) \in Nat
          /\ Cardinality(jobs[ms[i]]) \in Nat /\ Cardinality(jobs[ms[k]]) \in Nat
          /\ Cardinality(jobs[ms[l]]) \in Nat
      BY <1>2, <1>3, <1>4
    <2> QED BY <1>7, <2>1
  <1>8. \A i, k \in 1..N : i # k /\ first(i, k) => score(ms[i]) >= score(ms[k])
    BY <1>2, <1>3, <1>4
  <1>9. \A i \in 1..N : ~first(i, i)
    BY <1>2, <1>3, <1>4
  <1> HIDE DEF first
  <1>10. \A i \in 1..N : IsFiniteSet(R(i)) /\ rank(i) \in 1..N
    <2> TAKE i \in 1..N
    <2>1. IsFiniteSet(1..N) /\ Cardinality(1..N) = N
      BY <1>2, FS_Interval
    <2>2. R(i) \in SUBSET (1..N)
      OBVIOUS
    <2>3. IsFiniteSet(R(i)) /\ Cardinality(R(i)) <= N
      BY <2>1, <2>2, FS_Subset
    <2>4. Cardinality(R(i)) \in Nat
      BY <2>3, FS_CardinalityType
    <2>5. i \in R(i)
      OBVIOUS
    <2>6. Cardinality(R(i)) # 0
      BY <2>3, <2>5, FS_EmptySet
    <2> QED BY <2>3, <2>4, <2>6, <1>2
  <1>11. ASSUME NEW i \in 1..N, NEW k \in 1..N, i # k, first(i, k)
         PROVE  rank(i) < rank(k)
    <2>1. R(i) \in SUBSET R(k)
      BY <1>7, <1>11
    <2>2. k \in R(k) /\ k \notin R(i)
      BY <1>6, <1>11
    <2>3. R(i) # R(k)
      BY <2>2
    <2> HIDE DEF R
    <2> QED BY <2>1, <2>3, <1>10, FS_Subset
  <1> DEFINE rk == [i \in 1..N |-> rank(i)]
  <1> HIDE DEF R, less
  <1>12. rk \in Injection(1..N, 1..N)
    <2>1. rk \in [1..N -> 1..N]
      BY <1>10
    <2>2. ASSUME NEW i \in 1..N, NEW k \in 1..N, rk[i] = rk[k]
          PROVE  i = k
      <3>1. rank(i) \in Nat /\ rank(k) \in Nat /\ rank(i) = rank(k)
        BY <2>2, <1>10, <1>2
      <3> QED BY <3>1, <1>5, <1>11
    <2> QED BY <2>1, <2>2 DEF Injection, IsInjective
  <1>13. rk \in Surjection(1..N, 1..N)
    BY <1>12, <1>2, FS_Interval, FS_Injection
  <1>14. \A i \in 1..N : \E k \in 1..N : rank(k) = i
    <2> TAKE i \in 1..N
    <2>1. PICK k \in 1..N : rk[k] = i
      BY <1>13 DEF Surjection
    <2> QED BY <2>1
  <1> DEFINE at(i) == CHOOSE k \in 1..N : rank(k) = i
  <1>15. \A i \in 1..N : at(i) \in 1..N /\ rank(at(i)) = i
    BY <1>14
  <1>16. out = [i \in 1..N |-> ms[at(i)]]
    OBVIOUS
  <1> HIDE DEF at, out
  <1>17. out \in [1..N -> Machines] /\ out \in Seq(Machines) /\ Len(out) = N /\ DOMAIN out = 1..N
    BY <1>2, <1>15, <1>16
  <1>18. IsInjective(out)
    <2>1. ASSUME NEW i \in 1..N, NEW k \in 1..N, out[i] = out[k]
          PROVE  i = k
      <3>1. ms[at(i)] = ms[at(k)] /\ at(i) \in DOMAIN ms /\ at(k) \in DOMAIN ms
        BY <2>1, <1>15, <1>16, <1>2
      <3>2. at(i) = at(k)
        BY <3>1 DEF IsInjective
      <3> QED BY <3>2, <1>15
    <2> QED BY <2>1, <1>17 DEF IsInjective
  <1>19. InOrder(out, fn)
    <2>1. ASSUME NEW i \in 1..N, NEW k \in 1..N, i < k
          PROVE  score(out[i]) >= score(out[k])
      <3>1. at(i) \in 1..N /\ at(k) \in 1..N /\ rank(at(i)) = i /\ rank(at(k)) = k
        BY <1>15
      <3>2. at(i) # at(k)
        BY <3>1, <2>1
      <3>3. ~first(at(k), at(i))
        BY <3>1, <3>2, <2>1, <1>11, <1>2
      <3>4. first(at(i), at(k))
        BY <3>1, <3>2, <3>3, <1>5
      <3> QED BY <3>1, <3>2, <3>4, <1>8, <1>16
    <2> QED BY <2>1, <1>17 DEF InOrder, score
  <1>20. Range(out) = Range(ms)
    <2>1. \A i \in 1..N : out[i] \in Range(ms)
      BY <1>15, <1>16, <1>2 DEF Range
    <2>2. ASSUME NEW k \in 1..N
          PROVE  ms[k] \in Range(out)
      <3>1. rank(k) \in 1..N
        BY <1>10
      <3>2. at(rank(k)) \in 1..N /\ rank(at(rank(k))) = rank(k)
        BY <3>1, <1>15
      <3>3. at(rank(k)) = k
        BY <3>1, <3>2, <1>5, <1>11
      <3>4. out[rank(k)] = ms[k] /\ rank(k) \in DOMAIN out
        BY <3>1, <3>3, <1>16
      <3> QED BY <3>4 DEF Range
    <2> QED BY <2>1, <2>2, <1>2, <1>17 DEF Range
  <1> QED
    BY <1>1, <1>17, <1>18, <1>19, <1>20

(* remove_machine leaves the order of the others as it is.                 *)
LEMMA RemoveKeeps ==
    ASSUME NEW ms \in Seq(Machines), NEW i \in 1..Len(ms), IsInjective(ms)
    PROVE  /\ RemoveAt(ms, i) \in Seq(Machines)
           /\ IsInjective(RemoveAt(ms, i))
           /\ \A fn : InOrder(ms, fn) => InOrder(RemoveAt(ms, i), fn)
  <1> DEFINE N == Len(ms)
             out == RemoveAt(ms, i)
             at(k) == IF k < i THEN k ELSE k + 1
  <1>1. N \in Nat /\ i \in 1..N
    OBVIOUS
  <1>2. /\ SubSeq(ms, 1, i - 1) \in Seq(Machines) /\ Len(SubSeq(ms, 1, i - 1)) = i - 1
        /\ \A k \in 1..(i - 1) : SubSeq(ms, 1, i - 1)[k] = ms[k]
    BY <1>1
  <1>3. /\ SubSeq(ms, i + 1, N) \in Seq(Machines) /\ Len(SubSeq(ms, i + 1, N)) = N - i
        /\ \A k \in 1..(N - i) : SubSeq(ms, i + 1, N)[k] = ms[k + i]
    BY <1>1
  <1> DEFINE a == SubSeq(ms, 1, i - 1)
             b == SubSeq(ms, i + 1, N)
  <1>r. out = a \o b
    BY DEF RemoveAt
  <1> HIDE DEF a, b, out
  <1>c. /\ a \o b \in Seq(Machines) /\ Len(a \o b) = Len(a) + Len(b)
        /\ \A k \in 1..(Len(a) + Len(b)) : (a \o b)[k] = IF k <= Len(a) THEN a[k] ELSE b[k - Len(a)]
    BY <1>2, <1>3, ConcatProperties DEF a, b
  <1>d. Len(a) = i - 1 /\ Len(b) = N - i
    BY <1>2, <1>3 DEF a, b
  <1>4. out \in Seq(Machines) /\ Len(out) = N - 1
    BY <1>1, <1>r, <1>c, <1>d
  <1>5. ASSUME NEW k \in 1..(N - 1)
        PROVE  out[k] = ms[at(k)]
    <2>1. out[k] = IF k <= i - 1 THEN a[k] ELSE b[k - (i - 1)]
      BY <1>1, <1>r, <1>c, <1>d
    <2>2. CASE k < i
      BY <2>1, <2>2, <1>1, <1>2 DEF a
    <2>3. CASE k >= i
      <3>1. k - (i - 1) \in 1..(N - i) /\ k - (i - 1) + i = k + 1 /\ ~(k < i) /\ ~(k <= i - 1)
        BY <2>3, <1>1
      <3> QED BY <2>1, <3>1, <1>3 DEF b
    <2> QED BY <2>2, <2>3, <1>1
  <1>6. \A k \in 1..(N - 1) : at(k) \in 1..N
    BY <1>1
  <1>7. \A k, l \in 1..(N - 1) : k < l <=> at(k) < at(l)
    BY <1>1
  <1> HIDE DEF at
  <1>8. IsInjective(out)
    <2>1. DOMAIN out = 1..(N - 1) /\ DOMAIN ms = 1..N
      BY <1>1, <1>4
    <2>2. ASSUME NEW k \in 1..(N - 1), NEW l \in 1..(N - 1), out[k] = out[l]
          PROVE  k = l
      <3>1. at(k) = at(l)
        BY <2>1, <2>2, <1>5, <1>6 DEF IsInjective
      <3> QED BY <3>1, <1>1, <1>6, <1>7
    <2> QED BY <2>1, <2>2 DEF IsInjective
  <1>9. ASSUME NEW fn, InOrder(ms, fn)
        PROVE  InOrder(out, fn)
    <2>1. ASSUME NEW k \in 1..(N - 1), NEW l \in 1..(N - 1), k < l
          PROVE  Score(fn, Hardware[out[k]]) >= Score(fn, Hardware[out[l]])
      <3>1. at(k) \in 1..N /\ at(l) \in 1..N /\ at(k) < at(l)
        BY <2>1, <1>6, <1>7
      <3> QED BY <3>1, <1>5, <1>9 DEF InOrder
    <2> QED BY <2>1, <1>4 DEF InOrder
  <1> QED
    BY <1>4, <1>8, <1>9 DEF out

(* A machine that joins is put behind the others before they are sorted.   *)
LEMMA AppendKeeps ==
    ASSUME NEW ms \in Seq(Machines), IsInjective(ms), NEW m \in Machines, m \notin Range(ms)
    PROVE  Append(ms, m) \in Seq(Machines) /\ IsInjective(Append(ms, m))
  <1>1. /\ DOMAIN Append(ms, m) = 1..(Len(ms) + 1) /\ Len(ms) \in Nat
        /\ Append(ms, m)[Len(ms) + 1] = m
        /\ \A i \in 1..Len(ms) : Append(ms, m)[i] = ms[i] /\ ms[i] # m
    BY DEF Range
  <1> QED
    BY <1>1 DEF IsInjective

(* The number of jobs of a machine. *)
LEMMA JobsCount ==
    ASSUME NEW S \in SUBSET Jobs
    PROVE  /\ IsFiniteSet(S) /\ Cardinality(S) \in Nat
           /\ \A j \in Jobs : Cardinality(S \cup {j}) <= Cardinality(S) + 1
           /\ \A T \in SUBSET S : Cardinality(T) <= Cardinality(S)
  <1>1. IsFiniteSet(S) /\ Cardinality(S) \in Nat
    BY SchedulingAssumption, FS_Subset, FS_CardinalityType
  <1>2. \A j \in Jobs : Cardinality(S \cup {j}) <= Cardinality(S) + 1
    <2> TAKE j \in Jobs
    <2> QED BY <1>1, FS_AddElement
  <1>3. \A T \in SUBSET S : Cardinality(T) <= Cardinality(S)
    BY <1>1, FS_Subset
  <1> QED BY <1>1, <1>2, <1>3
Smaller == {p \in Nat \X Nat : p[1] < p[2]}

(* Min finds an element of a set of numbers that is not empty. *)
LEMMA MinIn ==
    ASSUME NEW S \in SUBSET Nat, S # {}
    PROVE  Min(S) \in S
  <1>1. IsWellFoundedOn(Smaller, Nat)
    <2>1. OpToRel(<, Nat) = Smaller
      BY DEF OpToRel, Smaller
    <2> QED BY <2>1, NatLessThanWellFounded
  <1>2. PICK x \in S : \A y \in S : ~(<<y, x>> \in Smaller)
    BY <1>1, WFMin
  <1>3. \A y \in S : x <= y
    <2> TAKE y \in S
    <2>1. x \in Nat /\ y \in Nat /\ <<y, x>> \in Nat \X Nat
      OBVIOUS
    <2>2. ~(<<y, x>>[1] < <<y, x>>[2])
      BY <1>2, <2>1 DEF Smaller
    <2> QED BY <2>1, <2>2
  <1> QED BY <1>3 DEF Min

-----------------------------------------------------------------------------
(* What the actions are made of.                                           *)

LEMMA ConfigFns ==
    ASSUME NEW c \in Configs
    PROVE  c.machine_sort_fn \in MachineSortFns /\ c.machine_free_fn \in MachineFreeFns
  BY SchedulingAssumption

LEMMA NextJobTyped ==
    ASSUME disp \in DispType, NEW j
    PROVE  NextJob(j) \in DispType /\ NextJob(j).pc \in {"idle", "round"}
  <1>1. Idle \in DispType
    BY ConfigFns, SchedulingAssumption DEF Idle, DispType, Pcs
  <1>2. disp.todo \ {j} \in SUBSET Jobs
    BY DEF DispType
  <1>3. (IF disp.todo = {j} THEN "idle" ELSE "round") \in {"idle", "round"}
    OBVIOUS
  <1> QED
    BY <1>1, <1>2, <1>3 DEF NextJob, DispType, Pcs

LEMMA ModIn ==
    ASSUME NEW a \in Nat
    PROVE  a % U64 \in 0..(U64 - 1)
  <1>1. U64 \in Nat /\ U64 > 0
    BY SchedulingAssumption, FS_CardinalityType
  <1> QED BY <1>1

(* The initial states satisfy the invariant. *)
LEMMA InitTrue == Init => IInv
  <1> SUFFICES ASSUME Init PROVE IInv
    OBVIOUS
  <1>1. U64 \in Nat /\ U64 > 0
    BY SchedulingAssumption, FS_CardinalityType
  <1>2. by_system \in Seq(Machines) /\ DOMAIN by_system = {} /\ Len(by_system) = 0
    BY DEF Init
  <1>3. Typed
    <2>1. disp \in DispType
      BY ConfigFns, SchedulingAssumption DEF Init, Idle, DispType, Pcs
    <2>2. IsInjective(by_system)
      BY <1>2 DEF IsInjective
    <2>3. /\ age \in [Machines -> 0..OldAge] /\ count \in [Machines -> 0..(U64 - 1)]
          /\ ending \in [Machines -> 0..MaxEnding] /\ events \in 0..MaxEvents
      BY <1>1, SchedulingAssumption DEF Init, OldAge
    <2>4. /\ jobs \in [Machines -> SUBSET Jobs] /\ idle \in [Machines -> BOOLEAN]
          /\ ping \in [Machines -> {"ok", "busy", "full"}] /\ raced \in BOOLEAN
      BY DEF Init
    <2>5. config \in Configs /\ reload \in [pc : {"none", "sort", "swap"}, new : Configs]
      BY SchedulingAssumption DEF Init, NoReload
    <2> QED BY <1>2, <2>1, <2>2, <2>3, <2>4, <2>5 DEF Typed
  <1>4. Sent /\ Room
    BY DEF Init, Idle, Sent, Room
  <1>5. IdleSinceRight
    BY DEF Init, IdleSinceRight
  <1>6. Order
    BY <1>2 DEF Order, InOrder
  <1> QED BY <1>3, <1>4, <1>5, <1>6 DEF IInv

-----------------------------------------------------------------------------
(* Every step preserves it.                                                *)

LEMMA EventTyped ==
    ASSUME Event, events \in 0..MaxEvents
    PROVE  events' \in 0..MaxEvents
  BY SchedulingAssumption DEF Event

LEMMA JoinStep ==
    ASSUME IInv, NEW m \in Machines, Join(m)
    PROVE  IInv'
  <1> USE DEF configVars
  <1>1. /\ by_system \in Seq(Machines) /\ IsInjective(by_system) /\ config \in Configs
        /\ config.machine_sort_fn \in MachineSortFns /\ jobs \in [Machines -> SUBSET Jobs]
    BY ConfigFns DEF IInv, Typed
  <1>2. Append(by_system, m) \in Seq(Machines) /\ IsInjective(Append(by_system, m))
    BY <1>1, AppendKeeps DEF Join, Joined
  <1>3. /\ by_system' \in Seq(Machines) /\ IsInjective(by_system')
        /\ InOrder(by_system', config.machine_sort_fn)
    BY <1>1, <1>2, SortedOrders DEF Join
  <1>4. U64 \in Nat /\ 0 \in 0..(U64 - 1) /\ OldAge \in 0..OldAge
    BY SchedulingAssumption, FS_CardinalityType DEF OldAge
  <1>5. /\ age' \in [Machines -> 0..OldAge] /\ count' \in [Machines -> 0..(U64 - 1)]
    BY <1>4 DEF IInv, Typed, Join, Fresh
  <1>6. /\ jobs' \in [Machines -> SUBSET Jobs] /\ idle' \in [Machines -> BOOLEAN]
        /\ ping' \in [Machines -> {"ok", "busy", "full"}] /\ raced' \in BOOLEAN
    BY DEF IInv, Typed, Join, Fresh
  <1>7. Typed'
    BY <1>3, <1>5, <1>6, EventTyped DEF IInv, Typed, Join
  <1>8. Sent'
    BY DEF IInv, Sent, Join
  <1>9. Room'
    <2> SUFFICES ASSUME disp.pc \in {"send", "insert"}, disp.free_fn # "Dynamic"
                 PROVE  Cardinality(jobs'[disp.at[1]]) < MaxJobs[disp.at[1]]
      BY DEF Room, Join
    <2>1. disp.at \in Machines \X Jobs /\ disp.at = <<disp.at[1], disp.at[2]>> /\ disp.at[2] \in Jobs
      BY DEF IInv, Sent
    <2>2. disp.at[1] # m
      BY <2>1 DEF Join
    <2> QED BY <2>1, <2>2, <1>1 DEF IInv, Room, Join, Fresh
  <1>10. IdleSinceRight'
    BY DEF IInv, Typed, IdleSinceRight, Join, Fresh
  <1>11. Order'
    BY <1>3 DEF Order, Fn, Join
  <1> QED BY <1>7, <1>8, <1>9, <1>10, <1>11 DEF IInv

LEMMA LeaveStep ==
    ASSUME IInv, NEW m \in Machines, Leave(m)
    PROVE  IInv'
  <1> USE DEF configVars
  <1>1. PICK i \in 1..Len(by_system) : by_system' = RemoveAt(by_system, i)
    BY DEF Leave
  <1>2. /\ by_system' \in Seq(Machines) /\ IsInjective(by_system')
        /\ \A fn : InOrder(by_system, fn) => InOrder(by_system', fn)
    BY <1>1, RemoveKeeps DEF IInv, Typed
  <1>3. Typed'
    BY <1>2, EventTyped DEF IInv, Typed, Leave
  <1>4. Sent' /\ Room' /\ IdleSinceRight'
    BY DEF IInv, Sent, Room, IdleSinceRight, Leave
  <1>5. Order'
    BY <1>2 DEF IInv, Order, Fn, Leave
  <1> QED BY <1>3, <1>4, <1>5 DEF IInv

LEMMA PingStep ==
    ASSUME IInv, NEW m \in Machines, NEW p \in {"ok", "busy", "full"}, Ping(m, p)
    PROVE  IInv'
  <1> USE DEF configVars
  <1>1. Typed'
    <2>1. ping' \in [Machines -> {"ok", "busy", "full"}]
      BY DEF IInv, Typed, Ping
    <2> QED BY <2>1, EventTyped DEF IInv, Typed, Ping
  <1>2. Sent' /\ Room' /\ IdleSinceRight'
    BY DEF IInv, Sent, Room, IdleSinceRight, Ping
  <1>3. Order'
    BY DEF IInv, Order, Fn, InOrder, Ping
  <1> QED BY <1>1, <1>2, <1>3 DEF IInv

LEMMA RemoveJobStep ==
    ASSUME IInv, NEW m \in Machines, NEW j \in Jobs, RemoveJob(m, j)
    PROVE  IInv'
  <1> USE DEF configVars
  <1>1. jobs' \in [Machines -> SUBSET Jobs] /\ idle' \in [Machines -> BOOLEAN]
    BY DEF IInv, Typed, RemoveJob, StoreCurrentJobs
  <1>2. ending' \in [Machines -> 0..MaxEnding]
    <2>1. MaxEnding \in Nat /\ ending[m] \in 0..MaxEnding
      BY SchedulingAssumption DEF IInv, Typed
    <2>2. ending[m] + 1 \in 0..MaxEnding
      BY <2>1 DEF RemoveJob
    <2> QED BY <2>2 DEF IInv, Typed, RemoveJob
  <1>3. Typed'
    BY <1>1, <1>2 DEF IInv, Typed, RemoveJob
  <1>4. Sent'
    BY DEF IInv, Sent, RemoveJob
  <1>5. \A n \in Machines : jobs'[n] \in SUBSET jobs[n]
    BY DEF IInv, Typed, RemoveJob
  <1>6. \A n \in Machines : /\ Cardinality(jobs'[n]) <= Cardinality(jobs[n])
                            /\ Cardinality(jobs'[n]) \in Nat /\ Cardinality(jobs[n]) \in Nat
    BY <1>1, <1>5, JobsCount DEF IInv, Typed
  <1>7. Room'
    <2> SUFFICES ASSUME disp.pc \in {"send", "insert"}, disp.free_fn # "Dynamic"
                 PROVE  Cardinality(jobs'[disp.at[1]]) < MaxJobs[disp.at[1]]
      BY DEF Room, RemoveJob
    <2>1. disp.at[1] \in Machines
      BY DEF IInv, Sent
    <2>2. Cardinality(jobs[disp.at[1]]) < MaxJobs[disp.at[1]] /\ MaxJobs[disp.at[1]] \in Nat
      BY <2>1, SchedulingAssumption DEF IInv, Room
    <2> QED BY <2>1, <2>2, <1>6
  <1>8. IdleSinceRight'
    <2>1. idle[m] = FALSE
      BY DEF IInv, Typed, IdleSinceRight, RemoveJob
    <2>2. jobs'[m] = jobs[m] \ {j}
      BY DEF IInv, Typed, RemoveJob
    <2>3. idle'[m] <=> jobs'[m] = {}
      BY <2>1, <2>2 DEF IInv, Typed, RemoveJob, StoreCurrentJobs
    <2>4. \A n \in Machines \ {m} : idle'[n] = idle[n] /\ jobs'[n] = jobs[n]
      BY DEF IInv, Typed, RemoveJob, StoreCurrentJobs
    <2> QED BY <2>3, <2>4 DEF IInv, IdleSinceRight
  <1>9. Order'
    BY DEF IInv, Order, Fn, InOrder, RemoveJob
  <1> QED BY <1>3, <1>4, <1>7, <1>8, <1>9 DEF IInv

LEMMA UncountJobStep ==
    ASSUME IInv, NEW m \in Machines, UncountJob(m)
    PROVE  IInv'
  <1> USE DEF configVars
  <1>1. U64 \in Nat /\ U64 > 0
    BY SchedulingAssumption, FS_CardinalityType
  <1>2. count[m] + U64 - 1 \in Nat
    BY <1>1 DEF IInv, Typed
  <1>3. (count[m] + U64 - 1) % U64 \in 0..(U64 - 1)
    BY <1>2, ModIn
  <1>4. count' \in [Machines -> 0..(U64 - 1)]
    BY <1>3 DEF IInv, Typed, UncountJob
  <1>5. ending' \in [Machines -> 0..MaxEnding]
    <2>1. MaxEnding \in Nat /\ ending[m] \in 0..MaxEnding
      BY SchedulingAssumption DEF IInv, Typed
    <2>2. ending[m] - 1 \in 0..MaxEnding
      BY <2>1 DEF UncountJob
    <2> QED BY <2>2 DEF IInv, Typed, UncountJob
  <1>6. Typed'
    BY <1>4, <1>5 DEF IInv, Typed, UncountJob
  <1>7. Sent' /\ Room' /\ IdleSinceRight'
    BY DEF IInv, Sent, Room, IdleSinceRight, UncountJob
  <1>8. Order'
    BY DEF IInv, Order, Fn, InOrder, UncountJob
  <1> QED BY <1>6, <1>7, <1>8 DEF IInv
LEMMA TickStep ==
    ASSUME IInv, Tick
    PROVE  IInv'
  <1> USE DEF configVars
  <1>1. ASSUME NEW m \in Machines
        PROVE  Min({age[m] + 1, OldAge}) \in 0..OldAge
    <2>1. age[m] \in Nat /\ OldAge \in Nat
      BY SchedulingAssumption DEF IInv, Typed, OldAge
    <2>2. CASE age[m] + 1 <= OldAge
      <3>1. Min({age[m] + 1, OldAge}) \in {age[m] + 1, OldAge}
        BY <2>1, MinIn
      <3> QED BY <2>1, <2>2, <3>1
    <2>3. CASE age[m] + 1 > OldAge
      <3>1. \A y \in {age[m] + 1, OldAge} : OldAge <= y
        BY <2>1, <2>3
      <3>2. \A x \in {age[m] + 1, OldAge} : x # OldAge => ~(x <= OldAge)
        BY <2>1, <2>3
      <3>3. Min({age[m] + 1, OldAge}) = OldAge
        BY <3>1, <3>2 DEF Min
      <3> QED BY <2>1, <3>3
    <2> QED BY <2>1, <2>2, <2>3
  <1>2. age' \in [Machines -> 0..OldAge]
    BY <1>1 DEF Tick
  <1>3. Typed'
    BY <1>2 DEF IInv, Typed, Tick
  <1>4. Sent' /\ Room' /\ IdleSinceRight'
    BY DEF IInv, Sent, Room, IdleSinceRight, Tick
  <1>5. Order'
    BY DEF IInv, Order, Fn, InOrder, Tick
  <1> QED BY <1>3, <1>4, <1>5 DEF IInv

(* The dispatcher. *)
LEMMA StartRoundStep ==
    ASSUME IInv, NEW queued \in SUBSET Jobs, StartRound(queued)
    PROVE  IInv'
  <1> USE DEF configVars, machineVars
  <1>1. disp' \in DispType /\ disp'.pc = "round"
    BY DEF IInv, Typed, StartRound, DispType, Pcs
  <1>2. Typed'
    BY <1>1 DEF IInv, Typed, StartRound
  <1>3. Sent' /\ Room' /\ IdleSinceRight'
    BY <1>1 DEF IInv, Sent, Room, IdleSinceRight, StartRound
  <1>4. Order'
    BY DEF IInv, Order, Fn, InOrder, StartRound
  <1> QED BY <1>2, <1>3, <1>4 DEF IInv

LEMMA ResolveStep ==
    ASSUME IInv, NEW j \in Jobs, Resolve(j)
    PROVE  IInv'
  <1> USE DEF configVars, machineVars
  <1> DEFINE free_fn == config.machine_free_fn
             fits == {i \in 1..Len(by_system) :
                         /\ has_capacity(by_system[i], free_fn)
                         /\ j \in CanBuild[by_system[i]]}
             first == IF fits = {} THEN Len(by_system) ELSE Min(fits)
  <1>1. /\ disp.pc = "round" /\ j \in disp.todo
        /\ IF j \in Running THEN UNCHANGED count /\ disp' = NextJob(j)
           ELSE /\ Looked({by_system[i] : i \in 1..first})
                /\ disp' = IF fits = {} THEN NextJob(j)
                           ELSE [disp EXCEPT !.pc = "send", !.at = <<by_system[first], j>>,
                                             !.free_fn = free_fn]
        /\ UNCHANGED <<by_system, jobs, idle, ping, age, ending, configVars, events>>
    BY DEF Resolve
  <1>2. disp \in DispType /\ by_system \in Seq(Machines) /\ config \in Configs
        /\ free_fn \in MachineFreeFns
    BY ConfigFns DEF IInv, Typed
  <1>3. fits # {} => first \in fits
    <2>1. fits \in SUBSET Nat
      OBVIOUS
    <2> HIDE DEF fits
    <2> QED BY <2>1, MinIn
  <1>4. fits # {} => by_system[first] \in Machines /\ has_capacity(by_system[first], free_fn)
    BY <1>2, <1>3
  <1>5. count' \in [Machines -> 0..(U64 - 1)]
    <2>1. 0 \in 0..(U64 - 1)
      BY SchedulingAssumption, FS_CardinalityType
    <2>2. CASE UNCHANGED count
      BY <2>2 DEF IInv, Typed
    <2>3. ASSUME NEW ms, Looked(ms)
          PROVE  count' \in [Machines -> 0..(U64 - 1)]
      BY <2>1, <2>3 DEF Looked, IInv, Typed
    <2> HIDE DEF fits, first
    <2> QED BY <1>1, <2>2, <2>3
  <1> DEFINE chosen == [disp EXCEPT !.pc = "send", !.at = <<by_system[first], j>>,
                                    !.free_fn = free_fn]
  <1> HIDE DEF fits, first, free_fn
  <1>6. \/ disp' = NextJob(j)
        \/ fits # {} /\ disp' = chosen
    BY <1>1
  <1>7. CASE disp' = NextJob(j)
    <2>1. disp' \in DispType /\ disp'.pc \in {"idle", "round"}
      BY <1>2, <1>7, NextJobTyped
    <2>2. Typed'
      BY <1>1, <1>5, <2>1 DEF IInv, Typed
    <2>3. Sent' /\ Room' /\ IdleSinceRight'
      BY <1>1, <2>1 DEF IInv, Sent, Room, IdleSinceRight
    <2>4. Order'
      BY <1>1 DEF IInv, Order, Fn, InOrder
    <2> QED BY <2>2, <2>3, <2>4 DEF IInv
  <1>8. CASE fits # {} /\ disp' = chosen
    <2>1. by_system[first] \in Machines /\ has_capacity(by_system[first], free_fn)
      BY <1>4, <1>8
    <2>2. disp' \in DispType
      BY <1>2, <1>8, <2>1 DEF DispType, Pcs
    <2>3. disp'.at = <<by_system[first], j>> /\ disp'.free_fn = free_fn
      BY <1>2, <1>8 DEF DispType
    <2>4. disp'.at \in Machines \X Jobs /\ disp'.at[1] = by_system[first]
      BY <2>1, <2>3
    <2>5. Typed'
      BY <1>1, <1>5, <2>2 DEF IInv, Typed
    <2>6. Sent' /\ IdleSinceRight'
      BY <1>1, <2>4 DEF IInv, Sent, IdleSinceRight
    <2>7. Room'
      <3>1. free_fn # "Dynamic" =>
               Cardinality(jobs[by_system[first]]) < MaxJobs[by_system[first]]
        BY <2>1, <1>2 DEF has_capacity, has_static_capacity, MachineFreeFns
      <3> QED BY <3>1, <2>3, <2>4, <1>1 DEF Room
    <2>8. Order'
      BY <1>1 DEF IInv, Order, Fn, InOrder
    <2> QED BY <2>5, <2>6, <2>7, <2>8 DEF IInv
  <1> QED BY <1>6, <1>7, <1>8

LEMMA SendStep ==
    ASSUME IInv, Send
    PROVE  IInv'
  <1> USE DEF configVars
  <1>1. disp.at \in Machines \X Jobs /\ disp \in DispType
    BY DEF IInv, Typed, Sent, Send
  <1>2. \/ /\ age' = IF count[disp.at[1]] = 0 THEN [age EXCEPT ![disp.at[1]] = 0] ELSE age
           /\ disp' = [disp EXCEPT !.pc = "insert"]
        \/ age' = age /\ disp' = NextJob(disp.at[2])
    BY DEF Send
  <1>3. age' \in [Machines -> 0..OldAge]
    <2>1. 0 \in 0..OldAge
      BY SchedulingAssumption DEF OldAge
    <2> QED BY <1>1, <1>2, <2>1 DEF IInv, Typed
  <1>4. CASE disp' = [disp EXCEPT !.pc = "insert"]
    <2>1. /\ disp' \in DispType /\ disp'.at = disp.at /\ disp'.free_fn = disp.free_fn
      BY <1>1, <1>4 DEF DispType, Pcs
    <2>2. Typed'
      BY <1>3, <2>1 DEF IInv, Typed, Send
    <2>3. Sent' /\ Room' /\ IdleSinceRight'
      BY <1>1, <2>1 DEF IInv, Sent, Room, IdleSinceRight, Send
    <2>4. Order'
      BY DEF IInv, Order, Fn, InOrder, Send
    <2> QED BY <2>2, <2>3, <2>4 DEF IInv
  <1>5. CASE disp' = NextJob(disp.at[2])
    <2>1. disp' \in DispType /\ disp'.pc \in {"idle", "round"}
      BY <1>1, <1>5, NextJobTyped
    <2>2. Typed'
      BY <1>3, <2>1 DEF IInv, Typed, Send
    <2>3. Sent' /\ Room' /\ IdleSinceRight'
      BY <2>1 DEF IInv, Sent, Room, IdleSinceRight, Send
    <2>4. Order'
      BY DEF IInv, Order, Fn, InOrder, Send
    <2> QED BY <2>2, <2>3, <2>4 DEF IInv
  <1> QED BY <1>2, <1>4, <1>5

LEMMA InsertJobStep ==
    ASSUME IInv, InsertJob
    PROVE  IInv'
  <1> USE DEF configVars
  <1> DEFINE m == disp.at[1]
             js == jobs[m] \cup {disp.at[2]}
  <1>1. m \in Machines /\ disp.at[2] \in Jobs /\ disp.at \in Machines \X Jobs /\ disp \in DispType
    BY DEF IInv, Typed, Sent, InsertJob
  <1>2. js \in SUBSET Jobs /\ js # {}
    BY <1>1 DEF IInv, Typed
  <1>3. /\ jobs' = [jobs EXCEPT ![m] = js] /\ idle' = [idle EXCEPT ![m] = js = {} /\ ~idle[m]]
        /\ disp' = [disp EXCEPT !.pc = "count"]
        /\ UNCHANGED <<by_system, ping, age, count, ending, configVars, events>>
    BY DEF InsertJob, StoreCurrentJobs
  <1>4. disp' \in DispType /\ disp'.pc = "count" /\ disp'.at = disp.at
    BY <1>1, <1>3 DEF DispType, Pcs
  <1> HIDE DEF js, m
  <1>5. jobs' \in [Machines -> SUBSET Jobs] /\ idle' \in [Machines -> BOOLEAN]
    BY <1>2, <1>3 DEF IInv, Typed
  <1>6. Typed'
    BY <1>3, <1>4, <1>5 DEF IInv, Typed
  <1>7. Sent' /\ Room'
    BY <1>1, <1>4 DEF Sent, Room
  <1>8. IdleSinceRight'
    <2>1. jobs'[m] = js /\ idle'[m] = FALSE
      BY <1>1, <1>2, <1>3 DEF IInv, Typed
    <2>2. \A n \in Machines \ {m} : idle'[n] = idle[n] /\ jobs'[n] = jobs[n]
      BY <1>3 DEF IInv, Typed
    <2> QED BY <2>1, <2>2, <1>2 DEF IInv, IdleSinceRight
  <1>9. Order'
    BY <1>3 DEF IInv, Order, Fn, InOrder
  <1> QED BY <1>6, <1>7, <1>8, <1>9 DEF IInv

LEMMA CountJobStep ==
    ASSUME IInv, CountJob
    PROVE  IInv'
  <1> USE DEF configVars
  <1> DEFINE m == disp.at[1]
  <1>1. m \in Machines /\ disp \in DispType
    BY DEF IInv, Typed, Sent, CountJob
  <1>2. U64 \in Nat /\ U64 > 0
    BY SchedulingAssumption, FS_CardinalityType
  <1>3. count[m] + 1 \in Nat
    BY <1>1, <1>2 DEF IInv, Typed
  <1>4. (count[m] + 1) % U64 \in 0..(U64 - 1)
    BY <1>3, ModIn
  <1>5. count' \in [Machines -> 0..(U64 - 1)]
    BY <1>1, <1>4 DEF IInv, Typed, CountJob
  <1>6. disp' \in DispType /\ disp'.pc \in {"idle", "round"}
    BY <1>1, NextJobTyped DEF CountJob
  <1>7. Typed'
    BY <1>5, <1>6 DEF IInv, Typed, CountJob
  <1>8. Sent' /\ Room' /\ IdleSinceRight'
    BY <1>6 DEF IInv, Sent, Room, IdleSinceRight, CountJob
  <1>9. Order'
    BY DEF IInv, Order, Fn, InOrder, CountJob
  <1> QED BY <1>7, <1>8, <1>9 DEF IInv
(* The reload of the configuration. *)
LEMMA ReloadStartStep ==
    ASSUME IInv, NEW new \in Configs, ReloadStart(new)
    PROVE  IInv'
  <1> USE DEF machineVars
  <1>1. /\ reload' \in [pc : {"none", "sort", "swap"}, new : Configs]
        /\ reload.pc = "none" /\ reload'.pc \in {"none", "sort"}
    BY DEF IInv, Typed, ReloadStart, Sighup
  <1>2. Typed'
    BY <1>1, EventTyped DEF IInv, Typed, ReloadStart
  <1>3. Sent' /\ Room' /\ IdleSinceRight'
    BY DEF IInv, Sent, Room, IdleSinceRight, ReloadStart
  <1>4. Order'
    BY <1>1 DEF IInv, Order, Fn, InOrder, ReloadStart
  <1> QED BY <1>2, <1>3, <1>4 DEF IInv

LEMMA ReloadMachinesStep ==
    ASSUME IInv, ReloadMachines
    PROVE  IInv'
  <1>1. /\ by_system \in Seq(Machines) /\ IsInjective(by_system)
        /\ jobs \in [Machines -> SUBSET Jobs]
        /\ reload \in [pc : {"none", "sort", "swap"}, new : Configs]
        /\ reload.new.machine_sort_fn \in MachineSortFns
    BY ConfigFns DEF IInv, Typed
  <1>2. /\ Sorted(by_system, reload.new.machine_sort_fn) \in Seq(Machines)
        /\ IsInjective(Sorted(by_system, reload.new.machine_sort_fn))
        /\ InOrder(Sorted(by_system, reload.new.machine_sort_fn), reload.new.machine_sort_fn)
    BY <1>1, SortedOrders
  <1>3. /\ reload' \in [pc : {"none", "sort", "swap"}, new : Configs]
        /\ reload'.pc = "swap" /\ reload'.new = reload.new /\ reload.pc = "sort"
    BY <1>1 DEF ReloadMachines
  <1>4. by_system' \in Seq(Machines) /\ IsInjective(by_system') /\ raced' \in BOOLEAN
    BY <1>1, <1>2 DEF ReloadMachines
  <1>5. Typed'
    BY <1>3, <1>4 DEF IInv, Typed, ReloadMachines
  <1>6. Sent' /\ Room' /\ IdleSinceRight'
    BY DEF IInv, Sent, Room, IdleSinceRight, ReloadMachines
  <1>7. Order'
    <2>1. Fn' = reload.new.machine_sort_fn
      BY <1>3 DEF Fn
    <2>2. CASE config.machine_sort_fn # reload.new.machine_sort_fn
      BY <2>1, <2>2, <1>2 DEF Order, ReloadMachines
    <2>3. CASE config.machine_sort_fn = reload.new.machine_sort_fn
      BY <2>1, <2>3, <1>3 DEF IInv, Order, Fn, ReloadMachines
    <2> QED BY <2>2, <2>3
  <1> QED BY <1>5, <1>6, <1>7 DEF IInv

LEMMA ReloadSwapStep ==
    ASSUME IInv, ReloadSwap
    PROVE  IInv'
  <1> USE DEF machineVars
  <1>1. config' \in Configs /\ reload' \in [pc : {"none", "sort", "swap"}, new : Configs]
    BY SchedulingAssumption DEF IInv, Typed, ReloadSwap, NoReload
  <1>2. Typed'
    BY <1>1 DEF IInv, Typed, ReloadSwap
  <1>3. Sent' /\ Room' /\ IdleSinceRight'
    BY DEF IInv, Sent, Room, IdleSinceRight, ReloadSwap
  <1>4. Order'
    BY DEF IInv, Order, Fn, InOrder, ReloadSwap, NoReload
  <1> QED BY <1>2, <1>3, <1>4 DEF IInv

-----------------------------------------------------------------------------
(* The theorems.                                                           *)

(* The invariant holds in every state that is reached, however joins,      *)
(* departures, pings, reloads, jobs and the clock follow each other.       *)
THEOREM Inductive == Spec => []IInv
  <1>1. IInv /\ [Next]_vars => IInv'
    <2> SUFFICES ASSUME IInv, [Next]_vars PROVE IInv'
      OBVIOUS
    <2>1. CASE UNCHANGED vars
      BY <2>1 DEF vars, machineVars, configVars, IInv, Typed, Sent, Room, IdleSinceRight, Order, Fn,
                  InOrder
    <2>2. CASE Dispatcher
      BY <2>2, StartRoundStep, ResolveStep, SendStep, InsertJobStep, CountJobStep DEF Dispatcher
    <2>3. CASE Tick \/ ReloadMachines \/ ReloadSwap \/ \E new \in Configs : ReloadStart(new)
      BY <2>3, TickStep, ReloadMachinesStep, ReloadSwapStep, ReloadStartStep
    <2>4. ASSUME NEW m \in Machines, Join(m) \/ Leave(m) \/ UncountJob(m)
          PROVE  IInv'
      BY <2>4, JoinStep, LeaveStep, UncountJobStep
    <2>5. ASSUME NEW m \in Machines, \E p \in {"ok", "busy", "full"} : Ping(m, p)
          PROVE  IInv'
      BY <2>5, PingStep
    <2>6. ASSUME NEW m \in Machines, NEW j \in Jobs, RemoveJob(m, j)
          PROVE  IInv'
      BY <2>6, RemoveJobStep
    <2> QED BY <2>1, <2>2, <2>3, <2>4, <2>5, <2>6 DEF Next
  <1> QED BY <1>1, InitTrue, PTL DEF Spec

(* The types of the variables, the 64 bits of the counter of jobs in the   *)
(* window among them, though fetch_sub wraps.                              *)
THEOREM TypeCorrect == Spec => []TypeOK
  <1>1. IInv => TypeOK
    BY DEF IInv, Typed, TypeOK, DispType, Pcs, Joined, Range
  <1> QED BY <1>1, Inductive, PTL

(* Machines are tried in the order of their scores by the function of the  *)
(* configuration, through joins, departures and reloads, save where one    *)
(* joined in the middle of a reload (sort, insert_machine,                 *)
(* reload_config_callback).                                                *)
THEOREM AlwaysSorted == Spec => []SortedByScore
  <1>1. IInv => SortedByScore
    BY DEF IInv, Order, Fn, InOrder, SortedByScore
  <1> QED BY <1>1, Inductive, PTL

(* idle_since is set exactly while a machine has no job, although          *)
(* store_current_jobs only looks at whether it is set.                     *)
THEOREM IdleSinceFollows == Spec => []IdleSinceRight
  <1>1. IInv => IdleSinceRight
    BY DEF IInv
  <1> QED BY <1>1, Inductive, PTL

(* A machine whose max_jobs counted when it was chosen does not exceed it  *)
(* by the job that is sent later (has_capacity, build_drv).                *)
THEOREM LimitKept == Spec => StaticLimit
  <1>1. IInv /\ [Next]_vars =>
            [\A m \in Machines :
                Cardinality(jobs'[m]) > Cardinality(jobs[m]) /\ disp.free_fn # "Dynamic" =>
                    Cardinality(jobs'[m]) <= MaxJobs[m]]_vars
    <2> SUFFICES ASSUME IInv, Next, NEW m \in Machines,
                        Cardinality(jobs'[m]) > Cardinality(jobs[m]), disp.free_fn # "Dynamic"
                 PROVE  Cardinality(jobs'[m]) <= MaxJobs[m]
      OBVIOUS
    <2>1. /\ jobs \in [Machines -> SUBSET Jobs] /\ Cardinality(jobs[m]) \in Nat
          /\ \A T \in SUBSET jobs[m] : Cardinality(T) <= Cardinality(jobs[m]) /\ Cardinality(T) \in Nat
      BY JobsCount DEF IInv, Typed
    <2>2. jobs'[m] \notin SUBSET jobs[m]
      BY <2>1
    <2> USE DEF configVars, machineVars
    <2>3. CASE InsertJob
      <3> DEFINE n == disp.at[1]
                 js == jobs[n] \cup {disp.at[2]}
      <3>1. n \in Machines /\ disp.at[2] \in Jobs /\ jobs' = [jobs EXCEPT ![n] = js]
        BY <2>3 DEF IInv, Sent, InsertJob
      <3>2. m = n /\ jobs'[m] = js
        BY <2>1, <2>2, <3>1
      <3>3. Cardinality(js) <= Cardinality(jobs[n]) + 1 /\ Cardinality(js) \in Nat
        BY <2>1, <3>1, JobsCount
      <3>4. Cardinality(jobs[n]) < MaxJobs[n] /\ MaxJobs[n] \in Nat /\ Cardinality(jobs[n]) \in Nat
        BY <2>1, <2>3, <3>1, <3>2, SchedulingAssumption DEF IInv, Room, InsertJob
      <3> HIDE DEF js, n
      <3> QED BY <3>2, <3>3, <3>4
    <2>4. CASE \/ \E queued \in SUBSET Jobs : StartRound(queued)
               \/ \E j \in Jobs : Resolve(j)
               \/ Send \/ CountJob \/ Tick \/ ReloadMachines \/ ReloadSwap
               \/ \E new \in Configs : ReloadStart(new)
      <3>1. jobs' = jobs
        BY <2>4 DEF StartRound, Resolve, Send, CountJob, Tick, ReloadMachines, ReloadSwap, ReloadStart
      <3> QED BY <2>2, <3>1
    <2>5. ASSUME NEW n \in Machines, Leave(n) \/ UncountJob(n)
                    \/ \E p \in {"ok", "busy", "full"} : Ping(n, p)
          PROVE  FALSE
      <3>1. jobs' = jobs
        BY <2>5 DEF Leave, UncountJob, Ping
      <3> QED BY <2>2, <3>1
    <2>6. ASSUME NEW n \in Machines, Join(n)
          PROVE  FALSE
      BY <2>1, <2>2, <2>6 DEF Join, Fresh
    <2>7. ASSUME NEW n \in Machines, NEW j \in Jobs, RemoveJob(n, j)
          PROVE  FALSE
      BY <2>1, <2>2, <2>7 DEF RemoveJob
    <2> QED BY <2>3, <2>4, <2>5, <2>6, <2>7 DEF Next, Dispatcher
  <1> QED BY <1>1, Inductive, PTL DEF Spec, StaticLimit
=============================================================================
