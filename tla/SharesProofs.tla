----------------------------- MODULE SharesProofs -----------------------------
(***************************************************************************)
(* The order of the queue is one, the seconds of a jobset cover its        *)
(* window, and what the database says reaches steps and jobsets, for every *)
(* set of builds, steps and jobsets and every history of their steps.      *)
(***************************************************************************)
EXTENDS Shares, FiniteSetTheorems, SequenceTheorems, TLAPS

(* How far the monitor is. *)
MonType ==
    [pc : {"wait", "read", "run", "bumped", "shares"}, todo : Seq(Builds \X Priorities),
     shares : (Jobsets \X SharesOf) \cup {<<>>}]

(* Types that TypeOK follows from. *)
Used  == Nat \X (Nat \ {0})
Typed ==
    /\ dbprio \in [Builds -> Priorities] /\ dbshares \in [Jobsets -> SharesOf]
    /\ notes \subseteq {"bumped", "shares"} /\ monitor \in MonType
    /\ DOMAIN global \subseteq Builds /\ \A b \in DOMAIN global : global[b] \in Priorities
    /\ prio \in [Steps -> StepType] /\ tried \subseteq runnable /\ runnable \subseteq Steps
    /\ share \in [Steps -> Used]
    /\ DOMAIN jobset \subseteq Jobsets /\ elapsed \in 0..SchedulingWindow
    /\ disp \in {"idle", "new"} /\ triggered \in BOOLEAN /\ missed \in BOOLEAN
    /\ sort_fn \in SortFns /\ reload \in SortFns \cup {"none"} /\ events \in 0..MaxEvents
Queued == queue \in Seq(Steps) /\ IsInjective(queue) /\ Range(queue) \subseteq runnable

(* The jobsets of steps and of builds are there. *)
There ==
    /\ \A s \in Steps : prio[s].jobsets \subseteq DOMAIN jobset
    /\ \A b \in DOMAIN global : JobsetOf[b] \in DOMAIN jobset

(* A jobset counts the rows R: those of the last SchedulingWindow, and the *)
(* older ones that were not pruned; its steps name some of them, one of    *)
(* each start.                                                             *)
Young(p, now) == {r \in Rows[p] : StartAge[r[2]] + now < SchedulingWindow}
Counts(j, p, now, R, k) ==
    /\ k \in [DOMAIN k -> R] /\ \A s \in DOMAIN k : k[s][2] = s
    /\ j = [steps |-> [s \in DOMAIN k |-> k[s][3]], seconds |-> Seconds(R), shares |-> j.shares]
    /\ j.shares \in SharesOf /\ Young(p, now) \subseteq R
Kept == \A p \in DOMAIN jobset : \E R \in SUBSET Rows[p] :
            \E k \in UNION {[D -> R] : D \in SUBSET (DOMAIN StartAge)} :
                Counts(jobset[p], p, elapsed, R, k)

(* A priority the monitor has read is the build's, or it will be notified; *)
(* a build's priority is at its steps, or it will be taken there: after    *)
(* the notification, or by the queue run that has read it.                 *)
AtSteps(b) == \A s \in NeedsOf[b] : prio[s].global >= dbprio[b]
InRun(b)   == \E i \in 1..Len(monitor.todo) : monitor.todo[i] = <<b, dbprio[b]>>
PrioArrive ==
    /\ \A i \in 1..Len(monitor.todo) :
          "bumped" \in notes \/ monitor.todo[i][2] = dbprio[monitor.todo[i][1]]
    /\ \A b \in DOMAIN global :
          \/ "bumped" \in notes \/ monitor.pc \in {"bumped", "read"} \/ AtSteps(b)
          \/ monitor.pc = "run" /\ InRun(b)

(* The same for the shares of jobsets. *)
SharesArrive ==
    /\ monitor.shares # <<>> =>
          "shares" \in notes \/ monitor.shares[2] = dbshares[monitor.shares[1]]
    /\ \A p \in DOMAIN jobset :
          \/ missed \/ "shares" \in notes \/ monitor.pc = "shares"
          \/ jobset[p].shares = dbshares[p]

(* The jobs of the queue are in the order of what they had when they were   *)
(* sorted.                                                                 *)
InOrder(q, fn, used) ==
    \A i, k \in 1..Len(q) : i < k => ~Before(fn, Info(q[k], used[q[k]]), Info(q[i], used[q[i]]))

IInv == Typed /\ Queued /\ There /\ Kept /\ PrioArrive /\ SharesArrive

-----------------------------------------------------------------------------
(* Sums.                                                                   *)

Pick(T) == CHOOSE x \in T : TRUE

(* g is the sum of f over every subset of S. *)
SumsTo(g, f, S) ==
    g = [T \in SUBSET S |-> IF T = {} THEN 0 ELSE f[Pick(T)] + g[T \ {Pick(T)}]]

LEMMA SumIs ==
    ASSUME NEW f, NEW S
    PROVE  SumFunctionOnSet(f, S) = (CHOOSE g : SumsTo(g, f, S))[S]
  BY DEF SumFunctionOnSet, FoldFunctionOnSet, MapThenFoldSet, SumsTo, Pick

(* Of subsets of a finite set one is the least. *)
LEMMA LeastSubset ==
    ASSUME NEW S, IsFiniteSet(S), NEW B \in SUBSET (SUBSET S), B # {}
    PROVE  \E T \in B : \A U \in B : U \subseteq T => U = T
  <1>1. IsWellFoundedOn(StrictSubsetOrdering(S), SUBSET S)
    BY FS_StrictSubsetOrderingWellFounded, FS_FiniteSubsetsOfFinite
  <1>2. PICK T \in B : \A U \in B : ~(<<U, T>> \in StrictSubsetOrdering(S))
    BY <1>1, WFMin
  <1>3. ASSUME NEW U \in B, U \subseteq T
        PROVE  U = T
    <2>1. <<U, T>> \in (SUBSET S) \X (SUBSET S) /\ <<U, T>>[1] = U /\ <<U, T>>[2] = T
      OBVIOUS
    <2> QED BY <1>2, <1>3, <2>1 DEF StrictSubsetOrdering
  <1> QED BY <1>3

LEMMA PickIn ==
    ASSUME NEW T, T # {}
    PROVE  Pick(T) \in T
  BY DEF Pick

(* There is one such function. *)
LEMMA SumsAgree ==
    ASSUME NEW S, IsFiniteSet(S), NEW A \in SUBSET S, NEW f, NEW g, NEW h,
           SumsTo(g, f, S), SumsTo(h, f, A)
    PROVE  \A T \in SUBSET A : g[T] = h[T]
  <1> DEFINE B == {T \in SUBSET A : g[T] # h[T]}
  <1> SUFFICES ASSUME B # {} PROVE FALSE
    OBVIOUS
  <1>1. IsFiniteSet(A) /\ B \in SUBSET (SUBSET A)
    BY FS_Subset
  <1>2. PICK T \in B : \A U \in B : U \subseteq T => U = T
    <2> HIDE DEF B
    <2> QED BY <1>1, LeastSubset
  <1>3. T \in SUBSET A /\ T \in SUBSET S /\ g[T] # h[T]
    OBVIOUS
  <1>4. /\ g[T] = IF T = {} THEN 0 ELSE f[Pick(T)] + g[T \ {Pick(T)}]
        /\ h[T] = IF T = {} THEN 0 ELSE f[Pick(T)] + h[T \ {Pick(T)}]
    BY <1>3, Zenon DEF SumsTo
  <1>5. T # {}
    BY <1>3, <1>4
  <1>6. T \ {Pick(T)} \in SUBSET A /\ T \ {Pick(T)} # T /\ T \ {Pick(T)} \subseteq T
    BY <1>3, <1>5, PickIn
  <1>7. g[T \ {Pick(T)}] = h[T \ {Pick(T)}]
    BY <1>2, <1>6
  <1> QED BY <1>3, <1>4, <1>5, <1>7

LEMMA SumsExist ==
    ASSUME NEW S, IsFiniteSet(S), NEW f
    PROVE  \E g : SumsTo(g, f, S)
  <1> DEFINE B == {T \in SUBSET S : ~\E g : SumsTo(g, f, T)}
  <1> SUFFICES ASSUME B # {} PROVE FALSE
    OBVIOUS
  <1>0. B \in SUBSET (SUBSET S)
    OBVIOUS
  <1>1. PICK T \in B : \A U \in B : U \subseteq T => U = T
    <2> HIDE DEF B
    <2> QED BY <1>0, LeastSubset
  <1>2. T \in SUBSET S /\ IsFiniteSet(T)
    BY FS_Subset
  <1> DEFINE h(U) == CHOOSE g : SumsTo(g, f, U)
  <1>3. ASSUME NEW U \in SUBSET T, U # T
        PROVE  SumsTo(h(U), f, U)
    <2>1. U \notin B /\ U \in SUBSET S
      BY <1>1, <1>2, <1>3
    <2> QED BY <2>1
  <1> DEFINE e(U) == h(U)[U]
             g == [U \in SUBSET T |-> IF U # T THEN e(U)
                                      ELSE IF U = {} THEN 0 ELSE f[Pick(U)] + e(U \ {Pick(U)})]
  <1> HIDE DEF h
  <1>4. ASSUME NEW U \in SUBSET T
        PROVE  g[U] = IF U = {} THEN 0 ELSE f[Pick(U)] + g[U \ {Pick(U)}]
    <2>1. CASE U = T
      <3>1. CASE T = {}
        BY <2>1, <3>1
      <3>2. CASE T # {}
        <4>1. T \ {Pick(T)} \in SUBSET T /\ T \ {Pick(T)} # T
          BY <3>2, PickIn
        <4> QED BY <2>1, <3>2, <4>1
      <3> QED BY <3>1, <3>2
    <2>2. CASE U # T
      <3>1. SumsTo(h(U), f, U) /\ IsFiniteSet(U) /\ g[U] = h(U)[U]
        BY <1>2, <1>3, <2>2, FS_Subset
      <3>2. h(U)[U] = IF U = {} THEN 0 ELSE f[Pick(U)] + h(U)[U \ {Pick(U)}]
        <4>1. U \in SUBSET U
          OBVIOUS
        <4> QED BY <3>1, <4>1, Zenon DEF SumsTo
      <3>3. CASE U = {}
        BY <3>1, <3>2, <3>3
      <3>4. CASE U # {}
        <4> DEFINE V == U \ {Pick(U)}
        <4>1. V \in SUBSET U /\ V \in SUBSET T /\ V # T /\ V \in SUBSET V
          BY <2>2, <3>4, PickIn
        <4>2. SumsTo(h(V), f, V) /\ g[V] = h(V)[V]
          BY <1>3, <4>1
        <4> HIDE DEF V
        <4>3. h(U)[V] = h(V)[V]
          BY <3>1, <4>1, <4>2, SumsAgree
        <4> QED BY <3>1, <3>2, <3>4, <4>2, <4>3 DEF V
      <3> QED BY <3>3, <3>4
    <2> QED BY <2>1, <2>2
  <1>5. g = [U \in SUBSET T |-> g[U]]
    OBVIOUS
  <1> HIDE DEF g, e
  <1>6. SumsTo(g, f, T)
    BY <1>4, <1>5, Zenon DEF SumsTo
  <1> QED BY <1>6

LEMMA SumStep ==
    ASSUME NEW S, IsFiniteSet(S), NEW f
    PROVE  SumFunctionOnSet(f, S) =
               IF S = {} THEN 0 ELSE f[Pick(S)] + SumFunctionOnSet(f, S \ {Pick(S)})
  <1> DEFINE h(U) == CHOOSE g : SumsTo(g, f, U)
             V == S \ {Pick(S)}
  <1>1. IsFiniteSet(V) /\ V \in SUBSET S /\ V \in SUBSET V /\ S \in SUBSET S
    BY FS_Subset
  <1>2. SumsTo(h(S), f, S) /\ SumsTo(h(V), f, V)
    BY <1>1, SumsExist
  <1>3. SumFunctionOnSet(f, S) = h(S)[S] /\ SumFunctionOnSet(f, V) = h(V)[V]
    BY SumIs
  <1> HIDE DEF h
  <1>4. h(S)[S] = IF S = {} THEN 0 ELSE f[Pick(S)] + h(S)[V]
    BY <1>1, <1>2, Zenon DEF SumsTo
  <1>5. h(S)[V] = h(V)[V]
    <2> HIDE DEF V
    <2> QED BY <1>1, <1>2, SumsAgree
  <1> QED BY <1>3, <1>4, <1>5

LEMMA SumNat ==
    ASSUME NEW S, IsFiniteSet(S), NEW f, \A x \in S : f[x] \in Nat
    PROVE  SumFunctionOnSet(f, S) \in Nat
  <1> DEFINE B == {T \in SUBSET S : SumFunctionOnSet(f, T) \notin Nat}
  <1> SUFFICES ASSUME B # {} PROVE FALSE
    OBVIOUS
  <1>1. B \in SUBSET (SUBSET S)
    OBVIOUS
  <1>2. PICK T \in B : \A U \in B : U \subseteq T => U = T
    <2> HIDE DEF B
    <2> QED BY <1>1, LeastSubset
  <1>3. T \in SUBSET S /\ IsFiniteSet(T) /\ SumFunctionOnSet(f, T) \notin Nat
    BY FS_Subset
  <1>4. SumFunctionOnSet(f, T) =
            IF T = {} THEN 0 ELSE f[Pick(T)] + SumFunctionOnSet(f, T \ {Pick(T)})
    BY <1>3, SumStep
  <1>5. T # {}
    BY <1>3, <1>4
  <1>6. Pick(T) \in T
    BY <1>5, PickIn
  <1>7. T \ {Pick(T)} \in SUBSET S /\ T \ {Pick(T)} # T /\ T \ {Pick(T)} \subseteq T
    BY <1>3, <1>6
  <1>8. SumFunctionOnSet(f, T \ {Pick(T)}) \in Nat
    BY <1>2, <1>7
  <1>9. f[Pick(T)] \in Nat
    BY <1>3, <1>6
  <1> HIDE DEF B
  <1> QED BY <1>3, <1>4, <1>5, <1>8, <1>9

(* Any element may be taken out. *)
LEMMA SumOne ==
    ASSUME NEW S, IsFiniteSet(S), NEW f, \A x \in S : f[x] \in Nat, NEW x \in S
    PROVE  SumFunctionOnSet(f, S) = f[x] + SumFunctionOnSet(f, S \ {x})
  <1> DEFINE Holds(T) == \A y \in T : SumFunctionOnSet(f, T) = f[y] + SumFunctionOnSet(f, T \ {y})
             B == {T \in SUBSET S : ~Holds(T)}
  <1> SUFFICES ASSUME B # {} PROVE FALSE
    <2>1. S \in SUBSET S
      OBVIOUS
    <2> QED BY <2>1
  <1>1. B \in SUBSET (SUBSET S)
    OBVIOUS
  <1>2. PICK T \in B : \A U \in B : U \subseteq T => U = T
    <2> HIDE DEF B
    <2> QED BY <1>1, LeastSubset
  <1>3. T \in SUBSET S /\ IsFiniteSet(T)
    BY FS_Subset
  <1>4. PICK y \in T : SumFunctionOnSet(f, T) # f[y] + SumFunctionOnSet(f, T \ {y})
    BY <1>2
  <1>5. ASSUME NEW U \in SUBSET T, U # T
        PROVE  Holds(U)
    <2>1. U \in SUBSET S /\ U \notin B
      BY <1>2, <1>3, <1>5
    <2> QED BY <2>1
  <1> DEFINE q == Pick(T)
  <1>6. q \in T /\ SumFunctionOnSet(f, T) = f[q] + SumFunctionOnSet(f, T \ {q})
    BY <1>3, SumStep, PickIn
  <1> HIDE DEF q, B
  <1>7. y # q
    BY <1>4, <1>6
  <1>8. Holds(T \ {q}) /\ y \in T \ {q} /\ Holds(T \ {y}) /\ q \in T \ {y}
    BY <1>5, <1>6, <1>7
  <1>9. (T \ {q}) \ {y} = (T \ {y}) \ {q}
    OBVIOUS
  <1> DEFINE r == SumFunctionOnSet(f, (T \ {y}) \ {q})
  <1>10. /\ SumFunctionOnSet(f, T \ {q}) = f[y] + r
         /\ SumFunctionOnSet(f, T \ {y}) = f[q] + r
    BY <1>8, <1>9
  <1>11. r \in Nat /\ f[y] \in Nat /\ f[q] \in Nat
    <2>1. (T \ {y}) \ {q} \in SUBSET S
      BY <1>3
    <2> QED BY <1>3, <1>6, <2>1, FS_Subset, SumNat
  <1> HIDE DEF Holds, r
  <1> QED BY <1>4, <1>6, <1>10, <1>11

(* A sum splits in two. *)
LEMMA SumSplit ==
    ASSUME NEW S, IsFiniteSet(S), NEW f, \A x \in S : f[x] \in Nat, NEW A \in SUBSET S
    PROVE  SumFunctionOnSet(f, S) = SumFunctionOnSet(f, A) + SumFunctionOnSet(f, S \ A)
  <1> DEFINE Holds(T) == SumFunctionOnSet(f, S) = SumFunctionOnSet(f, T) + SumFunctionOnSet(f, S \ T)
             B == {T \in SUBSET S : ~Holds(T)}
  <1> SUFFICES ASSUME B # {} PROVE FALSE
    OBVIOUS
  <1>1. B \in SUBSET (SUBSET S)
    OBVIOUS
  <1>2. PICK T \in B : \A U \in B : U \subseteq T => U = T
    <2> HIDE DEF B
    <2> QED BY <1>1, LeastSubset
  <1>3. T \in SUBSET S /\ IsFiniteSet(T) /\ ~Holds(T)
    BY FS_Subset
  <1>4. SumFunctionOnSet(f, {}) = 0
    BY SumStep, FS_EmptySet
  <1>5. \A U \in SUBSET S : IsFiniteSet(U) /\ SumFunctionOnSet(f, U) \in Nat
    BY FS_Subset, SumNat
  <1>6. T # {}
    <2> SUFFICES ASSUME T = {} PROVE FALSE
      OBVIOUS
    <2>1. S \ T = S /\ S \in SUBSET S
      OBVIOUS
    <2>2. SumFunctionOnSet(f, S) \in Nat
      BY <1>5, <2>1
    <2> QED BY <1>3, <1>4, <2>1, <2>2
  <1>7. PICK y \in T : TRUE
    BY <1>6
  <1>8. T \ {y} \in SUBSET S /\ T \ {y} # T /\ T \ {y} \subseteq T
    BY <1>3
  <1>9. Holds(T \ {y})
    BY <1>2, <1>8
  <1>10. SumFunctionOnSet(f, T) = f[y] + SumFunctionOnSet(f, T \ {y})
    BY <1>3, SumOne
  <1>11. SumFunctionOnSet(f, S \ (T \ {y})) = f[y] + SumFunctionOnSet(f, S \ T)
    <2>1. (S \ (T \ {y})) \ {y} = S \ T /\ y \in S \ (T \ {y}) /\ S \ (T \ {y}) \in SUBSET S
      BY <1>3
    <2>2. IsFiniteSet(S \ (T \ {y}))
      BY <1>5, <2>1
    <2>3. \A x \in S \ (T \ {y}) : f[x] \in Nat
      OBVIOUS
    <2>4. SumFunctionOnSet(f, S \ (T \ {y})) = f[y] + SumFunctionOnSet(f, (S \ (T \ {y})) \ {y})
      BY <2>1, <2>2, <2>3, SumOne
    <2> QED BY <2>1, <2>4
  <1>12. /\ SumFunctionOnSet(f, T \ {y}) \in Nat /\ SumFunctionOnSet(f, S \ T) \in Nat /\ f[y] \in Nat
    <2>1. S \ T \in SUBSET S /\ y \in S
      BY <1>3
    <2> QED BY <1>5, <1>8, <2>1
  <1> HIDE DEF B
  <1> QED BY <1>3, <1>9, <1>10, <1>11, <1>12

(* A sum may be taken over other names of the same things. *)
LEMMA SumImage ==
    ASSUME NEW A, IsFiniteSet(A), NEW f, NEW g, NEW k, NEW C, k \in [A -> C],
           \A a, b \in A : k[a] = k[b] => a = b,
           \A a \in A : g[a] = f[k[a]] /\ g[a] \in Nat
    PROVE  SumFunctionOnSet(g, A) = SumFunctionOnSet(f, {k[a] : a \in A})
  <1> DEFINE I(T) == {k[a] : a \in T}
             Holds(T) == SumFunctionOnSet(g, T) = SumFunctionOnSet(f, I(T))
             B == {T \in SUBSET A : ~Holds(T)}
  <1> SUFFICES ASSUME B # {} PROVE FALSE
    <2>1. A \in SUBSET A
      OBVIOUS
    <2> QED BY <2>1
  <1>1. B \in SUBSET (SUBSET A)
    OBVIOUS
  <1>2. PICK T \in B : \A U \in B : U \subseteq T => U = T
    <2> HIDE DEF B
    <2> QED BY <1>1, LeastSubset
  <1>3. T \in SUBSET A /\ IsFiniteSet(T) /\ ~Holds(T)
    BY FS_Subset
  <1>4. SumFunctionOnSet(f, {}) = 0 /\ SumFunctionOnSet(g, {}) = 0
    BY SumStep, FS_EmptySet
  <1>5. T # {}
    BY <1>3, <1>4
  <1>6. PICK y \in T : TRUE
    BY <1>5
  <1>7. T \ {y} \in SUBSET A /\ T \ {y} # T /\ T \ {y} \subseteq T
    BY <1>3
  <1>8. Holds(T \ {y})
    BY <1>2, <1>7
  <1>9. SumFunctionOnSet(g, T) = g[y] + SumFunctionOnSet(g, T \ {y})
    BY <1>3, SumOne
  <1>10. IsFiniteSet(I(T))
    <2>1. [a \in T |-> k[a]] \in Surjection(T, I(T))
      BY <1>3 DEF Surjection
    <2> HIDE DEF I
    <2> QED BY <1>3, <2>1, FS_Surjection
  <1>11. I(T) \ {k[y]} = I(T \ {y}) /\ k[y] \in I(T) /\ \A c \in I(T) : f[c] \in Nat
    BY <1>3
  <1>12. SumFunctionOnSet(f, I(T)) = f[k[y]] + SumFunctionOnSet(f, I(T \ {y}))
    <2> HIDE DEF I
    <2>1. SumFunctionOnSet(f, I(T)) = f[k[y]] + SumFunctionOnSet(f, I(T) \ {k[y]})
      BY <1>10, <1>11, SumOne
    <2> QED BY <1>11, <2>1
  <1>13. g[y] = f[k[y]]
    BY <1>3
  <1> HIDE DEF B, I
  <1> QED BY <1>3, <1>8, <1>9, <1>12, <1>13

-----------------------------------------------------------------------------
(* The orders.                                                             *)

JobInfo == [global : Nat, local : Nat, id : Nat, rdeps : Nat, share : Used]

LEMMA TimesMono ==
    ASSUME NEW a \in Nat, NEW b \in Nat, NEW c \in Nat
    PROVE  /\ a * c \in Nat /\ a * c = c * a
           /\ a <= b => a * c <= b * c
           /\ a < b /\ c > 0 => a * c < b * c
           /\ a * c < b * c => a < b
  BY SMT

LEMMA TimesAssoc ==
    ASSUME NEW a \in Nat, NEW b \in Nat, NEW c \in Nat
    PROVE  (a * b) * c = (a * c) * b
  BY SMT

(* The numbers of a share that is not above another, and that one not      *)
(* above a third.                                                          *)
LEMMA RatioOrder ==
    ASSUME NEW a \in Nat, NEW b \in Nat, NEW c \in Nat,
           NEW p \in Nat \ {0}, NEW q \in Nat \ {0}, NEW r \in Nat \ {0},
           a * q <= b * p, b * r <= c * q
    PROVE  /\ a * r <= c * p
           /\ a * q < b * p \/ b * r < c * q => a * r < c * p
  <1>1. /\ a * q \in Nat /\ b * p \in Nat /\ b * r \in Nat /\ c * q \in Nat
        /\ a * r \in Nat /\ c * p \in Nat
    BY TimesMono
  <1>2. (a * q) * r <= (b * p) * r /\ (a * q < b * p => (a * q) * r < (b * p) * r)
    BY <1>1, TimesMono
  <1>3. (b * r) * p <= (c * q) * p /\ (b * r < c * q => (b * r) * p < (c * q) * p)
    BY <1>1, TimesMono
  <1>4. (a * q) * r = (a * r) * q /\ (b * p) * r = (b * r) * p /\ (c * q) * p = (c * p) * q
    BY TimesAssoc
  <1>5. (a * r) * q \in Nat /\ (b * r) * p \in Nat /\ (c * p) * q \in Nat
    BY <1>1, TimesMono
  <1>6. (a * r) * q <= (c * p) * q
    BY <1>2, <1>3, <1>4, <1>5
  <1>7. a * q < b * p \/ b * r < c * q => (a * r) * q < (c * p) * q
    BY <1>2, <1>3, <1>4, <1>5
  <1>8. c * p < a * r => (c * p) * q < (a * r) * q
    BY <1>1, TimesMono
  <1>9. (a * r) * q < (c * p) * q => a * r < c * p
    BY <1>1, TimesMono
  <1> QED BY <1>1, <1>5, <1>6, <1>7, <1>8, <1>9

LEMMA UsedOrder ==
    /\ \A u \in Used : ~LessUsed(u, u)
    /\ \A u, v \in Used : ~(LessUsed(u, v) /\ LessUsed(v, u))
    /\ \A u, v, w \in Used : ~LessUsed(v, u) /\ ~LessUsed(w, v) => ~LessUsed(w, u)
    /\ \A u, v, w \in Used : LessUsed(u, v) /\ ~LessUsed(w, v) => LessUsed(u, w)
    /\ \A u, v, w \in Used : ~LessUsed(v, u) /\ LessUsed(v, w) => LessUsed(u, w)
  <1>1. \A u, v \in Used : /\ u[1] * v[2] \in Nat
                           /\ u[1] \in Nat /\ u[2] \in Nat \ {0}
    BY TimesMono DEF Used
  <1>2. ASSUME NEW u \in Used, NEW v \in Used, NEW w \in Used, ~LessUsed(v, u), ~LessUsed(w, v)
        PROVE  /\ ~LessUsed(w, u)
               /\ LessUsed(u, v) \/ LessUsed(v, w) => LessUsed(u, w)
    <2>1. u[1] * v[2] <= v[1] * u[2] /\ v[1] * w[2] <= w[1] * v[2]
      BY <1>1, <1>2 DEF LessUsed
    <2>2. /\ u[1] * w[2] <= w[1] * u[2]
          /\ u[1] * v[2] < v[1] * u[2] \/ v[1] * w[2] < w[1] * v[2] => u[1] * w[2] < w[1] * u[2]
      <3>1. /\ u[1] \in Nat /\ v[1] \in Nat /\ w[1] \in Nat
            /\ u[2] \in Nat \ {0} /\ v[2] \in Nat \ {0} /\ w[2] \in Nat \ {0}
        BY <1>1
      <3>2. PICK a \in Nat, b \in Nat, c \in Nat, p \in Nat \ {0}, q \in Nat \ {0}, r \in Nat \ {0} :
                /\ a = u[1] /\ b = v[1] /\ c = w[1]
                /\ p = u[2] /\ q = v[2] /\ r = w[2]
        BY <3>1
      <3>3. a * q <= b * p /\ b * r <= c * q
        BY <2>1, <3>2
      <3>4. /\ a * r <= c * p
            /\ a * q < b * p \/ b * r < c * q => a * r < c * p
        BY <3>3, RatioOrder
      <3> QED BY <3>2, <3>4
    <2> QED BY <1>1, <2>2 DEF LessUsed
  <1>3. \A u, v \in Used : ~(LessUsed(u, v) /\ LessUsed(v, u))
    BY <1>1 DEF LessUsed
  <1> QED BY <1>2, <1>3

(* What a sort needs of a comparison. *)
LEMMA BeforeOrder ==
    ASSUME NEW fn \in SortFns
    PROVE  /\ \A a \in JobInfo : ~Before(fn, a, a)
           /\ \A a, b \in JobInfo : ~(Before(fn, a, b) /\ Before(fn, b, a))
           /\ \A a, b, c \in JobInfo : Before(fn, a, b) /\ Before(fn, b, c) => Before(fn, a, c)
           /\ \A a, b, c \in JobInfo :
                 ~Before(fn, b, a) /\ ~Before(fn, c, b) => ~Before(fn, c, a)
  <1> USE DEF JobInfo
  <1>1. ASSUME NEW a \in JobInfo, NEW b \in JobInfo
        PROVE  ~(Before(fn, a, b) /\ Before(fn, b, a))
    BY UsedOrder DEF Before, SortFns, legacy_compare, compare_with_rdeps, SameShare
  <1>2. ASSUME NEW a \in JobInfo, NEW b \in JobInfo, NEW c \in JobInfo,
               ~Before(fn, b, a), ~Before(fn, c, b)
        PROVE  ~Before(fn, c, a)
    <2>1. \A u, v, w \in {a.share, b.share, c.share} :
              /\ ~(LessUsed(u, v) /\ LessUsed(v, u))
              /\ ~LessUsed(v, u) /\ ~LessUsed(w, v) => ~LessUsed(w, u)
              /\ LessUsed(u, v) /\ ~LessUsed(w, v) => LessUsed(u, w)
              /\ ~LessUsed(v, u) /\ LessUsed(v, w) => LessUsed(u, w)
      BY UsedOrder
    <2>2. CASE fn = "Legacy"
      BY <1>2, <2>1, <2>2 DEF Before, legacy_compare, SameShare
    <2>3. CASE fn # "Legacy"
      BY <1>2, <2>1, <2>3 DEF Before, compare_with_rdeps, SameShare
    <2> QED BY <2>2, <2>3
  <1>3. ASSUME NEW a \in JobInfo, NEW b \in JobInfo, NEW c \in JobInfo,
               Before(fn, a, b), Before(fn, b, c)
        PROVE  Before(fn, a, c)
    <2>1. \A u, v, w \in {a.share, b.share, c.share} :
              /\ ~(LessUsed(u, v) /\ LessUsed(v, u))
              /\ ~LessUsed(v, u) /\ ~LessUsed(w, v) => ~LessUsed(w, u)
              /\ LessUsed(u, v) /\ ~LessUsed(w, v) => LessUsed(u, w)
              /\ ~LessUsed(v, u) /\ LessUsed(v, w) => LessUsed(u, w)
      BY UsedOrder
    <2>2. CASE fn = "Legacy"
      BY <1>3, <2>1, <2>2 DEF Before, legacy_compare, SameShare
    <2>3. CASE fn # "Legacy"
      BY <1>3, <2>1, <2>3 DEF Before, compare_with_rdeps, SameShare
    <2> QED BY <2>2, <2>3
  <1> QED BY <1>1, <1>2, <1>3

-----------------------------------------------------------------------------
(* Least and largest elements.                                             *)

(* get_lowest_share_used finds a share. *)
LEMMA LowestIn ==
    ASSUME NEW used \in SUBSET Used, IsFiniteSet(used)
    PROVE  LowestShareUsed(used) \in Used
  <1> DEFINE Low(T, u) == \A v \in T : ~LessUsed(v, u)
             B == {T \in SUBSET used : T # {} /\ ~\E u \in T : Low(T, u)}
  <1>1. B = {}
    <2> SUFFICES ASSUME B # {} PROVE FALSE
      OBVIOUS
    <2>1. B \in SUBSET (SUBSET used)
      OBVIOUS
    <2>2. PICK T \in B : \A U \in B : U \subseteq T => U = T
      <3> HIDE DEF B
      <3> QED BY <2>1, LeastSubset
    <2>3. T \in SUBSET used /\ T # {} /\ ~\E u \in T : Low(T, u)
      OBVIOUS
    <2>4. PICK x \in T : TRUE
      BY <2>3
    <2>5. T \ {x} \notin B /\ T \ {x} \in SUBSET used
      BY <2>2, <2>3
    <2>6. CASE T \ {x} = {}
      BY <2>3, <2>6, UsedOrder
    <2>7. CASE \E u \in T \ {x} : Low(T \ {x}, u)
      <3>1. PICK u \in T \ {x} : Low(T \ {x}, u)
        BY <2>7
      <3>2. CASE LessUsed(x, u)
        <4>1. \A v \in T : ~LessUsed(v, x)
          BY <2>3, <3>1, <3>2, UsedOrder
        <4> QED BY <2>3, <4>1
      <3>3. CASE ~LessUsed(x, u)
        BY <2>3, <3>1, <3>3
      <3> QED BY <3>2, <3>3
    <2> QED BY <2>5, <2>6, <2>7
  <1>2. used # {} => \E u \in used : \A v \in used : ~LessUsed(v, u)
    <2>1. used \in SUBSET used
      OBVIOUS
    <2> QED BY <1>1, <2>1
  <1>3. NoJobset \in Used
    BY DEF NoJobset, Used
  <1> HIDE DEF B
  <1> QED BY <1>2, <1>3 DEF LowestShareUsed

LEMMA MaxOf ==
    ASSUME NEW S, IsFiniteSet(S), S # {}, \A x \in S : x \in Nat
    PROVE  Max(S) \in S /\ \A x \in S : Max(S) >= x
  <1> DEFINE Top(T, x) == \A y \in T : x >= y
             B == {T \in SUBSET S : T # {} /\ ~\E x \in T : Top(T, x)}
  <1>1. B = {}
    <2> SUFFICES ASSUME B # {} PROVE FALSE
      OBVIOUS
    <2>1. B \in SUBSET (SUBSET S)
      OBVIOUS
    <2>2. PICK T \in B : \A U \in B : U \subseteq T => U = T
      <3> HIDE DEF B
      <3> QED BY <2>1, LeastSubset
    <2>3. T \in SUBSET S /\ T # {} /\ ~\E x \in T : Top(T, x)
      OBVIOUS
    <2>4. PICK x \in T : TRUE
      BY <2>3
    <2>5. T \ {x} \notin B /\ T \ {x} \in SUBSET S
      BY <2>2, <2>3
    <2>6. CASE T \ {x} = {}
      BY <2>3, <2>6
    <2>7. CASE \E y \in T \ {x} : Top(T \ {x}, y)
      <3>1. PICK y \in T \ {x} : Top(T \ {x}, y)
        BY <2>7
      <3>2. x \in Nat /\ y \in Nat /\ \A z \in T : z \in Nat
        BY <2>3
      <3>3. CASE x > y
        <4>1. \A z \in T : x >= z
          BY <3>1, <3>2, <3>3
        <4> QED BY <2>3, <4>1
      <3>4. CASE y >= x
        BY <2>3, <3>1, <3>4
      <3> QED BY <3>2, <3>3, <3>4
    <2> QED BY <2>5, <2>6, <2>7
  <1>2. \E x \in S : \A y \in S : x >= y
    <2>1. S \in SUBSET S
      OBVIOUS
    <2> QED BY <1>1, <2>1
  <1> HIDE DEF B
  <1> QED BY <1>2 DEF Max

Smaller == {p \in Nat \X Nat : p[1] < p[2]}

LEMMA MinOf ==
    ASSUME NEW S \in SUBSET Nat, S # {}
    PROVE  Min(S) \in S
  <1>1. IsWellFoundedOn(Smaller, Nat)
    <2>1. OpToRel(<, Nat) = Smaller
      BY DEF OpToRel, Smaller
    <2> QED BY <2>1, NatLessThanWellFounded
  <1>2. PICK x \in S : \A y \in S : ~(<<y, x>> \in Smaller)
    BY <1>1, WFMin
  <1>3. \A y \in S : x <= y
    <2> TAKE y \in S
    <2>1. x \in Nat /\ y \in Nat /\ <<y, x>> \in Nat \X Nat /\ <<y, x>> \notin Smaller
      BY <1>2
    <2>2. ~(<<y, x>>[1] < <<y, x>>[2])
      BY <2>1 DEF Smaller
    <2> QED BY <2>1, <2>2
  <1> QED BY <1>3 DEF Min

LEMMA MaxIdNat == MaxId \in Nat
  BY SharesAssumption, MaxOf DEF MaxId

-----------------------------------------------------------------------------
(* Sequences of jobs.                                                      *)

(* A sort puts the jobs into the order, each of them once. *)
LEMMA SortKeeps ==
    ASSUME NEW js \in Seq(Steps), IsInjective(js), NEW fn \in SortFns, NEW info \in [Steps -> JobInfo]
    PROVE  LET less(s, t) == Before(fn, info[s], info[t])
               out == StableSort(js, less)
           IN /\ out \in Seq(Steps) /\ Range(out) = Range(js) /\ IsInjective(out)
              /\ \A i, k \in 1..Len(out) : i < k => ~less(out[k], out[i])
  <1> DEFINE less(s, t) == Before(fn, info[s], info[t])
             first(k, i) == IF k < i THEN ~less(js[i], js[k]) ELSE less(js[k], js[i])
             R(i) == {k \in 1..Len(js) : k = i \/ first(k, i)}
             rank(i) == Cardinality(R(i))
             N == Len(js)
             out == [i \in 1..N |-> js[CHOOSE k \in 1..N : rank(k) = i]]
  <1>1. StableSort(js, less) = out
    BY DEF StableSort
  <1>2. N \in Nat /\ \A i \in 1..N : js[i] \in Steps /\ info[js[i]] \in JobInfo
    OBVIOUS
  <1>3. /\ \A i, k \in 1..N : ~(less(js[i], js[k]) /\ less(js[k], js[i]))
        /\ \A i, k, l \in 1..N : less(js[i], js[k]) /\ less(js[k], js[l]) => less(js[i], js[l])
        /\ \A i, k, l \in 1..N : ~less(js[k], js[i]) /\ ~less(js[l], js[k]) => ~less(js[l], js[i])
    BY <1>2, BeforeOrder
  <1> HIDE DEF less
  <1>5. \A i, k \in 1..N : i # k => first(i, k) \/ first(k, i)
    BY <1>2
  <1>6. \A i, k \in 1..N : i # k => ~(first(i, k) /\ first(k, i))
    BY <1>2
  <1>7. ASSUME NEW i \in 1..N, NEW k \in 1..N, NEW l \in 1..N, first(i, k), first(k, l)
        PROVE  first(i, l)
    BY <1>2, <1>3, <1>7
  <1> HIDE DEF first
  <1>10. \A i \in 1..N : IsFiniteSet(R(i)) /\ rank(i) \in 1..N
    <2> TAKE i \in 1..N
    <2>1. IsFiniteSet(1..N) /\ Cardinality(1..N) = N
      BY <1>2, FS_Interval
    <2>2. R(i) \in SUBSET (1..N)
      OBVIOUS
    <2>3. IsFiniteSet(R(i)) /\ Cardinality(R(i)) <= N
      BY <2>1, <2>2, FS_Subset
    <2>4. Cardinality(R(i)) \in Nat
      BY <2>3, FS_CardinalityType
    <2>5. i \in R(i)
      OBVIOUS
    <2>6. Cardinality(R(i)) # 0
      BY <2>3, <2>5, FS_EmptySet
    <2> QED BY <2>3, <2>4, <2>6, <1>2
  <1>11. ASSUME NEW i \in 1..N, NEW k \in 1..N, i # k, first(i, k)
         PROVE  rank(i) < rank(k)
    <2>1. R(i) \in SUBSET R(k)
      BY <1>7, <1>11
    <2>2. k \in R(k) /\ k \notin R(i)
      BY <1>6, <1>11
    <2>3. R(i) # R(k)
      BY <2>2
    <2> HIDE DEF R
    <2> QED BY <2>1, <2>3, <1>10, FS_Subset
  <1> DEFINE rk == [i \in 1..N |-> rank(i)]
  <1> HIDE DEF R
  <1>12. rk \in Injection(1..N, 1..N)
    <2>1. rk \in [1..N -> 1..N]
      BY <1>10
    <2>2. ASSUME NEW i \in 1..N, NEW k \in 1..N, rk[i] = rk[k]
          PROVE  i = k
      <3>1. rank(i) \in Nat /\ rank(k) \in Nat /\ rank(i) = rank(k)
        BY <2>2, <1>10, <1>2
      <3> QED BY <3>1, <1>5, <1>11
    <2> QED BY <2>1, <2>2 DEF Injection, IsInjective
  <1>13. rk \in Surjection(1..N, 1..N)
    BY <1>12, <1>2, FS_Interval, FS_Injection
  <1>14. \A i \in 1..N : \E k \in 1..N : rank(k) = i
    <2> TAKE i \in 1..N
    <2>1. PICK k \in 1..N : rk[k] = i
      BY <1>13 DEF Surjection
    <2> QED BY <2>1
  <1> DEFINE at(i) == CHOOSE k \in 1..N : rank(k) = i
  <1>15. \A i \in 1..N : at(i) \in 1..N /\ rank(at(i)) = i
    BY <1>14
  <1>16. out = [i \in 1..N |-> js[at(i)]]
    OBVIOUS
  <1> HIDE DEF at, out
  <1>17. out \in [1..N -> Steps] /\ out \in Seq(Steps) /\ Len(out) = N /\ DOMAIN out = 1..N
    BY <1>2, <1>15, <1>16
  <1>18. IsInjective(out)
    <2>1. ASSUME NEW i \in 1..N, NEW k \in 1..N, out[i] = out[k]
          PROVE  i = k
      <3>1. js[at(i)] = js[at(k)] /\ at(i) \in DOMAIN js /\ at(k) \in DOMAIN js
        BY <2>1, <1>15, <1>16, <1>2
      <3>2. at(i) = at(k)
        BY <3>1 DEF IsInjective
      <3> QED BY <3>2, <1>15
    <2> QED BY <2>1, <1>17 DEF IsInjective
  <1>19. Range(out) = Range(js)
    <2>1. \A i \in 1..N : out[i] \in Range(js)
      BY <1>15, <1>16, <1>2 DEF Range
    <2>2. ASSUME NEW k \in 1..N
          PROVE  js[k] \in Range(out)
      <3>1. rank(k) \in 1..N
        BY <1>10
      <3>2. at(rank(k)) \in 1..N /\ rank(at(rank(k))) = rank(k)
        BY <3>1, <1>15
      <3>3. at(rank(k)) = k
        BY <3>1, <3>2, <1>5, <1>11
      <3>4. out[rank(k)] = js[k] /\ rank(k) \in DOMAIN out
        BY <3>1, <3>3, <1>16
      <3> QED BY <3>4 DEF Range
    <2> QED BY <2>1, <2>2, <1>2, <1>17 DEF Range
  <1>20. ASSUME NEW i \in 1..N, NEW k \in 1..N, i < k
         PROVE  ~less(out[k], out[i])
    <2>1. at(i) \in 1..N /\ at(k) \in 1..N /\ rank(at(i)) = i /\ rank(at(k)) = k
      BY <1>15
    <2>2. at(i) # at(k)
      BY <2>1, <1>20
    <2>3. ~first(at(k), at(i))
      BY <2>1, <2>2, <1>20, <1>11, <1>2
    <2>4. first(at(i), at(k))
      BY <2>1, <2>2, <2>3, <1>5
    <2> QED BY <2>1, <2>2, <2>4, <1>2, <1>3, <1>16 DEF first
  <1> QED BY <1>1, <1>17, <1>18, <1>19, <1>20 DEF less

(* EndStep takes a job out of the queue. *)
LEMMA RemoveKeeps ==
    ASSUME NEW js \in Seq(Steps), NEW i \in 1..Len(js), IsInjective(js)
    PROVE  /\ RemoveAt(js, i) \in Seq(Steps)
           /\ IsInjective(RemoveAt(js, i))
           /\ Range(RemoveAt(js, i)) \subseteq Range(js) \ {js[i]}
  <1> DEFINE N == Len(js)
             out == RemoveAt(js, i)
             at(k) == IF k < i THEN k ELSE k + 1
  <1>1. N \in Nat /\ i \in 1..N
    OBVIOUS
  <1>2. /\ SubSeq(js, 1, i - 1) \in Seq(Steps) /\ Len(SubSeq(js, 1, i - 1)) = i - 1
        /\ \A k \in 1..(i - 1) : SubSeq(js, 1, i - 1)[k] = js[k]
    BY <1>1
  <1>3. /\ SubSeq(js, i + 1, N) \in Seq(Steps) /\ Len(SubSeq(js, i + 1, N)) = N - i
        /\ \A k \in 1..(N - i) : SubSeq(js, i + 1, N)[k] = js[k + i]
    BY <1>1
  <1> DEFINE a == SubSeq(js, 1, i - 1)
             b == SubSeq(js, i + 1, N)
  <1>r. out = a \o b
    BY DEF RemoveAt
  <1> HIDE DEF a, b, out
  <1>c. /\ a \o b \in Seq(Steps) /\ Len(a \o b) = Len(a) + Len(b)
        /\ \A k \in 1..(Len(a) + Len(b)) : (a \o b)[k] = IF k <= Len(a) THEN a[k] ELSE b[k - Len(a)]
    BY <1>2, <1>3, ConcatProperties DEF a, b
  <1>d. Len(a) = i - 1 /\ Len(b) = N - i
    BY <1>2, <1>3 DEF a, b
  <1>4. out \in Seq(Steps) /\ Len(out) = N - 1
    BY <1>1, <1>r, <1>c, <1>d
  <1>5. ASSUME NEW k \in 1..(N - 1)
        PROVE  out[k] = js[at(k)]
    <2>1. out[k] = IF k <= i - 1 THEN a[k] ELSE b[k - (i - 1)]
      BY <1>1, <1>r, <1>c, <1>d
    <2>2. CASE k < i
      BY <2>1, <2>2, <1>1, <1>2 DEF a
    <2>3. CASE k >= i
      <3>1. k - (i - 1) \in 1..(N - i) /\ k - (i - 1) + i = k + 1 /\ ~(k < i) /\ ~(k <= i - 1)
        BY <2>3, <1>1
      <3> QED BY <2>1, <3>1, <1>3 DEF b
    <2> QED BY <2>2, <2>3, <1>1
  <1>6. \A k \in 1..(N - 1) : at(k) \in 1..N /\ at(k) # i
    BY <1>1
  <1>7. \A k, l \in 1..(N - 1) : k < l <=> at(k) < at(l)
    BY <1>1
  <1> HIDE DEF at
  <1>8. IsInjective(out)
    <2>1. DOMAIN out = 1..(N - 1) /\ DOMAIN js = 1..N
      BY <1>1, <1>4
    <2>2. ASSUME NEW k \in 1..(N - 1), NEW l \in 1..(N - 1), out[k] = out[l]
          PROVE  k = l
      <3>1. at(k) = at(l)
        BY <2>1, <2>2, <1>5, <1>6 DEF IsInjective
      <3> QED BY <3>1, <1>1, <1>6, <1>7
    <2> QED BY <2>1, <2>2 DEF IsInjective
  <1>9. Range(out) \subseteq Range(js) \ {js[i]}
    <2>1. DOMAIN out = 1..(N - 1) /\ DOMAIN js = 1..N
      BY <1>1, <1>4
    <2>2. ASSUME NEW k \in 1..(N - 1)
          PROVE  out[k] \in Range(js) \ {js[i]}
      BY <1>1, <1>5, <1>6, <2>1 DEF IsInjective, Range
    <2> QED BY <2>1, <2>2 DEF Range
  <1> QED BY <1>4, <1>8, <1>9 DEF out

(* The new jobs, in some order. *)
LEMMA NewJobs ==
    ASSUME NEW S \in SUBSET Steps
    PROVE  SetToSeq(S) \in Seq(Steps) /\ IsInjective(SetToSeq(S)) /\ Range(SetToSeq(S)) = S
  <1>1. IsFiniteSet(S)
    BY SharesAssumption, FS_Subset
  <1>2. Cardinality(S) \in Nat /\ \E f : f \in Bijection(1..Cardinality(S), S)
    BY <1>1, FS_CardinalityType, Zenon DEF ExistsBijection
  <1>3. \E f \in [1..Cardinality(S) -> S] : IsInjective(f)
    BY <1>2 DEF Bijection, Injection, IsInjective
  <1>4. SetToSeq(S) \in [1..Cardinality(S) -> S] /\ IsInjective(SetToSeq(S))
    BY <1>3 DEF SetToSeq
  <1>5. SetToSeq(S) \in Surjection(1..Cardinality(S), S)
    <2> DEFINE N == Cardinality(S)
               f == SetToSeq(S)
    <2>1. f \in Injection(1..N, S)
      BY <1>4 DEF Injection
    <2>2. N \in Nat /\ Cardinality(1..N) = N
      BY <1>2, FS_Interval
    <2> HIDE DEF f
    <2>3. f \in Surjection(1..N, S)
      BY <1>1, <2>1, <2>2, FS_Injection
    <2> QED BY <2>3 DEF f
  <1>6. SetToSeq(S) \in [1..Cardinality(S) -> Steps] /\ Range(SetToSeq(S)) = S
    BY <1>4, <1>5 DEF Range, Surjection
  <1> QED BY <1>2, <1>4, <1>6, SeqDef

LEMMA ConcatKeeps ==
    ASSUME NEW a \in Seq(Steps), NEW b \in Seq(Steps), IsInjective(a), IsInjective(b),
           Range(a) \cap Range(b) = {}
    PROVE  a \o b \in Seq(Steps) /\ IsInjective(a \o b) /\ Range(a \o b) = Range(a) \cup Range(b)
  <1> DEFINE M == Len(a)
             N == Len(b)
             ab == a \o b
  <1>1. /\ M \in Nat /\ N \in Nat /\ DOMAIN a = 1..M /\ DOMAIN b = 1..N
        /\ ab \in Seq(Steps) /\ DOMAIN ab = 1..(M + N)
        /\ \A i \in 1..(M + N) : ab[i] = IF i <= M THEN a[i] ELSE b[i - M]
    BY ConcatProperties
  <1> HIDE DEF M, N, ab
  <1>2. ASSUME NEW i \in 1..(M + N)
        PROVE  /\ i <= M => i \in DOMAIN a /\ ab[i] = a[i] /\ ab[i] \in Range(a)
               /\ i > M => i - M \in DOMAIN b /\ ab[i] = b[i - M] /\ ab[i] \in Range(b)
    <2>1. CASE i <= M
      BY <1>1, <2>1 DEF Range
    <2>2. CASE i > M
      <3>1. i - M \in 1..N
        BY <1>1, <2>2
      <3>2. ab[i] = b[i - M] /\ ~(i <= M)
        BY <1>1, <2>2
      <3>3. i - M \in DOMAIN b
        BY <1>1, <3>1
      <3>4. b[i - M] \in Range(b)
        BY <3>3, Zenon DEF Range
      <3> QED BY <3>2, <3>3, <3>4
    <2> QED BY <1>1, <2>1, <2>2
  <1>3. ASSUME NEW i \in 1..(M + N), NEW k \in 1..(M + N), ab[i] = ab[k]
        PROVE  i = k
    <2>1. CASE i <= M /\ k <= M
      BY <1>2, <1>3, <2>1 DEF IsInjective
    <2>2. CASE i > M /\ k > M
      <3>1. i - M = k - M
        BY <1>2, <1>3, <2>2 DEF IsInjective
      <3> QED BY <1>1, <3>1
    <2>3. ~(i <= M /\ k > M) /\ ~(i > M /\ k <= M)
      BY <1>2, <1>3
    <2> QED BY <1>1, <2>1, <2>2, <2>3
  <1>4. Range(ab) \subseteq Range(a) \cup Range(b)
    <2>1. \A i \in 1..(M + N) : ab[i] \in Range(a) \cup Range(b)
      BY <1>1, <1>2
    <2> QED BY <1>1, <2>1 DEF Range
  <1>5. Range(a) \cup Range(b) \subseteq Range(ab)
    <2>1. ASSUME NEW i \in 1..M
          PROVE  a[i] \in Range(ab)
      <3>1. i \in DOMAIN ab /\ ab[i] = a[i]
        BY <1>1
      <3> QED BY <3>1, Zenon DEF Range
    <2>2. ASSUME NEW i \in 1..N
          PROVE  b[i] \in Range(ab)
      <3>1. i + M \in 1..(M + N) /\ ~(i + M <= M) /\ (i + M) - M = i
        BY <1>1
      <3>2. i + M \in DOMAIN ab /\ ab[i + M] = b[i]
        BY <1>1, <3>1
      <3> QED BY <3>2, Zenon DEF Range
    <2> QED BY <1>1, <2>1, <2>2 DEF Range
  <1> QED BY <1>1, <1>3, <1>4, <1>5 DEF IsInjective, ab

-----------------------------------------------------------------------------
(* What the actions are made of.                                           *)

LEMMA RowFacts ==
    ASSUME NEW p \in Jobsets, NEW R \in SUBSET Rows[p]
    PROVE  /\ IsFiniteSet(R) /\ Seconds(R) \in Nat
           /\ \A r \in R : /\ r[2] \in DOMAIN StartAge /\ r[3] \in Nat
                           /\ Duration[r] = r[3] /\ StartAge[r[2]] \in Nat
  <1>1. IsFiniteSet(R)
    BY SharesAssumption, FS_Subset
  <1>2. \A r \in R : /\ r[2] \in DOMAIN StartAge /\ r[3] \in Nat
                     /\ Duration[r] = r[3] /\ StartAge[r[2]] \in Nat
    <2> TAKE r \in R
    <2>1. r \in Nat \X (DOMAIN StartAge) \X Nat /\ r \in UNION {Rows[q] : q \in Jobsets}
      BY SharesAssumption
    <2>2. StartAge \in [DOMAIN StartAge -> Nat]
      BY SharesAssumption
    <2> QED BY <2>1, <2>2 DEF Duration
  <1>3. \A r \in R : Duration[r] \in Nat
    BY <1>2
  <1>4. Seconds(R) \in Nat
    BY <1>1, <1>3, SumNat DEF Seconds
  <1> QED BY <1>1, <1>2, <1>4

(* prune_steps takes the seconds of what it forgets from those it counts,  *)
(* and forgets nothing that is younger than the window.                    *)
LEMMA PruneCounts ==
    ASSUME NEW p \in Jobsets, elapsed \in Nat, NEW R \in SUBSET Rows[p], NEW k,
           Counts(jobset[p], p, elapsed, R, k), DOMAIN k \subseteq DOMAIN StartAge
    PROVE  \E S \in SUBSET Rows[p] : \E l \in UNION {[D -> S] : D \in SUBSET (DOMAIN StartAge)} :
               Counts(PruneSteps(p), p, elapsed, S, l) /\ PruneSteps(p).shares = jobset[p].shares
  <1> DEFINE old == {s \in DOMAIN k : StartAge[s] + elapsed >= SchedulingWindow}
             steps == [s \in DOMAIN k |-> k[s][3]]
             Out == {k[s] : s \in old}
             S == R \ Out
             D == DOMAIN k \ old
             l == [s \in D |-> k[s]]
  <1>1. /\ k \in [DOMAIN k -> R] /\ \A s \in DOMAIN k : k[s][2] = s /\ k[s] \in R
        /\ jobset[p] = [steps |-> steps, seconds |-> Seconds(R), shares |-> jobset[p].shares]
        /\ jobset[p].shares \in SharesOf /\ Young(p, elapsed) \subseteq R
    BY DEF Counts
  <1>2. \A s, t \in DOMAIN k : k[s] = k[t] => s = t
    BY <1>1
  <1>3. IsFiniteSet(old)
    <2>1. IsFiniteSet({r[2] : r \in R})
      <3> DEFINE T == {r[2] : r \in R}
      <3>1. [r \in R |-> r[2]] \in Surjection(R, T)
        BY DEF Surjection
      <3>2. IsFiniteSet(R)
        BY RowFacts
      <3> HIDE DEF T
      <3> QED BY <3>1, <3>2, FS_Surjection DEF T
    <2>2. old \in SUBSET {r[2] : r \in R}
      BY <1>1
    <2> QED BY <2>1, <2>2, FS_Subset
  <1>4. SumFunctionOnSet(steps, old) = Seconds(Out)
    <2> DEFINE m == [s \in old |-> k[s]]
    <2>1. m \in [old -> R] /\ \A a, b \in old : m[a] = m[b] => a = b
      BY <1>1, <1>2
    <2>2. \A s \in old : steps[s] = Duration[m[s]] /\ steps[s] \in Nat
      BY <1>1, RowFacts
    <2>3. Out = {m[s] : s \in old}
      OBVIOUS
    <2> HIDE DEF m, steps, old, Out
    <2>4. SumFunctionOnSet(steps, old) = SumFunctionOnSet(Duration, {m[s] : s \in old})
      BY <1>3, <2>1, <2>2, SumImage
    <2> QED BY <2>3, <2>4 DEF Seconds
  <1>5. Out \in SUBSET R /\ S \in SUBSET Rows[p]
    BY <1>1
  <1>6. Seconds(R) - Seconds(Out) = Seconds(S)
    <2>1. Out \in SUBSET Rows[p] /\ IsFiniteSet(R) /\ \A r \in R : Duration[r] \in Nat
      BY <1>5, RowFacts
    <2>2. Seconds(Out) \in Nat /\ Seconds(S) \in Nat
      <3> HIDE DEF S, Out
      <3> QED BY <1>5, <2>1, RowFacts
    <2>3. Seconds(R) = Seconds(Out) + Seconds(S)
      <3> HIDE DEF Out
      <3> QED BY <1>5, <2>1, SumSplit DEF Seconds
    <2> HIDE DEF S, Out
    <2> QED BY <2>2, <2>3
  <1>7. \A s \in D : k[s] \in S /\ k[s][2] = s /\ l[s] = k[s]
    BY <1>1, <1>2
  <1>8. l \in [D -> S] /\ DOMAIN l = D
    BY <1>7
  <1>9. Young(p, elapsed) \subseteq S
    <2> SUFFICES ASSUME NEW r \in Young(p, elapsed), r \in Out PROVE FALSE
      BY <1>1
    <2>1. PICK s \in old : r = k[s]
      OBVIOUS
    <2>2. r[2] = s /\ s \in DOMAIN StartAge
      BY <1>1, <2>1
    <2>3. StartAge[s] \in Nat /\ SchedulingWindow \in Nat
      BY <2>2, SharesAssumption
    <2> QED BY <2>1, <2>2, <2>3 DEF Young
  <1>10. PruneSteps(p) = [steps |-> [s \in D |-> k[s][3]], seconds |-> Seconds(S),
                          shares |-> jobset[p].shares]
    <2>1. jobset[p].steps = steps /\ DOMAIN steps = DOMAIN k /\ jobset[p].seconds = Seconds(R)
      BY <1>1
    <2>2. {s \in DOMAIN jobset[p].steps : StartAge[s] + elapsed >= SchedulingWindow} = old
      BY <2>1
    <2>3. Restrict(steps, D) = [s \in D |-> k[s][3]]
      BY DEF Restrict
    <2>4. PruneSteps(p) = [jobset[p] EXCEPT !.steps = Restrict(@, DOMAIN @ \ old),
                               !.seconds = @ - SumFunctionOnSet(jobset[p].steps, old)]
      BY <2>2, Zenon DEF PruneSteps
    <2> HIDE DEF old, S, Out
    <2>5. PruneSteps(p) = [steps |-> Restrict(steps, DOMAIN steps \ old),
                           seconds |-> Seconds(R) - SumFunctionOnSet(steps, old),
                           shares |-> jobset[p].shares]
      <3> HIDE DEF steps
      <3> QED BY <1>1, <2>1, <2>4
    <2> QED BY <1>4, <1>6, <2>1, <2>3, <2>5
  <1>11. [s \in D |-> k[s][3]] = [s \in DOMAIN l |-> l[s][3]]
    BY <1>7, <1>8
  <1> HIDE DEF S, D, Out, old, l
  <1>12. Counts(PruneSteps(p), p, elapsed, S, l) /\ PruneSteps(p).shares = jobset[p].shares
    BY <1>1, <1>7, <1>8, <1>9, <1>10, <1>11 DEF Counts
  <1>13. D \in SUBSET (DOMAIN StartAge)
    BY DEF D
  <1>14. l \in UNION {[E -> S] : E \in SUBSET (DOMAIN StartAge)}
    BY <1>8, <1>13
  <1> QED BY <1>5, <1>12, <1>14

LEMMA StepTypeNat ==
    ASSUME NEW x \in StepType
    PROVE  x.global \in Nat /\ x.local \in Nat /\ x.id \in Nat /\ x.jobsets \subseteq Jobsets
  BY SharesAssumption, MaxIdNat DEF StepType

LEMMA KeptJobset ==
    ASSUME Kept, Typed, NEW p \in DOMAIN jobset
    PROVE  jobset[p].seconds \in Nat /\ jobset[p].shares \in SharesOf /\ JobsetUsed(p) \in Used
  <1>1. p \in Jobsets
    BY DEF Typed
  <1>2. PICK R \in SUBSET Rows[p] : jobset[p].seconds = Seconds(R) /\ jobset[p].shares \in SharesOf
    BY DEF Kept, Counts
  <1>3. jobset[p].seconds \in Nat
    BY <1>1, <1>2, RowFacts
  <1>4. jobset[p].shares \in Nat \ {0}
    BY <1>2, SharesAssumption
  <1> QED BY <1>2, <1>3, <1>4 DEF JobsetUsed, Used

LEMMA ShareIn ==
    ASSUME Typed, There, Kept, NEW s \in Steps
    PROVE  get_lowest_share_used(s) \in Used
  <1> DEFINE P == prio[s].jobsets
             T == {JobsetUsed(p) : p \in P}
  <1>1. P \subseteq Jobsets /\ P \subseteq DOMAIN jobset
    BY StepTypeNat DEF Typed, There
  <1>2. T \in SUBSET Used
    BY <1>1, KeptJobset
  <1>3. IsFiniteSet(P)
    BY <1>1, SharesAssumption, FS_Subset
  <1>4. [p \in P |-> JobsetUsed(p)] \in Surjection(P, T)
    BY DEF Surjection
  <1> HIDE DEF P
  <1>5. IsFiniteSet(T)
    <2> HIDE DEF T
    <2> QED BY <1>3, <1>4, FS_Surjection
  <1>6. get_lowest_share_used(s) = LowestShareUsed(T)
    BY DEF get_lowest_share_used, P
  <1> HIDE DEF T
  <1> QED BY <1>2, <1>5, <1>6, LowestIn

LEMMA InfoTyped ==
    ASSUME Typed, NEW s \in Steps, NEW u \in Used
    PROVE  Info(s, u) \in JobInfo
  <1>1. prio[s] \in StepType /\ RdepsOf[s] \in Nat
    BY SharesAssumption DEF Typed
  <1> QED BY <1>1, StepTypeNat DEF Info, JobInfo

(* sort_jobs leaves the jobs in the queue, each of them once. *)
LEMMA SortJobsKeeps ==
    ASSUME Typed, There, Kept, NEW js \in Seq(Steps), IsInjective(js), NEW fn \in SortFns,
           SortJobs(js, fn)
    PROVE  /\ share' \in [Steps -> Used]
           /\ queue' \in Seq(Steps) /\ IsInjective(queue') /\ Range(queue') = Range(js)
           /\ InOrder(queue', fn, share') /\ \A s \in Range(js) : share'[s] = get_lowest_share_used(s)
  <1> DEFINE Now == [s \in Steps |-> IF s \in Range(js) THEN get_lowest_share_used(s) ELSE share[s]]
  <1>1. PICK now \in {Now} : \E info \in {[s \in Steps |-> Info(s, now[s])]} :
            LET less(s, t) == Before(fn, info[s], info[t])
            IN share' = now /\ queue' = StableSort(js, less)
    BY DEF SortJobs
  <1>2. now \in [Steps -> Used]
    BY ShareIn DEF Typed
  <1>s. \A s \in Range(js) : now[s] = get_lowest_share_used(s)
    BY DEF Range
  <1> HIDE DEF Now
  <1>3. PICK info \in {[s \in Steps |-> Info(s, now[s])]} :
            LET less(s, t) == Before(fn, info[s], info[t])
            IN share' = now /\ queue' = StableSort(js, less)
    BY <1>1
  <1>4. info \in [Steps -> JobInfo]
    <2>1. \A s \in Steps : now[s] \in Used
      BY <1>2
    <2>2. \A s \in Steps : Info(s, now[s]) \in JobInfo
      BY <2>1, InfoTyped
    <2> QED BY <2>2
  <1>5. /\ queue' \in Seq(Steps) /\ IsInjective(queue') /\ Range(queue') = Range(js)
        /\ \A i, k \in 1..Len(queue') : i < k => ~Before(fn, info[queue'[k]], info[queue'[i]])
    BY <1>3, <1>4, SortKeeps
  <1>6. \A i \in 1..Len(queue') : info[queue'[i]] = Info(queue'[i], now[queue'[i]])
    <2>1. info = [s \in Steps |-> Info(s, now[s])]
      BY <1>3
    <2>2. \A i \in 1..Len(queue') : queue'[i] \in Steps
      BY <1>5
    <2> QED BY <2>1, <2>2
  <1>7. InOrder(queue', fn, now)
    BY <1>5, <1>6 DEF InOrder
  <1> QED BY <1>2, <1>3, <1>5, <1>7, <1>s

(* propagate_priorities raises priorities, at least to those of the builds *)
(* it is given.                                                            *)
LEMMA PropagatedOk ==
    ASSUME Typed, NEW g, DOMAIN g \subseteq Builds, \A b \in DOMAIN g : g[b] \in Priorities
    PROVE  /\ Propagated(g) \in [Steps -> StepType]
           /\ \A s \in Steps :
                 /\ Propagated(g)[s].global >= prio[s].global
                 /\ \A b \in DOMAIN g : s \in NeedsOf[b] => Propagated(g)[s].global >= g[b]
                 /\ Propagated(g)[s].jobsets \subseteq prio[s].jobsets \cup {JobsetOf[b] : b \in DOMAIN g}
  <1> SUFFICES ASSUME NEW s \in Steps
               PROVE  /\ Propagated(g)[s] \in StepType
                      /\ Propagated(g)[s].global >= prio[s].global
                      /\ \A b \in DOMAIN g : s \in NeedsOf[b] => Propagated(g)[s].global >= g[b]
                      /\ Propagated(g)[s].jobsets \subseteq prio[s].jobsets \cup {JobsetOf[b] : b \in DOMAIN g}
    <2>1. Propagated(g) = [s \in Steps |-> Propagated(g)[s]]
      BY DEF Propagated
    <2> QED BY <2>1, Zenon
  <1> DEFINE bs == {b \in DOMAIN g : s \in NeedsOf[b]}
             G == {prio[s].global} \cup {g[b] : b \in bs}
             L == {prio[s].local} \cup {LocalOf[b] : b \in bs}
             I == {prio[s].id} \cup bs
             J == prio[s].jobsets \cup {JobsetOf[b] : b \in bs}
  <1>1. Propagated(g)[s] = [global |-> Max(G), local |-> Max(L), id |-> Min(I), jobsets |-> J]
    BY DEF Propagated
  <1>2. /\ prio[s].global \in Priorities \cup {0} /\ prio[s].local \in Nat
        /\ prio[s].id \in Builds \cup {MaxId} /\ prio[s].jobsets \subseteq Jobsets
    BY DEF Typed, StepType
  <1>3. IsFiniteSet(bs) /\ bs \subseteq Builds
    <2>1. bs \in SUBSET Builds
      OBVIOUS
    <2> QED BY <2>1, SharesAssumption, FS_Subset
  <1>4. IsFiniteSet({g[b] : b \in bs}) /\ IsFiniteSet({LocalOf[b] : b \in bs})
    <2> DEFINE A == {g[b] : b \in bs}
               B == {LocalOf[b] : b \in bs}
    <2>1. [b \in bs |-> g[b]] \in Surjection(bs, A) /\ [b \in bs |-> LocalOf[b]] \in Surjection(bs, B)
      BY DEF Surjection
    <2> HIDE DEF A, B, bs
    <2>2. IsFiniteSet(A) /\ IsFiniteSet(B)
      BY <1>3, <2>1, FS_Surjection
    <2> QED BY <2>2 DEF A, B
  <1>5. IsFiniteSet(G) /\ IsFiniteSet(L)
    <2> HIDE DEF bs
    <2> QED BY <1>4, FS_Singleton, FS_Union
  <1>6. /\ \A x \in G : x \in Priorities \cup {0} /\ x \in Nat
        /\ \A x \in L : x \in Nat
        /\ I \in SUBSET (Builds \cup {MaxId}) /\ I \in SUBSET Nat
    BY <1>2, <1>3, SharesAssumption, MaxIdNat
  <1>7. G # {} /\ L # {} /\ I # {}
    OBVIOUS
  <1>8. prio[s].global \in G /\ \A b \in bs : g[b] \in G
    OBVIOUS
  <1>9. J \subseteq Jobsets /\ J \subseteq prio[s].jobsets \cup {JobsetOf[b] : b \in DOMAIN g}
    BY <1>2, <1>3, SharesAssumption
  <1> HIDE DEF G, L, I, J
  <1>10. Max(G) \in Priorities \cup {0} /\ (\A x \in G : Max(G) >= x) /\ Max(L) \in Nat
    BY <1>5, <1>6, <1>7, MaxOf
  <1>11. Min(I) \in Builds \cup {MaxId}
    BY <1>6, <1>7, MinOf
  <1>12. Propagated(g)[s] \in StepType
    BY <1>1, <1>9, <1>10, <1>11 DEF StepType
  <1>13. \A b \in DOMAIN g : s \in NeedsOf[b] => Max(G) >= g[b]
    BY <1>8, <1>10
  <1> QED BY <1>1, <1>8, <1>9, <1>10, <1>12, <1>13

-----------------------------------------------------------------------------
(* Init and the steps.                                                     *)

(* What a step leaves alone. *)
LEMMA QueuedSame == Queued /\ UNCHANGED <<queue, runnable>> => Queued'
  BY DEF Queued, IsInjective, Range
LEMMA ThereSame == There /\ UNCHANGED <<prio, global, jobset>> => There'
  BY DEF There
LEMMA KeptSame == Kept /\ UNCHANGED <<jobset, elapsed>> => Kept'
  BY DEF Kept, Counts
LEMMA PrioSame == PrioArrive /\ UNCHANGED <<dbprio, notes, monitor, global, prio>> => PrioArrive'
  BY DEF PrioArrive, AtSteps, InRun
LEMMA SharesSame == SharesArrive /\ UNCHANGED <<dbshares, notes, monitor, jobset, missed>> => SharesArrive'
  BY DEF SharesArrive

LEMMA SameNext == IInv /\ UNCHANGED vars => IInv'
  BY QueuedSame, ThereSame, KeptSame, PrioSame, SharesSame
  DEF IInv, Typed, vars, dbVars, stepVars, dispVars

LEMMA InitInv == Init => IInv
  <1> SUFFICES ASSUME Init PROVE IInv
    OBVIOUS
  <1>1. Min(Priorities) \in Priorities /\ Min(SharesOf) \in SharesOf
    <2>1. Priorities \in SUBSET Nat /\ SharesOf \in SUBSET Nat /\ Priorities # {} /\ SharesOf # {}
      BY SharesAssumption
    <2> QED BY <2>1, MinOf
  <1>2. monitor \in MonType /\ monitor.todo = <<>> /\ monitor.shares = <<>> /\ monitor.pc = "read"
    <2>1. monitor = [pc |-> "read", todo |-> <<>>, shares |-> <<>>]
      BY DEF Init, Waiting
    <2>2. <<>> \in Seq(Builds \X Priorities)
      OBVIOUS
    <2> QED BY <2>1, <2>2 DEF MonType
  <1>3. DOMAIN global = {} /\ DOMAIN jobset = {}
    BY DEF Init
  <1>4. Typed
    <2>1. prio \in [Steps -> StepType]
      BY DEF Init, StepType
    <2>2. share \in [Steps -> Used]
      BY DEF Init, NoJobset, Used
    <2>3. elapsed \in 0..SchedulingWindow /\ events \in 0..MaxEvents
      BY SharesAssumption DEF Init
    <2> QED BY <1>1, <1>2, <1>3, <2>1, <2>2, <2>3 DEF Typed, Init, SortFns
  <1>5. Queued
    BY DEF Queued, Init, IsInjective, Range
  <1>6. There /\ Kept
    BY <1>3 DEF There, Kept, Init
  <1>7. PrioArrive /\ SharesArrive
    BY <1>2, <1>3 DEF PrioArrive, SharesArrive
  <1> QED BY <1>4, <1>5, <1>6, <1>7 DEF IInv

LEMMA EventNat == Typed /\ Event => events' \in 0..MaxEvents
  BY SharesAssumption DEF Typed, Event

LEMMA BumpStep ==
    ASSUME IInv, NEW b \in Builds, NEW n \in Priorities, Bump(b, n)
    PROVE  IInv'
  <1> USE DEF Bump, stepVars, dispVars
  <1>1. Typed'
    <2>1. dbprio' \in [Builds -> Priorities] /\ notes' \subseteq {"bumped", "shares"}
      BY DEF IInv, Typed
    <2> QED BY <2>1, EventNat DEF IInv, Typed
  <1>2. PrioArrive'
    BY DEF PrioArrive
  <1>3. SharesArrive'
    BY DEF IInv, SharesArrive
  <1> QED BY <1>1, <1>2, <1>3, QueuedSame, ThereSame, KeptSame DEF IInv

LEMMA ChangeSharesStep ==
    ASSUME IInv, NEW p \in Jobsets, NEW n \in SharesOf, ChangeShares(p, n)
    PROVE  IInv'
  <1> USE DEF ChangeShares, stepVars, dispVars
  <1>1. Typed'
    <2>1. dbshares' \in [Jobsets -> SharesOf] /\ notes' \subseteq {"bumped", "shares"}
      BY DEF IInv, Typed
    <2> QED BY <2>1, EventNat DEF IInv, Typed
  <1>2. PrioArrive'
    BY DEF IInv, PrioArrive, AtSteps, InRun
  <1>3. SharesArrive'
    BY DEF SharesArrive
  <1> QED BY <1>1, <1>2, <1>3, QueuedSame, ThereSame, KeptSame DEF IInv

(* Every build is among those a queue run reads. *)
LEMMA EveryBuild ==
    ASSUME NEW order \in SetToSeqs(Builds)
    PROVE  /\ order \in Seq(Builds) /\ Len(order) \in Nat /\ DOMAIN order = 1..Len(order)
           /\ \A b \in Builds : \E i \in 1..Len(order) : order[i] = b
  <1> DEFINE N == Cardinality(Builds)
  <1>1. IsFiniteSet(Builds)
    BY SharesAssumption
  <1>2. N \in Nat
    BY <1>1, FS_CardinalityType
  <1>3. order \in [1..N -> Builds] /\ \A i, j \in 1..N : i # j => order[i] # order[j]
    BY DEF SetToSeqs
  <1> HIDE DEF N
  <1>4. order \in Injection(1..N, Builds)
    BY <1>3 DEF Injection, IsInjective
  <1>5. IsFiniteSet(1..N) /\ Cardinality(1..N) = N
    BY <1>2, FS_Interval
  <1>6. order \in Surjection(1..N, Builds)
    BY <1>1, <1>4, <1>5, FS_Injection DEF N
  <1>7. order \in Seq(Builds) /\ Len(order) = N /\ DOMAIN order = 1..N
    BY <1>2, <1>3, SeqDef
  <1> QED BY <1>2, <1>6, <1>7 DEF Surjection

LEMMA WaitingTyped ==
    /\ \A pc \in {"wait", "read", "run", "bumped", "shares"} :
          LET m == [Waiting EXCEPT !.pc = pc]
          IN m \in MonType /\ m.pc = pc /\ m.todo = <<>> /\ m.shares = <<>>
    /\ Waiting = [Waiting EXCEPT !.pc = "wait"]
  <1>1. <<>> \in Seq(Builds \X Priorities)
    OBVIOUS
  <1>2. ASSUME NEW pc \in {"wait", "read", "run", "bumped", "shares"}
        PROVE  [Waiting EXCEPT !.pc = pc] = [pc |-> pc, todo |-> <<>>, shares |-> <<>>]
    BY DEF Waiting
  <1>3. ASSUME NEW pc \in {"wait", "read", "run", "bumped", "shares"}
        PROVE  [pc |-> pc, todo |-> <<>>, shares |-> <<>>] \in MonType
    BY <1>1 DEF MonType
  <1> QED BY <1>2, <1>3 DEF Waiting

LEMMA ReadBuildsStep ==
    ASSUME IInv, ReadBuilds
    PROVE  IInv'
  <1> USE DEF ReadBuilds, monitorOnly, stepVars, dispVars
  <1>1. PICK order \in SetToSeqs(Builds) :
            monitor' = [monitor EXCEPT !.pc = "run",
                            !.todo = [i \in 1..Len(order) |-> <<order[i], dbprio[order[i]]>>]]
    OBVIOUS
  <1> DEFINE todo == [i \in 1..Len(order) |-> <<order[i], dbprio[order[i]]>>]
  <1>2. todo \in Seq(Builds \X Priorities) /\ Len(todo) = Len(order) /\ Len(order) \in Nat
    <2>1. \A i \in 1..Len(order) : order[i] \in Builds /\ dbprio[order[i]] \in Priorities
      <3>1. order \in Seq(Builds) /\ dbprio \in [Builds -> Priorities]
        BY EveryBuild DEF IInv, Typed
      <3> QED BY <3>1
    <2>2. todo \in [1..Len(order) -> Builds \X Priorities]
      BY <2>1
    <2> QED BY <2>2, EveryBuild, SeqDef
  <1>3. /\ monitor' \in MonType /\ monitor'.pc = "run" /\ monitor'.todo = todo
        /\ monitor'.shares = monitor.shares
    <2> HIDE DEF todo
    <2> QED BY <1>1, <1>2 DEF IInv, Typed, MonType, todo
  <1>4. Typed'
    BY <1>3 DEF IInv, Typed
  <1>5. PrioArrive'
    <2>1. ASSUME NEW b \in Builds
          PROVE  \E i \in 1..Len(todo) : todo[i] = <<b, dbprio[b]>>
      <3>1. PICK i \in 1..Len(order) : order[i] = b
        BY EveryBuild
      <3>2. todo[i] = <<b, dbprio[b]>>
        BY <3>1
      <3> QED BY <1>2, <3>2
    <2>2. \A i \in 1..Len(todo) : todo[i][2] = dbprio[todo[i][1]]
      BY <1>2
    <2> HIDE DEF todo
    <2> QED BY <1>3, <2>1, <2>2 DEF IInv, Typed, PrioArrive, InRun
  <1>6. SharesArrive'
    BY <1>3 DEF IInv, SharesArrive
  <1> QED BY <1>4, <1>5, <1>6, QueuedSame, ThereSame, KeptSame DEF IInv

LEMMA ReadFailsStep ==
    ASSUME IInv, ReadFails
    PROVE  IInv'
  <1> USE DEF ReadFails, monitorOnly, stepVars, dispVars
  <1>1. Typed'
    BY EventNat DEF IInv, Typed
  <1> QED BY <1>1, QueuedSame, ThereSame, KeptSame, PrioSame, SharesSame DEF IInv

LEMMA TodoTyped ==
    ASSUME Typed, NEW i \in 1..Len(monitor.todo)
    PROVE  monitor.todo[i] \in Builds \X Priorities
  BY DEF Typed, MonType

LEMMA ReadSharesStep ==
    ASSUME IInv, ReadShares
    PROVE  IInv'
  <1> USE DEF ReadShares, monitorOnly, stepVars, dispVars
  <1>1. PICK p \in ToCreate : monitor' = [monitor EXCEPT !.shares = <<p, dbshares[p]>>]
    OBVIOUS
  <1>2. p \in Jobsets
    <2>1. PICK i \in 1..Len(monitor.todo) : p = JobsetOf[monitor.todo[i][1]]
      BY DEF ToCreate
    <2>2. monitor.todo[i][1] \in Builds
      BY TodoTyped DEF IInv
    <2> QED BY <2>1, <2>2, SharesAssumption
  <1>3. dbshares[p] \in SharesOf
    BY <1>2 DEF IInv, Typed
  <1>4. /\ monitor' \in MonType /\ monitor'.pc = monitor.pc /\ monitor'.todo = monitor.todo
        /\ monitor'.shares = <<p, dbshares[p]>>
    BY <1>1, <1>2, <1>3 DEF IInv, Typed, MonType
  <1>5. Typed'
    BY <1>4 DEF IInv, Typed
  <1>6. PrioArrive'
    BY <1>4 DEF IInv, PrioArrive, AtSteps, InRun
  <1>7. SharesArrive'
    BY <1>4 DEF IInv, SharesArrive
  <1> QED BY <1>5, <1>6, <1>7, QueuedSame, ThereSame, KeptSame DEF IInv

LEMMA CreateJobsetStep ==
    ASSUME IInv, CreateJobset
    PROVE  IInv'
  <1> USE DEF CreateJobset, monitorOnly, stepVars, dispVars
  <1> DEFINE p == monitor.shares[1]
             new(last) == [steps |-> [s \in DOMAIN last |-> last[s][3]],
                           seconds |-> Seconds(Rows[p]), shares |-> monitor.shares[2]]
  <1>1. PICK last \in [{r[2] : r \in Rows[p]} -> Rows[p]] :
            /\ \A s \in DOMAIN last : last[s][2] = s
            /\ jobset' = [q \in DOMAIN jobset \cup {p} |-> IF q # p THEN jobset[q] ELSE new(last)]
    OBVIOUS
  <1>2. p \in Jobsets /\ monitor.shares[2] \in SharesOf
    BY DEF IInv, Typed, MonType
  <1>3. /\ monitor' \in MonType /\ monitor'.pc = monitor.pc /\ monitor'.todo = monitor.todo
        /\ monitor'.shares = <<>>
    BY DEF IInv, Typed, MonType
  <1> DEFINE j == new(last)
  <1>4. Counts(j, p, elapsed, Rows[p], last) /\ j.shares = monitor.shares[2]
    BY <1>1, <1>2 DEF Counts, Young
  <1>5. last \in UNION {[D -> Rows[p]] : D \in SUBSET (DOMAIN StartAge)}
    <2>1. \A r \in Rows[p] : r[2] \in DOMAIN StartAge
      BY <1>2, RowFacts
    <2>2. {r[2] : r \in Rows[p]} \in SUBSET (DOMAIN StartAge)
      BY <2>1
    <2> QED BY <1>1, <2>2
  <1> HIDE DEF p, new, j
  <1>6. DOMAIN jobset' = DOMAIN jobset \cup {p} /\ jobset'[p] = j
        /\ \A q \in DOMAIN jobset : q # p => jobset'[q] = jobset[q]
    BY <1>1 DEF j
  <1>7. Typed'
    BY <1>2, <1>3, <1>6 DEF IInv, Typed
  <1>8. There'
    BY <1>6 DEF IInv, There
  <1>9. Kept'
    <2> SUFFICES ASSUME NEW q \in DOMAIN jobset \cup {p}
                 PROVE  \E R \in SUBSET Rows[q] :
                            \E k \in UNION {[D -> R] : D \in SUBSET (DOMAIN StartAge)} :
                                Counts(jobset'[q], q, elapsed, R, k)
      BY <1>6 DEF Kept, Counts
    <2>1. CASE q = p
      <3>1. Rows[p] \in SUBSET Rows[p]
        OBVIOUS
      <3> QED BY <1>4, <1>5, <1>6, <2>1, <3>1
    <2>2. CASE q # p
      BY <1>6, <2>2 DEF IInv, Kept
    <2> QED BY <2>1, <2>2
  <1>10. PrioArrive'
    <2>1. PrioArrive /\ UNCHANGED <<dbprio, notes, global, prio>>
      BY DEF IInv
    <2> HIDE DEF CreateJobset
    <2> QED BY <1>3, <2>1 DEF PrioArrive, AtSteps, InRun
  <1>11. SharesArrive'
    BY <1>3, <1>4, <1>6 DEF IInv, SharesArrive, p
  <1> QED BY <1>7, <1>8, <1>9, <1>10, <1>11, QueuedSame DEF IInv

(* A priority that has reached the steps stays there when others rise. *)
LEMMA StaysAtSteps ==
    ASSUME Typed, NEW g, DOMAIN g \subseteq Builds, \A b \in DOMAIN g : g[b] \in Priorities,
           prio' = Propagated(g), UNCHANGED dbprio, NEW c \in Builds
    PROVE  /\ AtSteps(c) => AtSteps(c)'
           /\ c \in DOMAIN g /\ g[c] = dbprio[c] => AtSteps(c)'
  <1>1. NeedsOf[c] \subseteq Steps /\ dbprio[c] \in Nat
    BY SharesAssumption DEF Typed
  <1>2. \A s \in Steps : prio[s].global \in Nat /\ prio'[s].global \in Nat /\ prio'[s].global >= prio[s].global
    <2>1. \A s \in Steps : prio[s] \in StepType /\ prio'[s] \in StepType
      BY PropagatedOk DEF Typed
    <2> QED BY <2>1, StepTypeNat, PropagatedOk
  <1>3. c \in DOMAIN g => \A s \in NeedsOf[c] : prio'[s].global >= g[c]
    BY <1>1, PropagatedOk
  <1> QED BY <1>1, <1>2, <1>3 DEF AtSteps

LEMMA TailOf ==
    ASSUME NEW X, NEW q \in Seq(X), q # <<>>
    PROVE  /\ Head(q) = q[1] /\ Tail(q) \in Seq(X) /\ Len(q) \in Nat \ {0} /\ Len(Tail(q)) = Len(q) - 1
           /\ \A i \in 1..Len(Tail(q)) : Tail(q)[i] = q[i + 1] /\ i + 1 \in 1..Len(q)
           /\ \A i \in 1..Len(q) : i # 1 => i - 1 \in 1..Len(Tail(q)) /\ Tail(q)[i - 1] = q[i]
  <1>1. /\ Head(q) = q[1] /\ Tail(q) \in Seq(X) /\ Len(q) \in Nat \ {0} /\ Len(Tail(q)) = Len(q) - 1
        /\ \A i \in 1..Len(Tail(q)) : Tail(q)[i] = q[i + 1]
    BY HeadTailProperties
  <1>2. ASSUME NEW i \in 1..Len(q), i # 1
        PROVE  i - 1 \in 1..Len(Tail(q)) /\ Tail(q)[i - 1] = q[i]
    <2>1. i - 1 \in 1..Len(Tail(q)) /\ (i - 1) + 1 = i
      BY <1>1, <1>2
    <2> QED BY <1>1, <2>1
  <1>3. \A i \in 1..Len(Tail(q)) : i + 1 \in 1..Len(q)
    BY <1>1
  <1> QED BY <1>1, <1>2, <1>3

LEMMA CreateBuildStep ==
    ASSUME IInv, CreateBuild
    PROVE  IInv'
  <1> DEFINE todo == monitor.todo
             b == Head(todo)[1]
             n == Head(todo)[2]
             g == [c \in {b} |-> n]
  <1>1. /\ monitor.pc = "run" /\ ToCreate = {} /\ todo # <<>>
        /\ global' = [c \in DOMAIN global \cup {b} |-> IF c = b THEN n ELSE global[c]]
        /\ prio' = Propagated(g) /\ monitor' = [monitor EXCEPT !.todo = Tail(@)]
        /\ UNCHANGED <<dbprio, dbshares, notes, elapsed, share, queue, disp, sort_fn, reload, runnable,
                       tried, jobset, triggered, missed, events>>
    BY DEF CreateBuild, monitorOnly, dispVars
  <1>2. todo \in Seq(Builds \X Priorities)
    BY DEF IInv, Typed, MonType
  <1>t. /\ Head(todo) = todo[1] /\ Tail(todo) \in Seq(Builds \X Priorities)
        /\ Len(todo) \in Nat \ {0} /\ Len(Tail(todo)) = Len(todo) - 1
        /\ \A i \in 1..Len(Tail(todo)) : Tail(todo)[i] = todo[i + 1] /\ i + 1 \in 1..Len(todo)
        /\ \A i \in 1..Len(todo) : i # 1 => i - 1 \in 1..Len(Tail(todo)) /\ Tail(todo)[i - 1] = todo[i]
    <2> HIDE DEF todo
    <2> QED BY <1>1, <1>2, TailOf
  <1>3. 1 \in 1..Len(todo) /\ todo[1] \in Builds \X Priorities /\ todo[1] = <<b, n>>
    BY <1>2, <1>t
  <1>4. b \in Builds /\ n \in Priorities /\ JobsetOf[b] \in DOMAIN jobset
    BY <1>1, <1>3 DEF ToCreate
  <1>5. /\ monitor' \in MonType /\ monitor'.pc = "run" /\ monitor'.todo = Tail(todo)
        /\ monitor'.shares = monitor.shares
    BY <1>1, <1>t DEF IInv, Typed, MonType
  <1> HIDE DEF b, n, todo
  <1>6. DOMAIN g = {b} /\ g[b] = n /\ DOMAIN g \subseteq Builds /\ \A c \in DOMAIN g : g[c] \in Priorities
    BY <1>4
  <1>7. DOMAIN global' = DOMAIN global \cup {b} /\ \A c \in DOMAIN global' : global'[c] \in Priorities
    BY <1>1, <1>4 DEF IInv, Typed
  <1> HIDE DEF g
  <1>8. Typed'
    BY <1>1, <1>4, <1>5, <1>6, <1>7, PropagatedOk DEF IInv, Typed
  <1>9. There'
    <2>1. \A s \in Steps : prio'[s].jobsets \subseteq prio[s].jobsets \cup {JobsetOf[b]}
      BY <1>1, <1>6, PropagatedOk DEF IInv
    <2> QED BY <1>1, <1>4, <1>7, <2>1 DEF IInv, There
  <1>10. PrioArrive'
    <2>1. ASSUME NEW i \in 1..Len(Tail(todo))
          PROVE  "bumped" \in notes \/ Tail(todo)[i][2] = dbprio[Tail(todo)[i][1]]
      BY <1>t DEF IInv, PrioArrive, todo
    <2>2. ASSUME NEW c \in DOMAIN global \cup {b}
          PROVE  \/ "bumped" \in notes \/ AtSteps(c)'
                 \/ \E i \in 1..Len(Tail(todo)) : Tail(todo)[i] = <<c, dbprio[c]>>
      <3>1. c \in Builds
        BY <1>4 DEF IInv, Typed
      <3>2. /\ AtSteps(c) => AtSteps(c)'
            /\ c = b /\ n = dbprio[b] => AtSteps(c)'
        BY <1>1, <1>6, <3>1, StaysAtSteps DEF IInv
      <3>3. CASE c = b
        <4>1. "bumped" \in notes \/ n = dbprio[b]
          BY <1>3 DEF IInv, PrioArrive, todo
        <4> QED BY <3>2, <3>3, <4>1
      <3>4. CASE c # b
        <4>1. "bumped" \in notes \/ AtSteps(c) \/ InRun(c)
          BY <1>1, <3>4 DEF IInv, PrioArrive
        <4>2. CASE InRun(c)
          <5>1. PICK i \in 1..Len(todo) : todo[i] = <<c, dbprio[c]>>
            BY <4>2 DEF InRun, todo
          <5>2. i # 1
            BY <1>3, <3>4, <5>1
          <5> QED BY <1>t, <5>1, <5>2
        <4> QED BY <3>2, <4>1, <4>2
      <3> QED BY <3>3, <3>4
    <2> QED BY <1>1, <1>5, <1>7, <2>1, <2>2 DEF PrioArrive, InRun
  <1>11. SharesArrive'
    BY <1>1, <1>5 DEF IInv, SharesArrive
  <1> QED BY <1>1, <1>8, <1>9, <1>10, <1>11, QueuedSame, KeptSame DEF IInv

LEMMA EndRunStep ==
    ASSUME IInv, EndRun
    PROVE  IInv'
  <1>1. /\ monitor.pc = "run" /\ monitor.todo = <<>> /\ triggered' = TRUE
        /\ monitor' = [Waiting EXCEPT !.pc = "wait"]
        /\ UNCHANGED <<dbprio, dbshares, notes, elapsed, share, queue, disp, sort_fn, reload, global, prio,
                       runnable, tried, jobset, missed, events>>
    BY WaitingTyped DEF EndRun, monitorOnly, dispVars, stepVars
  <1>2. monitor' \in MonType /\ monitor'.pc = "wait" /\ monitor'.todo = <<>> /\ monitor'.shares = <<>>
    BY <1>1, WaitingTyped
  <1>3. Typed'
    BY <1>1, <1>2 DEF IInv, Typed
  <1>4. PrioArrive'
    BY <1>1, <1>2 DEF IInv, PrioArrive, AtSteps, InRun
  <1>5. SharesArrive'
    BY <1>1, <1>2 DEF IInv, SharesArrive
  <1> QED BY <1>1, <1>3, <1>4, <1>5, QueuedSame, ThereSame, KeptSame DEF IInv

LEMMA NotifiedStep ==
    ASSUME IInv, NEW n \in {"bumped", "shares"}, Notified(n)
    PROVE  IInv'
  <1>1. /\ monitor.pc = "wait" /\ notes' = notes \ {n} /\ monitor' = [Waiting EXCEPT !.pc = n]
        /\ UNCHANGED <<dbprio, dbshares, elapsed, share, queue, disp, sort_fn, reload, global, prio,
                       runnable, tried, jobset, triggered, missed, events>>
    BY DEF Notified, monitorOnly, dispVars, stepVars
  <1>2. monitor' \in MonType /\ monitor'.pc = n /\ monitor'.todo = <<>> /\ monitor'.shares = <<>>
    BY <1>1, WaitingTyped
  <1>3. Typed'
    BY <1>1, <1>2 DEF IInv, Typed
  <1>4. PrioArrive'
    BY <1>1, <1>2 DEF IInv, PrioArrive, AtSteps, InRun
  <1>5. SharesArrive'
    BY <1>1, <1>2 DEF IInv, SharesArrive
  <1> QED BY <1>1, <1>3, <1>4, <1>5, QueuedSame, ThereSame, KeptSame DEF IInv

LEMMA ProcessQueueChangeStep ==
    ASSUME IInv, ProcessQueueChange
    PROVE  IInv'
  <1> DEFINE more == {b \in DOMAIN global : global[b] < dbprio[b]}
             g == [b \in more |-> dbprio[b]]
  <1>1. /\ monitor.pc = "bumped" /\ monitor' = [Waiting EXCEPT !.pc = "read"]
        /\ UNCHANGED <<dbprio, dbshares, notes, elapsed, share, queue, disp, sort_fn, reload, runnable,
                       tried, jobset, triggered, missed>>
        /\ \/ /\ global' = [b \in DOMAIN global |-> IF b \in more THEN dbprio[b] ELSE global[b]]
              /\ prio' = Propagated(g) /\ UNCHANGED events
           \/ Event /\ UNCHANGED <<global, prio>>
    BY DEF ProcessQueueChange, monitorOnly, dispVars
  <1>2. monitor' \in MonType /\ monitor'.pc = "read" /\ monitor'.todo = <<>> /\ monitor'.shares = <<>>
    BY <1>1, WaitingTyped
  <1>3. DOMAIN g = more /\ more \subseteq DOMAIN global /\ DOMAIN g \subseteq Builds
        /\ \A b \in DOMAIN g : g[b] \in Priorities
    BY DEF IInv, Typed
  <1>4. DOMAIN global' = DOMAIN global /\ \A b \in DOMAIN global' : global'[b] \in Priorities
    BY <1>1, <1>3 DEF IInv, Typed
  <1> HIDE DEF more, g
  <1>5. prio' \in [Steps -> StepType] /\ \A s \in Steps :
            prio'[s].jobsets \subseteq prio[s].jobsets \cup {JobsetOf[b] : b \in more}
    BY <1>1, <1>3, PropagatedOk DEF IInv, Typed
  <1>6. Typed'
    <2>1. events' \in 0..MaxEvents
      BY <1>1, EventNat DEF IInv, Typed
    <2> QED BY <1>1, <1>2, <1>4, <1>5, <2>1 DEF IInv, Typed
  <1>7. There'
    BY <1>1, <1>3, <1>4, <1>5 DEF IInv, There
  <1>8. PrioArrive'
    BY <1>2 DEF PrioArrive
  <1>9. SharesArrive'
    BY <1>1, <1>2 DEF IInv, SharesArrive
  <1> QED BY <1>1, <1>6, <1>7, <1>8, <1>9, QueuedSame, KeptSame DEF IInv

LEMMA HandleChangeStep ==
    ASSUME IInv, HandleChange
    PROVE  IInv'
  <1>1. /\ monitor.pc = "shares" /\ monitor' = [Waiting EXCEPT !.pc = "read"]
        /\ UNCHANGED <<dbprio, dbshares, notes, elapsed, share, queue, disp, sort_fn, reload, global, prio,
                       runnable, tried, triggered>>
        /\ \/ /\ jobset' = [p \in DOMAIN jobset |-> [jobset[p] EXCEPT !.shares = dbshares[p]]]
              /\ missed' = FALSE /\ UNCHANGED events
           \/ Event /\ missed' = TRUE /\ UNCHANGED jobset
    BY DEF HandleChange, monitorOnly, dispVars, stepVars
  <1>2. monitor' \in MonType /\ monitor'.pc = "read" /\ monitor'.todo = <<>> /\ monitor'.shares = <<>>
    BY <1>1, WaitingTyped
  <1>3. DOMAIN jobset' = DOMAIN jobset
    BY <1>1
  <1>4. Typed'
    <2>1. events' \in 0..MaxEvents /\ missed' \in BOOLEAN
      BY <1>1, EventNat DEF IInv, Typed
    <2> QED BY <1>1, <1>2, <1>3, <2>1 DEF IInv, Typed
  <1>5. There'
    BY <1>1, <1>3 DEF IInv, There
  <1>6. ASSUME NEW p \in DOMAIN jobset, NEW R \in SUBSET Rows[p], NEW k, Counts(jobset[p], p, elapsed, R, k)
        PROVE  /\ Counts([jobset[p] EXCEPT !.shares = dbshares[p]], p, elapsed, R, k)
               /\ [jobset[p] EXCEPT !.shares = dbshares[p]].shares = dbshares[p]
    <2>1. dbshares[p] \in SharesOf
      BY DEF IInv, Typed
    <2> QED BY <1>6, <2>1 DEF Counts
  <1>7. Kept'
    <2>1. CASE jobset' = [p \in DOMAIN jobset |-> [jobset[p] EXCEPT !.shares = dbshares[p]]]
      <3> SUFFICES ASSUME NEW p \in DOMAIN jobset
                   PROVE  \E R \in SUBSET Rows[p] :
                              \E k \in UNION {[D -> R] : D \in SUBSET (DOMAIN StartAge)} :
                                  Counts(jobset'[p], p, elapsed, R, k)
        BY <1>1, <1>3 DEF Kept, Counts
      <3>1. PICK R \in SUBSET Rows[p] : \E k \in UNION {[D -> R] : D \in SUBSET (DOMAIN StartAge)} :
                Counts(jobset[p], p, elapsed, R, k)
        BY DEF IInv, Kept
      <3> QED BY <1>6, <2>1, <3>1
    <2>2. CASE UNCHANGED jobset
      BY <1>1, <2>2, KeptSame DEF IInv
    <2> QED BY <1>1, <2>1, <2>2
  <1>8. PrioArrive'
    BY <1>2 DEF PrioArrive
  <1>9. SharesArrive'
    <2>1. \A p \in DOMAIN jobset' : missed' \/ jobset'[p].shares = dbshares'[p]
      <3>1. \A p \in DOMAIN jobset : [jobset[p] EXCEPT !.shares = dbshares[p]].shares = dbshares[p]
        BY <1>6 DEF IInv, Kept
      <3> QED BY <1>1, <1>3, <3>1
    <2> QED BY <1>2, <2>1 DEF SharesArrive
  <1> QED BY <1>1, <1>4, <1>5, <1>7, <1>8, <1>9, QueuedSame DEF IInv

LEMMA MakeRunnableStep ==
    ASSUME IInv, NEW s \in Steps, MakeRunnable(s)
    PROVE  IInv'
  <1> USE DEF MakeRunnable, stepOnly, dbVars
  <1>1. Typed'
    BY DEF IInv, Typed
  <1>2. Queued'
    BY DEF IInv, Queued, IsInjective, Range
  <1> QED BY <1>1, <1>2, ThereSame, KeptSame, PrioSame, SharesSame DEF IInv

LEMMA RetryStep ==
    ASSUME IInv, NEW s \in Steps, Retry(s)
    PROVE  IInv'
  <1> USE DEF Retry, stepOnly, dbVars
  <1>1. Typed'
    BY EventNat DEF IInv, Typed, Queued
  <1> QED BY <1>1, QueuedSame, ThereSame, KeptSame, PrioSame, SharesSame DEF IInv

LEMMA EndStepStep ==
    ASSUME IInv, NEW s \in Steps, EndStep(s)
    PROVE  IInv'
  <1> USE DEF EndStep, stepOnly, dbVars
  <1>1. Typed'
    BY EventNat DEF IInv, Typed
  <1>2. Queued'
    <2>1. PICK i \in 1..Len(queue) : queue[i] = s /\ queue' = RemoveAt(queue, i)
      OBVIOUS
    <2>2. queue \in Seq(Steps) /\ IsInjective(queue) /\ Range(queue) \subseteq runnable
      BY DEF IInv, Queued
    <2>3. queue' \in Seq(Steps) /\ IsInjective(queue') /\ Range(queue') \subseteq Range(queue) \ {s}
      BY <2>1, <2>2, RemoveKeeps
    <2> QED BY <2>2, <2>3 DEF Queued
  <1> QED BY <1>1, <1>2, ThereSame, KeptSame, PrioSame, SharesSame DEF IInv

LEMMA PruneStep ==
    ASSUME IInv, Prune
    PROVE  IInv'
  <1> USE DEF Prune, dbVars, stepVars
  <1>1. Typed'
    BY DEF IInv, Typed
  <1>2. DOMAIN jobset' = DOMAIN jobset
    OBVIOUS
  <1>3. There'
    BY <1>2 DEF IInv, There
  <1>4. ASSUME NEW p \in DOMAIN jobset
        PROVE  \E S \in SUBSET Rows[p] : \E l \in UNION {[D -> S] : D \in SUBSET (DOMAIN StartAge)} :
                   Counts(jobset'[p], p, elapsed, S, l) /\ jobset'[p].shares = jobset[p].shares
    <2>1. p \in Jobsets /\ elapsed \in Nat /\ jobset'[p] = PruneSteps(p)
      BY SharesAssumption DEF IInv, Typed
    <2>2. PICK R \in SUBSET Rows[p] : \E k \in UNION {[D -> R] : D \in SUBSET (DOMAIN StartAge)} :
              Counts(jobset[p], p, elapsed, R, k)
      BY DEF IInv, Kept
    <2>3. PICK k : Counts(jobset[p], p, elapsed, R, k) /\ DOMAIN k \subseteq DOMAIN StartAge
      BY <2>2
    <2> QED BY <2>1, <2>3, PruneCounts
  <1>5. Kept'
    BY <1>2, <1>4 DEF Kept, Counts
  <1>6. SharesArrive'
    BY <1>2, <1>4 DEF IInv, SharesArrive
  <1> QED BY <1>1, <1>3, <1>5, <1>6, QueuedSame, PrioSame DEF IInv

(* Where the queue is sorted every runnable step without a try is in it,   *)
(* and they are in the order of their priorities and shares of now.        *)
LEMMA InsertSorts ==
    ASSUME IInv, InsertNewJobs, runnable \ tried # {}
    PROVE  /\ share' \in [Steps -> Used]
           /\ queue' \in Seq(Steps) /\ IsInjective(queue')
           /\ Range(queue') = Range(queue) \cup (runnable \ tried)
           /\ InOrder(queue', sort_fn, share')
           /\ \A s \in Range(queue') : share'[s] = get_lowest_share_used(s)
  <1> DEFINE new == (runnable \ tried) \ Range(queue)
             q == SetToSeq(new)
             js == queue \o q
  <1>1. SortJobs(js, sort_fn)
    BY DEF InsertNewJobs
  <1>2. queue \in Seq(Steps) /\ IsInjective(queue)
    BY DEF IInv, Queued
  <1>3. new \in SUBSET Steps /\ Range(queue) \cap new = {}
        /\ Range(queue) \cup new = Range(queue) \cup (runnable \ tried)
    BY DEF IInv, Typed
  <1> HIDE DEF new
  <1>4. q \in Seq(Steps) /\ IsInjective(q) /\ Range(q) = new
    BY <1>3, NewJobs
  <1> HIDE DEF q
  <1>5. js \in Seq(Steps) /\ IsInjective(js) /\ Range(js) = Range(queue) \cup new
    BY <1>2, <1>3, <1>4, ConcatKeeps
  <1> HIDE DEF js
  <1>6. sort_fn \in SortFns /\ Typed /\ There /\ Kept
    BY DEF IInv, Typed
  <1>7. /\ share' \in [Steps -> Used]
        /\ queue' \in Seq(Steps) /\ IsInjective(queue') /\ Range(queue') = Range(js)
        /\ InOrder(queue', sort_fn, share') /\ \A s \in Range(js) : share'[s] = get_lowest_share_used(s)
    BY <1>1, <1>5, <1>6, SortJobsKeeps
  <1> QED BY <1>3, <1>5, <1>7

LEMMA InsertNewJobsStep ==
    ASSUME IInv, InsertNewJobs
    PROVE  IInv'
  <1>1. /\ disp' = "idle"
        /\ runnable \ tried = {} => UNCHANGED <<share, queue>>
        /\ UNCHANGED <<dbVars, monitor, stepVars, jobset, elapsed, triggered, sort_fn, reload, missed, events>>
    BY DEF InsertNewJobs
  <1>2. share' \in [Steps -> Used] /\ Queued'
    <2>1. CASE runnable \ tried = {}
      BY <1>1, <2>1, QueuedSame DEF IInv, Typed, stepVars
    <2>2. CASE runnable \ tried # {}
      <3>1. /\ share' \in [Steps -> Used] /\ queue' \in Seq(Steps) /\ IsInjective(queue')
            /\ Range(queue') = Range(queue) \cup (runnable \ tried)
        BY <2>2, InsertSorts
      <3>2. Range(queue) \subseteq runnable
        BY DEF IInv, Queued
      <3> QED BY <1>1, <3>1, <3>2 DEF Queued, stepVars
    <2> QED BY <2>1, <2>2
  <1>3. Typed'
    BY <1>1, <1>2 DEF IInv, Typed, dbVars, stepVars
  <1> QED BY <1>1, <1>2, <1>3, ThereSame, KeptSame, PrioSame, SharesSame DEF IInv, dbVars, stepVars

LEMMA ReloadQueuesStep ==
    ASSUME IInv, NEW fn \in SortFns, ReloadQueues(fn)
    PROVE  IInv'
  <1>1. /\ Event /\ SortJobs(queue, sort_fn) /\ reload' = fn
        /\ UNCHANGED <<dbVars, monitor, stepVars, jobset, elapsed, disp, triggered, sort_fn, missed>>
    BY DEF ReloadQueues
  <1>2. share' \in [Steps -> Used] /\ Queued'
    <2>1. queue \in Seq(Steps) /\ IsInjective(queue) /\ Range(queue) \subseteq runnable
      BY DEF IInv, Queued
    <2>2. sort_fn \in SortFns /\ Typed /\ There /\ Kept
      BY DEF IInv, Typed
    <2>3. /\ share' \in [Steps -> Used]
          /\ queue' \in Seq(Steps) /\ IsInjective(queue') /\ Range(queue') = Range(queue)
      BY <1>1, <2>1, <2>2, SortJobsKeeps
    <2> QED BY <1>1, <2>1, <2>3 DEF Queued, stepVars
  <1>3. Typed'
    BY <1>1, <1>2, EventNat DEF IInv, Typed, dbVars, stepVars
  <1> QED BY <1>1, <1>2, <1>3, ThereSame, KeptSame, PrioSame, SharesSame DEF IInv, dbVars, stepVars

LEMMA ReloadSwapStep ==
    ASSUME IInv, ReloadSwap
    PROVE  IInv'
  <1> USE DEF ReloadSwap, dbVars, stepVars, dispVars
  <1>1. Typed'
    BY DEF IInv, Typed
  <1> QED BY <1>1, QueuedSame, ThereSame, KeptSame, PrioSame, SharesSame DEF IInv

(* What is in the window later was in it before. *)
LEMMA TickStep ==
    ASSUME IInv, Tick
    PROVE  IInv'
  <1> USE DEF Tick, dbVars, stepVars, dispVars
  <1>1. elapsed \in Nat /\ elapsed' = elapsed + 1 /\ SchedulingWindow \in Nat
    BY SharesAssumption DEF IInv, Typed
  <1>2. Typed'
    BY <1>1 DEF IInv, Typed
  <1>3. ASSUME NEW p \in Jobsets
        PROVE  Young(p, elapsed') \subseteq Young(p, elapsed)
    <2> SUFFICES ASSUME NEW r \in Rows[p], StartAge[r[2]] + elapsed' < SchedulingWindow
                 PROVE  StartAge[r[2]] + elapsed < SchedulingWindow
      BY DEF Young
    <2>1. StartAge[r[2]] \in Nat
      <3>1. Rows[p] \in SUBSET Rows[p]
        OBVIOUS
      <3> QED BY <3>1, RowFacts
    <2> QED BY <1>1, <2>1
  <1>4. Kept'
    <2> SUFFICES ASSUME NEW p \in DOMAIN jobset
                 PROVE  \E R \in SUBSET Rows[p] :
                            \E k \in UNION {[D -> R] : D \in SUBSET (DOMAIN StartAge)} :
                                Counts(jobset[p], p, elapsed', R, k)
      BY DEF Kept, Counts
    <2>1. p \in Jobsets
      BY DEF IInv, Typed
    <2>2. PICK R \in SUBSET Rows[p] : \E k \in UNION {[D -> R] : D \in SUBSET (DOMAIN StartAge)} :
              Counts(jobset[p], p, elapsed, R, k)
      BY DEF IInv, Kept
    <2>3. PICK k \in UNION {[D -> R] : D \in SUBSET (DOMAIN StartAge)} : Counts(jobset[p], p, elapsed, R, k)
      BY <2>2
    <2>4. Counts(jobset[p], p, elapsed', R, k)
      BY <1>3, <2>1, <2>3 DEF Counts
    <2> QED BY <2>3, <2>4
  <1> QED BY <1>2, <1>4, QueuedSame, ThereSame, PrioSame, SharesSame DEF IInv

LEMMA NextInv == IInv /\ [Next]_vars => IInv'
  <1> SUFFICES ASSUME IInv, [Next]_vars PROVE IInv'
    OBVIOUS
  <1>1. CASE Monitor
    <2>1. CASE ReadBuilds
      BY <2>1, ReadBuildsStep
    <2>2. CASE ReadShares
      BY <2>2, ReadSharesStep
    <2>3. CASE CreateJobset
      BY <2>3, CreateJobsetStep
    <2>4. CASE CreateBuild
      BY <2>4, CreateBuildStep
    <2>5. CASE EndRun
      BY <2>5, EndRunStep
    <2>6. CASE Notified("bumped") \/ Notified("shares")
      BY <2>6, NotifiedStep
    <2>7. CASE ProcessQueueChange
      BY <2>7, ProcessQueueChangeStep
    <2>8. CASE HandleChange
      BY <2>8, HandleChangeStep
    <2> QED BY <1>1, <2>1, <2>2, <2>3, <2>4, <2>5, <2>6, <2>7, <2>8 DEF Monitor
  <1>2. CASE ReadFails
    BY <1>2, ReadFailsStep
  <1>3. CASE Dispatcher
    BY <1>3, PruneStep, InsertNewJobsStep DEF Dispatcher
  <1>4. CASE ReloadSwap
    BY <1>4, ReloadSwapStep
  <1>5. CASE Tick
    BY <1>5, TickStep
  <1>6. CASE \E b \in Builds, n \in Priorities : Bump(b, n)
    BY <1>6, BumpStep
  <1>7. CASE \E p \in Jobsets, n \in SharesOf : ChangeShares(p, n)
    BY <1>7, ChangeSharesStep
  <1>8. CASE \E s \in Steps : MakeRunnable(s) \/ Retry(s) \/ EndStep(s)
    BY <1>8, MakeRunnableStep, RetryStep, EndStepStep
  <1>9. CASE \E fn \in SortFns : ReloadQueues(fn)
    BY <1>9, ReloadQueuesStep
  <1>10. CASE UNCHANGED vars
    BY <1>10, SameNext
  <1> QED BY <1>1, <1>2, <1>3, <1>4, <1>5, <1>6, <1>7, <1>8, <1>9, <1>10 DEF Next

-----------------------------------------------------------------------------
(* What holds in every behaviour.                                          *)

(* The conjuncts of IInv hold together after every step: types, jobsets    *)
(* that exist for every step that counts for them, seconds that are those  *)
(* of known rows, and changes of the database that are on their way.       *)
THEOREM Inductive == Spec => []IInv
  BY InitInv, NextInv, PTL DEF Spec

(* The variables have their types: in particular no job is in the queue    *)
(* twice (insert_new_jobs looks its step up first), and only runnable      *)
(* steps are.                                                              *)
THEOREM TypeCorrect == Spec => []TypeOK
  <1>1. IInv => TypeOK
    <2> SUFFICES ASSUME IInv PROVE TypeOK
      OBVIOUS
    <2>1. Range(global) \subseteq Priorities
      BY DEF IInv, Typed, Range
    <2>2. monitor.pc \in {"wait", "read", "run", "bumped", "shares"}
      BY DEF IInv, Typed, MonType
    <2>3. \A p \in DOMAIN jobset : jobset[p].shares \in SharesOf /\ jobset[p].seconds \in Nat
      BY KeptJobset DEF IInv
    <2> QED BY <2>1, <2>2, <2>3 DEF IInv, Typed, Queued, TypeOK
  <1> QED BY <1>1, Inductive, PTL

(* legacy_compare and compare_with_rdeps are strict weak orders of the     *)
(* jobs, whatever priorities, shares and reverse dependencies they have:   *)
(* the comparison of shares as fractions is transitive, and ties are.      *)
THEOREM OrderIsOne == Spec => []CompareIsOrder
  <1>1. IInv => CompareIsOrder
    <2> SUFFICES ASSUME IInv, NEW fn \in SortFns,
                        NEW s \in Range(queue), NEW t \in Range(queue), NEW u \in Range(queue)
                 PROVE  LET less(x, y) == Before(fn, Info(x, share[x]), Info(y, share[y]))
                            tied(x, y) == ~less(x, y) /\ ~less(y, x)
                        IN /\ ~(less(s, t) /\ less(t, s))
                           /\ less(s, t) /\ less(t, u) => less(s, u)
                           /\ tied(s, t) /\ tied(t, u) => tied(s, u)
      BY Zenon DEF CompareIsOrder
    <2>1. s \in Steps /\ t \in Steps /\ u \in Steps
      BY DEF IInv, Typed, Queued
    <2>2. share[s] \in Used /\ share[t] \in Used /\ share[u] \in Used
      BY <2>1 DEF IInv, Typed
    <2>3. Info(s, share[s]) \in JobInfo /\ Info(t, share[t]) \in JobInfo /\ Info(u, share[u]) \in JobInfo
      BY <2>1, <2>2, InfoTyped DEF IInv
    <2> QED BY <2>3, BeforeOrder
  <1> QED BY <1>1, Inductive, PTL

(* The seconds of a jobset are never below those of its steps in the last  *)
(* SchedulingWindow, whatever rows it was created from, however many of    *)
(* them have one start, and whenever it was pruned.                        *)
THEOREM WindowCovered == Spec => []UsedCoversWindow
  <1>1. IInv => UsedCoversWindow
    <2> SUFFICES ASSUME IInv, NEW p \in DOMAIN jobset
                 PROVE  jobset[p].seconds >= Seconds(Young(p, elapsed))
      BY DEF UsedCoversWindow, Young
    <2>1. p \in Jobsets
      BY DEF IInv, Typed
    <2>2. PICK R \in SUBSET Rows[p] : jobset[p].seconds = Seconds(R) /\ Young(p, elapsed) \subseteq R
      BY DEF IInv, Kept, Counts
    <2> DEFINE Y == Young(p, elapsed)
    <2>3. Y \in SUBSET R /\ Y \in SUBSET Rows[p] /\ R \ Y \in SUBSET Rows[p]
      BY <2>2
    <2> HIDE DEF Y
    <2>4. Seconds(Y) \in Nat /\ Seconds(R \ Y) \in Nat
      BY <2>1, <2>3, RowFacts
    <2>5. IsFiniteSet(R) /\ \A r \in R : Duration[r] \in Nat
      BY <2>1, RowFacts
    <2>6. Seconds(R) = Seconds(Y) + Seconds(R \ Y)
      BY <2>3, <2>5, SumSplit DEF Seconds
    <2> QED BY <2>2, <2>4, <2>6 DEF Y
  <1> QED BY <1>1, Inductive, PTL

(* When the monitor waits and no notification is left, no step is below    *)
(* the priority of a build that needs it, and jobsets have their shares    *)
(* unless handle_change failed: for any number of changes, at any moment   *)
(* of a queue run, and after any failure of process_queue_change.          *)
THEOREM ChangesReachSteps == Spec => []ChangesArrive
  <1>1. IInv => ChangesArrive
    BY DEF IInv, PrioArrive, SharesArrive, AtSteps, ChangesArrive
  <1> QED BY <1>1, Inductive, PTL

(* insert_new_jobs, when a runnable step has not been tried, leaves every  *)
(* such step in the queue, loses none that was there, gives each the share *)
(* its jobsets have used then, and the queue in the order of sort_fn.      *)
Sorts ==
    InsertNewJobs /\ runnable \ tried # {} =>
        /\ Range(queue') = Range(queue) \cup (runnable \ tried)
        /\ \A s \in Range(queue') : share'[s] = get_lowest_share_used(s)
        /\ InOrder(queue', sort_fn, share')

(* Sorts holds of every step. *)
THEOREM QueueSorted == Spec => [][Sorts]_vars
  <1>1. IInv => Sorts
    BY InsertSorts DEF Sorts
  <1>2. IInv /\ [Next]_vars => [Sorts]_vars
    BY <1>1
  <1> QED BY <1>2, Inductive, PTL DEF Spec
=============================================================================
