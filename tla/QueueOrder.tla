------------------------------ MODULE QueueOrder ------------------------------
(***************************************************************************)
(* The orders jobs and machines are sorted by: the two comparisons of      *)
(* StepInfo, the share of a jobset, and the score of a machine.            *)
(***************************************************************************)
EXTENDS Naturals, Sequences, FiniteSets

(* Vec::sort_by: a stable sort by a strict order. *)
StableSort(s, Less(_, _)) ==
    LET first(k, i) == IF k < i THEN ~Less(s[i], s[k]) ELSE Less(s[k], s[i])
        rank(i) == Cardinality({k \in 1..Len(s) : k = i \/ first(k, i)})
    IN [i \in 1..Len(s) |-> s[CHOOSE k \in 1..Len(s) : rank(k) = i]]

(* share_used: seconds / shares, as the pair of both; set_shares asserts   *)
(* that the latter is positive.                                            *)
LessUsed(u, v) == u[1] * v[2] < v[1] * u[2]

(* get_lowest_share_used: the least of the jobsets of the step, 1e9        *)
(* without one.                                                            *)
NoJobset == <<1000000000, 1>>
LowestShareUsed(used) ==
    IF used = {} THEN NoJobset ELSE CHOOSE u \in used : \A v \in used : ~LessUsed(v, u)

(* A job is [global, share, rdeps, local, id]; the one that comes first in *)
(* the queue is the lesser.  Every comparison is taken if the ones before  *)
(* it find no difference.                                                  *)
SameShare(a, b) == ~LessUsed(a.share, b.share) /\ ~LessUsed(b.share, a.share)

(* Mutant of legacy_compare: the share decides whenever it is lower. *)
ShareDecides(a, b) ==
    \/ a.global > b.global
    \/ LessUsed(a.share, b.share)
    \/ /\ a.global = b.global /\ SameShare(a, b)
       /\ a.local > b.local \/ (a.local = b.local /\ a.id < b.id)

legacy_compare(a, b) ==
    \/ a.global > b.global
    \/ a.global = b.global /\ LessUsed(a.share, b.share)
    \/ /\ a.global = b.global /\ SameShare(a, b)
       /\ a.local > b.local \/ (a.local = b.local /\ a.id < b.id)

compare_with_rdeps(a, b) ==
    \/ a.global > b.global
    \/ a.global = b.global /\ LessUsed(a.share, b.share)
    \/ a.global = b.global /\ SameShare(a, b) /\ a.rdeps > b.rdeps
    \/ /\ a.global = b.global /\ SameShare(a, b) /\ a.rdeps = b.rdeps
       /\ a.local > b.local \/ (a.local = b.local /\ a.id < b.id)

Before(sort_fn, a, b) ==
    IF sort_fn = "Legacy" THEN legacy_compare(a, b) ELSE compare_with_rdeps(a, b)

(* The score of a machine [speed_factor, cpu_count, bogomips]. *)
Score(sort_fn, m) ==
    CASE sort_fn = "SpeedFactorOnly" -> m.speed_factor
      [] sort_fn = "CpuCoreCountWithSpeedFactor" -> m.speed_factor * m.cpu_count
      [] sort_fn = "BogomipsWithSpeedFactor" ->
            m.speed_factor * m.cpu_count * (IF m.bogomips > 1 THEN m.bogomips ELSE 1)
=============================================================================
