------------------------------ MODULE Attempts ------------------------------
(***************************************************************************)
(* What the queue runner promises of its builds, whatever its tasks and    *)
(* maps do: a derivation is built on one machine at a time, on one that    *)
(* has room for it, and a row of the builds table says "succeeded" only    *)
(* after the outputs of its derivation got into the store.  Only a queued  *)
(* build fails; a success may overwrite another end, as                    *)
(* Transaction::mark_succeeded_build does.                                 *)
(***************************************************************************)
EXTENDS Naturals, FiniteSets

CONSTANTS Drvs, Machines, Builds, TopDrv, MaxJobs

VARIABLES
    on,      \* drv -> the machines that have a job for it
    stored,  \* derivations whose outputs are in the store
    row      \* build -> state of its row

vars == <<on, stored, row>>

Init ==
    /\ on = [d \in Drvs |-> {}]
    /\ stored = {}
    /\ row \in [Builds -> {"absent", "queued"}]

(* An attempt to build d begins on a machine with room. *)
Start(d, m) ==
    /\ on[d] = {}
    /\ Cardinality({x \in Drvs : m \in on[x]}) < MaxJobs
    /\ on' = [on EXCEPT ![d] = {m}]
    /\ UNCHANGED <<stored, row>>

(* It ends: with a result, with its machine, or because nobody wants it. *)
Stop(d) ==
    /\ on[d] # {}
    /\ on' = [on EXCEPT ![d] = {}]
    /\ UNCHANGED <<stored, row>>

(* The outputs of d arrive. *)
Store(d) ==
    /\ stored' = stored \cup {d}
    /\ UNCHANGED <<on, row>>

Ended(bs, outcome) == [b \in Builds |-> IF b \in bs THEN outcome ELSE row[b]]

(* Builds that want d succeed together. *)
Succeed(d, bs) ==
    /\ d \in stored
    /\ \A b \in bs : TopDrv[b] = d /\ row[b] # "absent"
    /\ row' = Ended(bs, "succeeded")
    /\ UNCHANGED <<on, stored>>

(* Builds that want d fail together. *)
Fail(d, bs) ==
    /\ \A b \in bs : TopDrv[b] = d /\ row[b] = "queued"
    /\ row' = Ended(bs, "failed")
    /\ UNCHANGED <<on, stored>>

Add(b) ==
    /\ row[b] = "absent"
    /\ row' = [row EXCEPT ![b] = "queued"]
    /\ UNCHANGED <<on, stored>>

Cancel(b) ==
    /\ row[b] = "queued"
    /\ row' = [row EXCEPT ![b] = "cancelled"]
    /\ UNCHANGED <<on, stored>>

Next ==
    \/ \E d \in Drvs : \/ \E m \in Machines : Start(d, m)
                       \/ Stop(d) \/ Store(d)
                       \/ \E bs \in SUBSET Builds : Succeed(d, bs) \/ Fail(d, bs)
    \/ \E b \in Builds : Add(b) \/ Cancel(b)

Spec == Init /\ [][Next]_vars
=============================================================================
