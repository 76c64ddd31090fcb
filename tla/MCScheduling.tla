---------------------------- MODULE MCScheduling ----------------------------
(* Two machines that the sort functions order differently. *)
EXTENDS Scheduling, TLC

CONSTANTS m1, m2, j1, j2

MCHardware == m1 :> [speed_factor |-> 2, cpu_count |-> 1, bogomips |-> 0]
           @@ m2 :> [speed_factor |-> 1, cpu_count |-> 4, bogomips |-> 3]
MCMaxJobs  == m1 :> 2 @@ m2 :> 1
MCCanBuild == m1 :> {j1, j2} @@ m2 :> {j1, j2}

MCConfig0 == [machine_sort_fn |-> "SpeedFactorOnly", machine_free_fn |-> "Static"]
MCConfigs == {MCConfig0,
    [machine_sort_fn |-> "BogomipsWithSpeedFactor", machine_free_fn |-> "Dynamic"],
    [machine_sort_fn |-> "CpuCoreCountWithSpeedFactor", machine_free_fn |-> "DynamicWithMaxJobLimit"]}
=============================================================================
