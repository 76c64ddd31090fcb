----------------------------- MODULE MCDispatch -----------------------------
(***************************************************************************)
(* Small instances of Dispatch: one derivation that all builds want.       *)
(***************************************************************************)
EXTENDS DispatchAttempts, TLC

CONSTANTS d1, s1, s2, b1, b2

OneDrvOf == [st \in Steps |-> d1]
OneTopDrv == [b \in Builds |-> d1]
AllSupported == [m \in Machines |-> Drvs]

(* The objects of the pools are interchangeable. *)
OneSymmetry == Permutations(Infos) \cup Permutations(Uuids) \cup Permutations(Steps)
=============================================================================
