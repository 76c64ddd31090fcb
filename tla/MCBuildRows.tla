---------------------------- MODULE MCBuildRows ----------------------------
(* Three builds that depend on a step, the top level of the first; the     *)
(* queue monitor creates the second.  With two that need rows when it      *)
(* fails, transactions of two processes can wait for each other.           *)
EXTENDS BuildRows

CONSTANTS b1, b2, b3, s1

MCBuildOf    == [s \in {s1} |-> b1]
MCDirect     == [s \in {s1} |-> {b1}]
MCDependents == [s \in {s1} |-> {b1, b2, b3}]
=============================================================================
