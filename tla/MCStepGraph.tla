---------------------------- MODULE MCStepGraph ----------------------------
(* Small graphs for StepGraph: a diamond of four derivations and a chain   *)
(* of two, the latter with two identities per derivation so that a step    *)
(* may be created again while an older one of its derivation lives.        *)
EXTENDS StepGraph, TLC

CONSTANTS top, left, right, leaf, t1, t2, l1, r1, f1, f2, b1, b2

DiamondInputs == top :> <<left, right>> @@ left :> <<leaf>> @@ right :> <<leaf>> @@ leaf :> <<>>
DiamondSteps  == {t1, l1, r1, f1}
DiamondDrvOf  == t1 :> top @@ l1 :> left @@ r1 :> right @@ f1 :> leaf

ChainInputs == top :> <<leaf>> @@ leaf :> <<>>
ChainSteps  == {t1, t2, f1, f2}
ChainDrvOf  == t1 :> top @@ t2 :> top @@ f1 :> leaf @@ f2 :> leaf

TopAndLeaf == b1 :> top @@ b2 :> leaf
TopOnly    == b1 :> top
============================================================================
