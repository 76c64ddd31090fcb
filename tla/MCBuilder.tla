----------------------------- MODULE MCBuilder -----------------------------
(* Two jobs of one derivation, that of a first try and that of a retry:    *)
(* the derivation file is imported first, then a dependency, which the     *)
(* output refers to; the output holds two debug files.                     *)
EXTENDS Builder

CONSTANTS drv, dep, out, d1

MCPaths   == {drv, dep, out}
MCRefs    == [p \in MCPaths |-> IF p = out THEN {dep} ELSE {}]
MCNarHash == [p \in MCPaths |-> p]
MCDebug   == [p \in MCPaths |-> IF p = out THEN {1, 2} ELSE {}]
MCDrvOf   == [j \in Jobs |-> d1]
MCClosure == [d \in {d1} |-> {drv}]
MCFull    == [d \in {d1} |-> {drv, dep}]
MCOuts    == [d \in {d1} |-> {out}]
=============================================================================
