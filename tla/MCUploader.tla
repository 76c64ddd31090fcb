----------------------------- MODULE MCUploader -----------------------------
(* Two messages, one of an output and one of a dependency it refers to. *)
EXTENDS Uploader

CONSTANTS m1, m2, out, dep

MCPaths   == {out, dep}
MCRefs    == [p \in MCPaths |-> IF p = out THEN {dep} ELSE {}]
MCNarHash == [p \in MCPaths |-> p]
MCDebug   == [p \in MCPaths |-> IF p = out THEN {1} ELSE {}]
MCOuts    == [m \in Msgs |-> IF m = m1 THEN {out} ELSE {dep}]
=============================================================================
