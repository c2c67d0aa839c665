---------------------------- MODULE MCServerStream ----------------------------
(* Small instances of ServerStream for TLC: a call of any kind by itself, for   *)
(* they share nothing, and two that want the same gate.                        *)
EXTENDS ServerStream, TLC

CONSTANTS s1, s2

AloneOrAtTheGate == [{s1} -> {"fetch", "crawl", "pages", "map"}] \union [{s1, s2} -> {"embed"}]

FramesPerKind == [k \in AllKinds |-> IF k = "pages" THEN 4 ELSE 2]
=============================================================================
