---------------------------- MODULE MCGatedUpload ----------------------------
(* Small instances of GatedUpload for TLC. *)
EXTENDS GatedUpload

CONSTANTS u1, u2

\* Calls meet only at the gate: one gated upload beside one of each style.
GatedAndAny == {[c \in Call |-> IF c = u1 THEN "collect" ELSE other] :
                 other \in {"collect", "save", "clientStream", "attachments"}}
GatedAlone == {[c \in Call |-> "collect"]}
=============================================================================
