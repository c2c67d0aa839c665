---------------------------- MODULE AdmissionGate ----------------------------
(***************************************************************************)
(* What the gate of internal/transport/backpressure.go promises its callers: *)
(* a resizable counting semaphore.  A call is admitted only while fewer than *)
(* `capacity` calls are in; capacity moves between 1 and what the client     *)
(* knows of the server, and a call that is in stays in until it leaves.      *)
(***************************************************************************)
EXTENDS Integers, FiniteSets

CONSTANT Call

VARIABLES
  held,       \* the calls that are in
  capacity    \* how many may be in before nobody else is let in

Init == held = {} /\ capacity \in Nat \ {0}

Enter(c) ==
  /\ c \notin held
  /\ Cardinality(held) < capacity
  /\ held' = held \union {c}
  /\ UNCHANGED capacity

Leave(c) ==
  /\ c \in held
  /\ held' = held \ {c}
  /\ UNCHANGED capacity

\* Growth, decrease, clamp and breaker: nobody in is thrown out.
Resize ==
  /\ capacity' \in Nat \ {0}
  /\ UNCHANGED held

Next == Resize \/ \E c \in Call : Enter(c) \/ Leave(c)

Spec == Init /\ [][Next]_<<held, capacity>>
=============================================================================
