------------------------------- MODULE Delivery -------------------------------
(***************************************************************************)
(* What a reader of a server stream is promised: it is handed the frames the   *)
(* server offered, in order and each once, and then exactly one verdict.  It   *)
(* may give up at any time, but takes an answer as whole only when the server  *)
(* ended well, nothing is left, and the terminal frame it is owed was among    *)
(* what it took.                                                             *)
(***************************************************************************)
EXTENDS Naturals, Sequences

CONSTANTS
  Call,    \* calls that read a stream
  Frames,  \* frames a server may offer
  Terminal \* those that end an answer

VARIABLES
  owed,    \* the calls whose answer ends with a terminal frame
  offered, \* per call: the frames the server sent
  status,  \* how it ended: "open", "ok" or "error"
  taken,   \* how many of the frames the reader was handed
  verdict  \* "none", "whole" or "partial"

vars == <<owed, offered, status, taken, verdict>>

Init ==
  /\ owed \subseteq Call
  /\ offered = [c \in Call |-> <<>>]
  /\ status = [c \in Call |-> "open"]
  /\ taken = [c \in Call |-> 0]
  /\ verdict = [c \in Call |-> "none"]

\* The server offers a frame, or ends.
Offer(c) ==
  /\ status[c] = "open"
  /\ \E f \in Frames : offered' = [offered EXCEPT ![c] = Append(@, f)]
  /\ UNCHANGED <<owed, status, taken, verdict>>

Seal(c) ==
  /\ status[c] = "open"
  /\ \E s \in {"ok", "error"} : status' = [status EXCEPT ![c] = s]
  /\ UNCHANGED <<owed, offered, taken, verdict>>

\* The reader is handed the next frame.
Take(c) ==
  /\ verdict[c] = "none" /\ taken[c] < Len(offered[c])
  /\ taken' = [taken EXCEPT ![c] = @ + 1]
  /\ UNCHANGED <<owed, offered, status, verdict>>

Accept(c) ==
  /\ verdict[c] = "none"
  /\ status[c] = "ok" /\ taken[c] = Len(offered[c])
  /\ c \in owed => \E i \in 1 .. taken[c] : offered[c][i] \in Terminal
  /\ verdict' = [verdict EXCEPT ![c] = "whole"]
  /\ UNCHANGED <<owed, offered, status, taken>>

GiveUp(c) ==
  /\ verdict[c] = "none"
  /\ verdict' = [verdict EXCEPT ![c] = "partial"]
  /\ UNCHANGED <<owed, offered, status, taken>>

Next == \E c \in Call : Offer(c) \/ Seal(c) \/ Take(c) \/ Accept(c) \/ GiveUp(c)

Spec == Init /\ [][Next]_vars
=============================================================================
