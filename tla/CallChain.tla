------------------------------ MODULE CallChain ------------------------------
(***************************************************************************)
(* A unary call through the chain of interceptors that rootpuller.go builds:   *)
(* the token (internal/transport/auth.go) once, the retry loop around the      *)
(* attempts (Retry), and innermost, for each attempt, the service's gate        *)
(* (internal/transport/backpressure.go).  Headers and otel keep no state.       *)
(*                                                                          *)
(* Other calls appear as the slots they hold and the pauses they cause; the     *)
(* gate is reduced to its capacity and its pause, and BackpressureGate has the *)
(* rest.                                                                     *)
(***************************************************************************)
EXTENDS Retry

CONSTANTS
  Slots,           \* effective concurrency of the gate
  Pauses,          \* how long a shed without a hint pauses the gate for
  MaxShedDelay,    \* the longest delay a shed asks for, before its jitter
  BreakerCooldown  \* the pause of a tripped breaker

ASSUME ChainAssumption ==
  /\ Slots \in Nat \ {0} /\ Pauses \subseteq Nat
  /\ MaxShedDelay \in Nat /\ BreakerCooldown \in Nat

VARIABLES
  at,         \* "token"; "pause", "sleep", "slot", "wait" (acquire); "transport";
              \* "loop" (between attempts); "done"
  others,     \* slots other calls hold
  pauseUntil, \* shedUntil
  shedHint    \* the hint of the shed that ended the last attempt, 0 for none

gateVars == <<others, pauseUntil, shedHint>>
chainVars == <<vars, at, gateVars>>

ChainInit ==
  /\ Init
  /\ at = "token" /\ others = 0 /\ pauseUntil = 0 /\ shedHint = 0

Least(a, b) == IF a < b THEN a ELSE b
Greatest(a, b) == IF a > b THEN a ELSE b

\* A slot is held while the transport has the attempt, and no longer.
InUse == others + IF at = "transport" THEN 1 ELSE 0

\* What a shed asks for: the hint or a delay of the gate's, capped, with up to
\* a fifth of jitter; the breaker may widen it.
ShedDelays(h) ==
  LET capped == {Least(d, MaxShedDelay) : d \in IF h > 0 THEN {h} ELSE Pauses}
      jittered == UNION {d .. d + (d + 4) \div 5 : d \in capped}
  IN jittered \union {Greatest(d, BreakerCooldown) : d \in jittered}

\* Mutant: a later shed replaces the pause, be it shorter.
Replace(delay) == pauseUntil' = now + delay

\* pauseUntil only ever moves the pause out.
Extend(delay) == pauseUntil' = Greatest(pauseUntil, now + delay)

-----------------------------------------------------------------------------
(* The token, outside the loop: an error of its is not retried, and the source *)
(* is not given the context                                                  *)

FetchToken ==
  /\ at = "token"
  /\ at' \in {"pause", "done"}
  /\ UNCHANGED <<vars, gateVars>>

-----------------------------------------------------------------------------
(* acquire *)

Sleep ==
  /\ at = "pause" /\ now < pauseUntil
  /\ at' = "sleep"
  /\ UNCHANGED <<vars, gateVars>>

\* The pause is over, at the first look or after a sleep; it is not looked at again.
PassPause ==
  /\ at \in {"pause", "sleep"} /\ now >= pauseUntil
  /\ at' = "slot"
  /\ UNCHANGED <<vars, gateVars>>

\* The context is looked at only after a wait.
Admit ==
  /\ at = "slot" \/ (at = "wait" /\ ~ctxDone)
  /\ InUse < Slots
  /\ at' = "transport"
  /\ UNCHANGED <<vars, gateVars>>

Wait ==
  /\ at = "slot" /\ InUse >= Slots /\ ~ctxDone
  /\ at' = "wait"
  /\ UNCHANGED <<vars, gateVars>>

\* acquire returns the context's error, which is not a transient one.
AcquireFails ==
  /\ ctxDone
  /\ at \in {"sleep", "wait"} \/ (at = "slot" /\ InUse >= Slots)
  /\ FailForGood /\ hint' = 0
  /\ at' = "done"
  /\ UNCHANGED gateVars

Acquire == Sleep \/ PassPause \/ Admit \/ Wait \/ AcquireFails

-----------------------------------------------------------------------------
(* The answer to an attempt: the slot is given back before anything is made of it *)

Succeeds ==
  /\ at = "transport" /\ Succeed
  /\ at' = "done"
  /\ UNCHANGED gateVars

\* The transport or the server fails the attempt.
Fails ==
  /\ at = "transport" /\ (FailForGood \/ FailTransiently)
  /\ at' = IF pc' = "returned" THEN "done" ELSE "loop"
  /\ shedHint' = 0
  /\ UNCHANGED <<others, pauseUntil>>

\* RESOURCE_EXHAUSTED pauses the gate too.  The loop reads the hint from the
\* error's details only, the gate from a trailer as well.
Shed ==
  /\ at = "transport" /\ FailTransiently
  /\ at' = IF pc' = "returned" THEN "done" ELSE "loop"
  /\ shedHint' \in Hints
  /\ hint' \in {shedHint', 0}
  /\ \E delay \in ShedDelays(shedHint') : Extend(delay)
  /\ UNCHANGED others

-----------------------------------------------------------------------------
(* Between attempts *)

Back ==
  /\ at = "loop"
  /\ GiveUp \/ StartWait \/ Panic \/ Cancelled
  /\ at' = IF pc' \in {"returned", "panicked"} THEN "done" ELSE "loop"
  /\ UNCHANGED gateVars

Again ==
  /\ at = "loop" /\ Fire
  /\ at' = "pause"
  /\ UNCHANGED gateVars

-----------------------------------------------------------------------------
(* The other calls, the clock and the caller *)

\* A call may have passed the pause before it was opened.
OtherAdmitted ==
  /\ InUse < Slots
  /\ others' = others + 1
  /\ UNCHANGED <<vars, at, pauseUntil, shedHint>>

OtherReturns ==
  /\ others > 0
  /\ others' = others - 1
  /\ \/ UNCHANGED pauseUntil
     \/ \E h \in Hints : \E delay \in ShedDelays(h) : Extend(delay)
  /\ UNCHANGED <<vars, at, shedHint>>

\* The retry budget begins with the loop, so the token's time does not count.
Passing ==
  /\ at # "done"
  /\ (at # "token" /\ Tick) \/ EndContext
  /\ UNCHANGED <<at, gateVars>>

ChainNext ==
  \/ FetchToken \/ Acquire \/ Succeeds \/ Fails \/ Shed \/ Back \/ Again
  \/ OtherAdmitted \/ OtherReturns \/ Passing

\* The call's own goroutine runs but for the token source, which may hang; a
\* transport heeds its context.
ChainSpec ==
  /\ ChainInit /\ [][ChainNext]_chainVars
  /\ WF_chainVars(Acquire) /\ WF_chainVars(Back)
  /\ WF_chainVars(ctxDone /\ (Succeeds \/ Fails \/ Shed))

-----------------------------------------------------------------------------
(* Properties *)

ChainTypeOK ==
  /\ TypeOK
  /\ at \in {"token", "pause", "sleep", "slot", "wait", "transport", "loop", "done"}
  /\ others \in Nat /\ pauseUntil \in Nat /\ shedHint \in Hints \union {0}

\* An attempt that was shed with a hint is not repeated before the hint is over,
\* or the cap on it: the loop by itself may come back after half of it, or knows
\* nothing of it, and it is the gate's pause that keeps the call out, whatever
\* other calls' sheds make of that pause meanwhile (retry.go 46-55,
\* backpressure.go 93-96, 250-263 and 375-377).
ShedHintWaitedOut ==
  at = "transport" /\ shedHint > 0 => now >= failedAt + Least(shedHint, MaxShedDelay)

\* A call whose context ends comes back, be it in the pause, the wait for a slot,
\* the transport or the backoff.  Only the token source may keep it: bearer does
\* not hand it the context (auth.go 56-57).
CancelledCallReturns == ctxDone /\ at # "token" ~> at = "done"

\* Whatever the token and the gate do, the chain takes no step that the retry
\* loop by itself does not take.
LoopKept == Spec
=============================================================================
