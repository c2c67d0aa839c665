-------------------------------- MODULE Retry --------------------------------
(***************************************************************************)
(* internal/transport/retry.go: the retry interceptor's loop around one       *)
(* unary call.  Time is discrete and starts with the call; the transport may  *)
(* take any time to answer, a timer fires when it is due or up to Lateness    *)
(* later, and the caller's context may end at any moment.  Durations are      *)
(* signed integers that wrap above MaxInt (int64 in the code).               *)
(***************************************************************************)
EXTENDS Integers

CONSTANTS
  MaxAttempts, MaxElapsed, InitialInterval, \* RetryConfig
  Hints,    \* RetryAfter values a failure may carry, 0 for none
  MaxInt,   \* the largest duration
  Lateness, \* how late a timer may fire
  MaxTime   \* bound: the clock stops here

\* WithRetry replaces what is not positive by a default (options.go 101-111).
ASSUME RetryAssumption ==
  /\ MaxAttempts \in Nat \ {0} /\ MaxElapsed \in Nat \ {0} /\ InitialInterval \in Nat \ {0}
  /\ Hints \subseteq Nat
  /\ MaxInt \in Nat /\ Lateness \in Nat
  /\ MaxTime \in Nat /\ MaxElapsed + Lateness <= MaxTime
  /\ InitialInterval <= MaxInt /\ \A h \in Hints : h <= MaxInt

VARIABLES
  pc,       \* "calling", "backoff", "waiting", "returned" or "panicked"
  attempt,  \* calls made so far
  interval, \* the next scheduled delay
  lastErr,  \* the attempt whose failure lastErr holds, 0 for nil
  hint,     \* its RetryAfter
  asked,    \* the delay the current wait was drawn from
  fireAt,   \* when the timer is due
  failedAt, \* when the last attempt failed
  now,
  ctxDone,  \* the caller's context has ended
  outcome   \* what the interceptor returned

timeVars == <<now, ctxDone>>
vars == <<pc, attempt, interval, lastErr, hint, asked, fireAt, failedAt, timeVars, outcome>>

Duration == -MaxInt - 1 .. MaxInt

Wrap(x) == IF x > MaxInt THEN x - 2 * (MaxInt + 1)
           ELSE IF x < -MaxInt - 1 THEN x + 2 * (MaxInt + 1) ELSE x

Init ==
  /\ pc = "calling" /\ attempt = 1 /\ interval = InitialInterval
  /\ lastErr = 0 /\ hint = 0 /\ asked = 0 /\ fireAt = 0 /\ failedAt = 0
  /\ now = 0 /\ ctxDone = FALSE /\ outcome = "none"

Return(what) == pc' = "returned" /\ outcome' = what

-----------------------------------------------------------------------------
(* next(ctx, req) returns *)

Succeed ==
  /\ pc = "calling"
  /\ Return("response")
  /\ UNCHANGED <<attempt, interval, lastErr, hint, asked, fireAt, failedAt, timeVars>>

FailForGood ==
  /\ pc = "calling"
  /\ lastErr' = attempt
  /\ hint' \in Hints
  /\ failedAt' = now
  /\ Return("lastErr")
  /\ UNCHANGED <<attempt, interval, asked, fireAt, timeVars>>

\* Mutant: only the first failure is kept.
KeepFirst == lastErr' = IF lastErr = 0 THEN attempt ELSE lastErr

KeepLast == lastErr' = attempt

\* IsTransient: another attempt, while there are any left.
FailTransiently ==
  /\ pc = "calling"
  /\ KeepLast
  /\ hint' \in Hints
  /\ failedAt' = now
  /\ IF attempt = MaxAttempts THEN Return("lastErr")
     ELSE pc' = "backoff" /\ UNCHANGED outcome
  /\ UNCHANGED <<attempt, interval, asked, fireAt, timeVars>>

-----------------------------------------------------------------------------
(* Waiting *)

\* The server's hint wins over the schedule.
Delay == IF hint > 0 THEN hint ELSE interval

\* Mutant: full jitter, from nothing to the whole delay.
JitterFromZero(d) == 0 .. d - 1

\* rand.Int64N(d) + d/2.
Jittered(d) == {Wrap(r + d \div 2) : r \in 0 .. d - 1}

\* rand.Int64N panics on what is not positive.
Panic ==
  /\ pc = "backoff" /\ Delay <= 0
  /\ pc' = "panicked"
  /\ UNCHANGED <<attempt, interval, lastErr, hint, asked, fireAt, failedAt, timeVars, outcome>>

\* Mutant: the budget is checked before the wait, not with it.
BudgetSpent(wait) == now > MaxElapsed

Exceeds(wait) == now + wait > MaxElapsed

GiveUp ==
  /\ pc = "backoff"
  /\ \E wait \in Jittered(Delay) : Exceeds(wait)
  /\ Return("lastErr")
  /\ UNCHANGED <<attempt, interval, lastErr, hint, asked, fireAt, failedAt, timeVars>>

StartWait ==
  /\ pc = "backoff"
  /\ \E wait \in Jittered(Delay) : ~Exceeds(wait) /\ fireAt' = now + wait
  /\ asked' = Delay
  /\ pc' = "waiting"
  /\ UNCHANGED <<attempt, interval, lastErr, hint, failedAt, timeVars, outcome>>

\* Mutant: the wait is a plain sleep.
CancelledNever == FALSE

Cancelled ==
  /\ pc = "waiting" /\ ctxDone
  /\ Return("ctxErr")
  /\ UNCHANGED <<attempt, interval, lastErr, hint, asked, fireAt, failedAt, timeVars>>

\* The timer fires: the schedule doubles and the next attempt is made.
Fire ==
  /\ pc = "waiting" /\ now >= fireAt
  /\ interval' = Wrap(2 * interval)
  /\ attempt' = attempt + 1
  /\ pc' = "calling"
  /\ UNCHANGED <<lastErr, hint, asked, fireAt, failedAt, timeVars, outcome>>

-----------------------------------------------------------------------------
(* Time and the caller *)

Tick ==
  /\ now < MaxTime
  /\ pc = "waiting" => now < fireAt + Lateness
  /\ pc \in {"calling", "waiting"}
  /\ now' = now + 1
  /\ UNCHANGED <<pc, attempt, interval, lastErr, hint, asked, fireAt, failedAt, ctxDone, outcome>>

EndContext ==
  /\ ~ctxDone
  /\ ctxDone' = TRUE
  /\ UNCHANGED <<pc, attempt, interval, lastErr, hint, asked, fireAt, failedAt, now, outcome>>

Next ==
  \/ Succeed \/ FailForGood \/ FailTransiently
  \/ Panic \/ GiveUp \/ StartWait \/ Cancelled \/ Fire
  \/ Tick \/ EndContext

Spec == Init /\ [][Next]_vars

-----------------------------------------------------------------------------
(* Properties *)

TypeOK ==
  /\ pc \in {"calling", "backoff", "waiting", "returned", "panicked"}
  /\ attempt \in 1 .. MaxAttempts
  /\ interval \in Duration /\ asked \in Duration
  /\ lastErr \in 0 .. MaxAttempts
  /\ hint \in Hints \union {0}
  /\ fireAt \in Int /\ failedAt \in 0 .. MaxTime /\ now \in 0 .. MaxTime
  /\ ctxDone \in BOOLEAN
  /\ outcome \in {"none", "response", "lastErr", "ctxErr"}

\* No retry starts after the budget, but for a late timer: the wait itself is
\* counted before it begins (line 57).
RetriesWithinBudget == [][Fire => now <= MaxElapsed + Lateness]_vars

\* A retry keeps at least half of the delay it was given, hint or schedule,
\* whatever the jitter draws (lines 47-55).
BacksOff == [][Fire => now >= failedAt + asked \div 2]_vars

\* The failure the caller gets is that of the last attempt made (lines 78-84).
LastFailureReported == outcome = "lastErr" => lastErr = attempt

\* It takes the schedule to wrap for the jitter to be drawn from an empty
\* range: no hint, and none missing, brings the loop down (lines 50-55).
PanicNeedsOverflow == pc = "panicked" => hint = 0 /\ interval <= 0
=============================================================================
