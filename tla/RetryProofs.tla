----------------------------- MODULE RetryProofs -----------------------------
(***************************************************************************)
(* Proofs about Retry and CallChain.  Typing, the failure that is reported and *)
(* the cause of a panic hold for any configuration.  That the loop never       *)
(* panics, backs off and keeps to its budget holds when the delays fit the     *)
(* integers: the invariant then ties the current delay to the doubled          *)
(* schedule, and a timer to the failure before it and to the budget.  That a   *)
(* retry waits out the hint of a shed rests on the end of the gate's pause,    *)
(* which covers the hint until the call has passed it.                        *)
(***************************************************************************)
EXTENDS CallChain, TLAPS

\* The schedule of delays, and that 3/2 of none of them, nor of a hint, wraps.
Doubling(schedule) ==
  /\ schedule \in [1 .. MaxAttempts -> Nat]
  /\ schedule[1] = InitialInterval
  /\ \A i \in 1 .. MaxAttempts - 1 : schedule[i + 1] = 2 * schedule[i]
  /\ \A i \in 1 .. MaxAttempts : 3 * schedule[i] <= 2 * MaxInt
DelaysFit ==
  /\ \A h \in Hints : 3 * h <= 2 * MaxInt
  /\ \E schedule \in [1 .. MaxAttempts -> Nat] : Doubling(schedule)

NeverPanics == pc # "panicked"

\* Between failure and retry the last failure is the one just seen, and there
\* is an attempt left; nothing is returned before the end.
Between ==
  /\ pc # "returned" => outcome = "none"
  /\ pc \in {"backoff", "waiting"} => attempt < MaxAttempts /\ lastErr = attempt
  /\ PanicNeedsOverflow
  /\ LastFailureReported

IInv == TypeOK /\ Between

\* Halving an integer.
LEMMA Half == \A d \in Nat : d \div 2 \in Nat /\ 2 * (d \div 2) <= d
  OBVIOUS

\* Doubling stays inside the integers, by wrapping.
LEMMA WrapDoubles == \A d \in Duration : Wrap(2 * d) \in Duration
  BY RetryAssumption DEF Wrap, Duration

\* A delay is a duration.
LEMMA DelayTyped == TypeOK => Delay \in Duration /\ hint \in Nat
  BY RetryAssumption DEF TypeOK, Delay, Duration

\* A drawn wait is an integer.
LEMMA JitterTyped ==
  ASSUME NEW d \in Duration, NEW w \in Jittered(d)
  PROVE  w \in Int
<1>1. PICK r \in 0 .. d - 1 : w = Wrap(r + d \div 2)
  BY DEF Jittered
<1>2. d \in Nat /\ d \div 2 \in Int
  BY <1>1, RetryAssumption, Half DEF Duration
<1> QED BY <1>1, <1>2, RetryAssumption DEF Wrap

\* Typing, and what holds between attempts, is inductive.
LEMMA Inductive == IInv /\ [Next]_vars => IInv'
<1> SUFFICES ASSUME IInv, [Next]_vars PROVE IInv'
  OBVIOUS
<1> USE RetryAssumption DEF IInv, Return
<1>1. CASE Succeed
  BY <1>1 DEF Succeed, TypeOK, Between, PanicNeedsOverflow, LastFailureReported, timeVars
<1>2. CASE FailForGood
  BY <1>2 DEF FailForGood, TypeOK, Between, PanicNeedsOverflow, LastFailureReported, timeVars
<1>3. CASE FailTransiently
  BY <1>3 DEF FailTransiently, KeepLast, TypeOK, Between, PanicNeedsOverflow, LastFailureReported, timeVars
<1>4. CASE Panic
  <2>1. hint = 0 /\ interval <= 0
    BY <1>4 DEF Panic, Delay, TypeOK, Duration
  <2> QED BY <1>4, <2>1 DEF Panic, TypeOK, Between, PanicNeedsOverflow, LastFailureReported, timeVars
<1>5. CASE GiveUp
  BY <1>5 DEF GiveUp, TypeOK, Between, PanicNeedsOverflow, LastFailureReported, timeVars
<1>6. CASE StartWait
  <2>1. fireAt' \in Int /\ asked' \in Duration
    BY <1>6, DelayTyped, JitterTyped DEF StartWait, TypeOK
  <2> QED BY <1>6, <2>1 DEF StartWait, TypeOK, Between, PanicNeedsOverflow, LastFailureReported, timeVars
<1>7. CASE Cancelled
  BY <1>7 DEF Cancelled, TypeOK, Between, PanicNeedsOverflow, LastFailureReported, timeVars
<1>8. CASE Fire
  <2>1. interval' \in Duration
    BY <1>8, WrapDoubles DEF Fire, TypeOK
  <2> QED BY <1>8, <2>1 DEF Fire, TypeOK, Between, PanicNeedsOverflow, LastFailureReported, timeVars
<1>9. CASE Tick
  BY <1>9 DEF Tick, TypeOK, Between, PanicNeedsOverflow, LastFailureReported
<1>10. CASE EndContext
  BY <1>10 DEF EndContext, TypeOK, Between, PanicNeedsOverflow, LastFailureReported
<1>11. CASE UNCHANGED vars
  BY <1>11 DEF vars, timeVars, TypeOK, Between, PanicNeedsOverflow, LastFailureReported
<1> QED BY <1>1, <1>2, <1>3, <1>4, <1>5, <1>6, <1>7, <1>8, <1>9, <1>10, <1>11 DEF Next

\* The loop starts in the invariant.
LEMMA Initial == Init => IInv
<1> SUFFICES ASSUME Init PROVE TypeOK /\ Between
  BY DEF IInv
<1>1. interval \in Duration /\ asked \in Duration
  BY RetryAssumption DEF Init, Duration
<1>2. TypeOK
  <2>1. ctxDone \in BOOLEAN
    BY Zenon DEF Init
  <2>2. attempt \in 1 .. MaxAttempts /\ lastErr \in 0 .. MaxAttempts
    BY RetryAssumption DEF Init
  <2>3. failedAt \in 0 .. MaxTime /\ now \in 0 .. MaxTime
    BY RetryAssumption DEF Init
  <2> QED BY <1>1, <2>1, <2>2, <2>3 DEF Init, TypeOK
<1>3. Between
  BY DEF Init, Between, PanicNeedsOverflow, LastFailureReported
<1> QED BY <1>2, <1>3

\* IInv holds throughout.
LEMMA Holds == Spec => []IInv
  BY Initial, Inductive, PTL DEF Spec

\* Every reachable state is well-typed (retry.go 38-86).
THEOREM TypeCorrect == Spec => []TypeOK
<1>1. IInv => TypeOK
  BY DEF IInv
<1> QED BY <1>1, Holds, PTL

\* The failure the caller gets is that of the last attempt (78-84).
THEOREM LastFailureTold == Spec => []LastFailureReported
<1>1. IInv => LastFailureReported
  BY DEF IInv, Between
<1> QED BY <1>1, Holds, PTL

\* Only a schedule that has left the integers makes the loop panic (50-55).
THEOREM PanicExplained == Spec => []PanicNeedsOverflow
<1>1. IInv => PanicNeedsOverflow
  BY DEF IInv, Between
<1> QED BY <1>1, Holds, PTL

-----------------------------------------------------------------------------
(* When the delays fit *)

\* The delay is the scheduled one; a backoff starts at the failure; a timer is
\* set no earlier than half the delay after it and within the budget.
Timed(schedule) ==
  /\ interval = schedule[attempt] /\ interval > 0
  /\ pc # "panicked"
  /\ pc = "backoff" => failedAt = now
  /\ pc = "waiting" =>
       /\ failedAt + asked \div 2 <= fireAt /\ fireAt <= MaxElapsed
       /\ now <= fireAt + Lateness

\* A wait that does not wrap is at least half of the delay.
LEMMA JitterBounds ==
  ASSUME NEW d \in Nat, 3 * d <= 2 * MaxInt, NEW w \in Jittered(d)
  PROVE  d \div 2 <= w
<1>1. PICK r \in 0 .. d - 1 : w = Wrap(r + d \div 2)
  BY DEF Jittered
<1>2. d \div 2 \in Nat /\ 2 * (d \div 2) <= d
  BY Half
<1>3. r + d \div 2 <= MaxInt /\ r + d \div 2 >= d \div 2
  BY <1>1, <1>2, RetryAssumption
<1> QED BY <1>1, <1>2, <1>3, RetryAssumption DEF Wrap

\* With a positive scheduled delay that fits, the delay is positive and fits.
LEMMA DelayFits ==
  ASSUME TypeOK, \A h \in Hints : 3 * h <= 2 * MaxInt,
         NEW s, Doubling(s), interval = s[attempt], interval > 0
  PROVE  Delay \in Nat /\ Delay > 0 /\ 3 * Delay <= 2 * MaxInt
  BY RetryAssumption DEF TypeOK, Delay, Doubling

\* Timed is inductive, with IInv, for delays that fit.
LEMMA TimedInductive ==
  ASSUME \A h \in Hints : 3 * h <= 2 * MaxInt, NEW s, Doubling(s)
  PROVE  IInv /\ Timed(s) /\ [Next]_vars => Timed(s)'
<1> SUFFICES ASSUME IInv, Timed(s), [Next]_vars PROVE Timed(s)'
  OBVIOUS
<1>0. TypeOK /\ Between /\ Delay \in Nat /\ Delay > 0 /\ 3 * Delay <= 2 * MaxInt
  BY DelayFits DEF IInv, Timed
<1> USE RetryAssumption DEF Return, Timed
<1>1. CASE Succeed
  BY <1>1 DEF Succeed, timeVars
<1>2. CASE FailForGood
  BY <1>2 DEF FailForGood, timeVars
<1>3. CASE FailTransiently
  BY <1>3 DEF FailTransiently, timeVars
<1>4. CASE Panic
  BY <1>0, <1>4 DEF Panic
<1>5. CASE GiveUp
  BY <1>5 DEF GiveUp, timeVars
<1>6. CASE StartWait
  <2>1. PICK w \in Jittered(Delay) : ~Exceeds(w) /\ fireAt' = now + w
    BY <1>6 DEF StartWait
  <2>2. w \in Int /\ Delay \div 2 <= w /\ Delay \div 2 \in Nat
    BY <1>0, JitterBounds, JitterTyped, Half, DelayTyped
  <2>3. now \in Nat /\ failedAt = now /\ failedAt' = now /\ now' = now /\ asked' = Delay
    BY <1>0, <1>6 DEF StartWait, TypeOK, timeVars
  <2>4. failedAt' + asked' \div 2 <= fireAt' /\ fireAt' <= MaxElapsed /\ now' <= fireAt' + Lateness
    BY <2>1, <2>2, <2>3 DEF Exceeds
  <2> QED BY <1>6, <2>4 DEF StartWait
<1>7. CASE Cancelled
  BY <1>7 DEF Cancelled, timeVars
<1>8. CASE Fire
  <2>1. attempt \in 1 .. MaxAttempts - 1
    BY <1>0, <1>8 DEF Fire, TypeOK, Between
  <2>2. s[attempt + 1] = 2 * interval /\ 3 * s[attempt + 1] <= 2 * MaxInt /\ interval \in Int
    BY <1>0, <2>1 DEF Doubling, TypeOK, Duration
  <2>3. Wrap(2 * interval) = 2 * interval
    BY <2>2 DEF Wrap
  <2> QED BY <1>8, <2>2, <2>3 DEF Fire
<1>9. CASE Tick
  BY <1>0, <1>9 DEF Tick, TypeOK
<1>10. CASE EndContext
  BY <1>10 DEF EndContext
<1>11. CASE UNCHANGED vars
  BY <1>11 DEF vars, timeVars
<1> QED BY <1>1, <1>2, <1>3, <1>4, <1>5, <1>6, <1>7, <1>8, <1>9, <1>10, <1>11 DEF Next

\* Timed holds throughout, for delays that fit.
LEMMA TimedHolds ==
  ASSUME \A h \in Hints : 3 * h <= 2 * MaxInt, NEW s, Doubling(s)
  PROVE  Spec => []Timed(s)
<1>1. Init => Timed(s)
  BY RetryAssumption DEF Init, Timed, Doubling
<1>2. IInv /\ Timed(s) /\ [Next]_vars => Timed(s)'
  BY TimedInductive
<1> QED BY <1>1, <1>2, Holds, PTL DEF Spec

\* While the delays fit, rand.Int64N is never given what it panics on (55).
THEOREM NoPanic == DelaysFit => (Spec => []NeverPanics)
<1> SUFFICES ASSUME DelaysFit PROVE Spec => []NeverPanics
  OBVIOUS
<1>1. PICK s : Doubling(s)
  BY DEF DelaysFit
<1>2. Spec => []Timed(s)
  BY <1>1, TimedHolds DEF DelaysFit
<1>3. Timed(s) => NeverPanics
  BY DEF Timed, NeverPanics
<1> QED BY <1>2, <1>3, PTL

\* While the delays fit, no retry starts after the budget, but for the
\* lateness of its timer (57-68).
THEOREM BudgetKept == DelaysFit => (Spec => RetriesWithinBudget)
<1> SUFFICES ASSUME DelaysFit PROVE Spec => RetriesWithinBudget
  OBVIOUS
<1>1. PICK s : Doubling(s)
  BY DEF DelaysFit
<1>2. Spec => []Timed(s)
  BY <1>1, TimedHolds DEF DelaysFit
<1>3. IInv /\ Timed(s) /\ [Next]_vars => [Fire => now <= MaxElapsed + Lateness]_vars
  BY RetryAssumption DEF Fire, Timed, IInv, TypeOK
<1> QED BY <1>2, <1>3, Holds, PTL DEF Spec, RetriesWithinBudget

\* While the delays fit, a retry keeps at least half of its delay (47-68).
THEOREM BackoffKept == DelaysFit => (Spec => BacksOff)
<1> SUFFICES ASSUME DelaysFit PROVE Spec => BacksOff
  OBVIOUS
<1>1. PICK s : Doubling(s)
  BY DEF DelaysFit
<1>2. Spec => []Timed(s)
  BY <1>1, TimedHolds DEF DelaysFit
<1>3. IInv /\ Timed(s) /\ [Next]_vars => [Fire => now >= failedAt + asked \div 2]_vars
  <2> SUFFICES ASSUME IInv, Timed(s), Fire PROVE now >= failedAt + asked \div 2
    OBVIOUS
  <2>1. asked \div 2 \in Int
    BY RetryAssumption DEF IInv, TypeOK, Duration
  <2> QED BY <2>1 DEF Fire, Timed, IInv, TypeOK
<1> QED BY <1>2, <1>3, Holds, PTL DEF Spec, BacksOff

-----------------------------------------------------------------------------
(* The chain *)

\* A step of the chain is one of the retry loop, or none of its business.
LEMMA ChainStep == [ChainNext]_chainVars => [Next]_vars
<1> SUFFICES ASSUME [ChainNext]_chainVars PROVE Next \/ UNCHANGED vars
  OBVIOUS
<1>1. CASE FetchToken
  BY <1>1 DEF FetchToken
<1>2. CASE Acquire
  BY <1>2 DEF Acquire, Sleep, PassPause, Admit, Wait, AcquireFails, Next
<1>3. CASE Succeeds \/ Fails \/ Shed
  BY <1>3 DEF Succeeds, Fails, Shed, Next
<1>4. CASE Back \/ Again
  BY <1>4 DEF Back, Again, Next
<1>5. CASE OtherAdmitted \/ OtherReturns
  BY <1>5 DEF OtherAdmitted, OtherReturns
<1>6. CASE Passing
  BY <1>6 DEF Passing, Next
<1>7. CASE UNCHANGED chainVars
  BY <1>7 DEF chainVars
<1> QED BY <1>1, <1>2, <1>3, <1>4, <1>5, <1>6, <1>7 DEF ChainNext

\* Through the whole chain a call goes as the retry loop alone says, so what is
\* proved of the loop holds of the call (rootpuller.go 40-87).
THEOREM ChainKeepsLoop == ChainSpec => LoopKept
<1>1. ChainInit => Init
  BY DEF ChainInit
<1> QED BY <1>1, ChainStep, PTL DEF ChainSpec, LoopKept, Spec

\* A shed delay is at least the hint, or the cap on it.
LEMMA ShedDelayBounds ==
  ASSUME NEW h \in Hints, NEW delay \in ShedDelays(h)
  PROVE  delay \in Nat /\ (h > 0 => delay >= Least(h, MaxShedDelay))
<1>1. ASSUME NEW d \in Nat, NEW j \in d .. d + (d + 4) \div 5
      PROVE  j \in Nat /\ j >= d
  BY <1>1
<1>2. PICK asks \in IF h > 0 THEN {h} ELSE Pauses :
        LET d == Least(asks, MaxShedDelay)
        IN \E j \in d .. d + (d + 4) \div 5 : delay \in {j, Greatest(j, BreakerCooldown)}
  BY DEF ShedDelays
<1>3. asks \in Nat /\ Least(asks, MaxShedDelay) \in Nat
  BY <1>2, RetryAssumption, ChainAssumption DEF Least
<1>4. PICK j \in Nat : j >= Least(asks, MaxShedDelay) /\ delay \in {j, Greatest(j, BreakerCooldown)}
  BY <1>1, <1>2, <1>3
<1>5. delay \in Nat /\ delay >= j
  BY <1>4, ChainAssumption DEF Greatest
<1>6. h > 0 => asks = h
  BY <1>2, RetryAssumption
<1> QED BY <1>3, <1>4, <1>5, <1>6

\* Extending the pause keeps its type and does not bring its end nearer.
LEMMA ExtendMovesOut ==
  ASSUME pauseUntil \in Int, now \in Int, NEW delay \in Int, Extend(delay)
  PROVE  pauseUntil' \in Int /\ pauseUntil' >= pauseUntil /\ pauseUntil' >= now + delay
  BY DEF Extend, Greatest

\* Outside the gate the pause covers the hint of the last shed; the call passes
\* it only when it is over, and the clock does not run back.
HintEnds == failedAt + Least(shedHint, MaxShedDelay)
HintKept ==
  /\ pauseUntil \in Int /\ shedHint \in Hints \union {0}
  /\ shedHint > 0 =>
       /\ at \in {"token", "pause", "sleep", "loop"} => HintEnds <= pauseUntil
       /\ at \in {"slot", "wait", "transport"} => HintEnds <= now

\* HintKept is inductive, with the typing of the retry loop.
LEMMA HintInductive == TypeOK /\ HintKept /\ [ChainNext]_chainVars => HintKept'
<1> SUFFICES ASSUME TypeOK, HintKept, [ChainNext]_chainVars PROVE HintKept'
  OBVIOUS
<1> USE RetryAssumption, ChainAssumption DEF HintKept, HintEnds, gateVars
<1>0. /\ now \in Nat /\ failedAt \in Nat /\ pauseUntil \in Int /\ shedHint \in Nat
      /\ Least(shedHint, MaxShedDelay) \in Nat
  BY DEF TypeOK, Least
<1>1. CASE FetchToken
  BY <1>1 DEF FetchToken, vars, timeVars
<1>2. CASE Sleep \/ Wait
  BY <1>2 DEF Sleep, Wait, vars, timeVars
<1>3. CASE PassPause
  BY <1>0, <1>3 DEF PassPause, vars, timeVars
<1>4. CASE Admit
  BY <1>4 DEF Admit, vars, timeVars
<1>5. CASE AcquireFails
  BY <1>5 DEF AcquireFails
<1>6. CASE Succeeds
  BY <1>6 DEF Succeeds
<1>7. CASE Fails
  BY <1>7 DEF Fails
<1>8. CASE Shed
  <2>1. shedHint' \in Hints /\ failedAt' = now /\ now' = now /\ at' \in {"done", "loop"}
    BY <1>8 DEF Shed, FailTransiently, timeVars
  <2>2. PICK delay \in ShedDelays(shedHint') : Extend(delay)
    BY <1>8 DEF Shed
  <2>3. delay \in Nat /\ (shedHint' > 0 => delay >= Least(shedHint', MaxShedDelay))
    BY <2>1, <2>2, ShedDelayBounds
  <2>4. pauseUntil' \in Int /\ pauseUntil' >= now + delay
    BY <1>0, <2>2, <2>3, ExtendMovesOut
  <2>5. Least(shedHint', MaxShedDelay) \in Nat
    BY <2>1 DEF Least
  <2> QED BY <1>0, <2>1, <2>3, <2>4, <2>5
<1>9. CASE Back
  <2>1. failedAt' = failedAt /\ now' = now
    BY <1>9 DEF Back, GiveUp, StartWait, Panic, Cancelled, timeVars
  <2> QED BY <1>9, <2>1 DEF Back
<1>10. CASE Again
  BY <1>10 DEF Again, Fire, timeVars
<1>11. CASE OtherAdmitted
  BY <1>11 DEF OtherAdmitted, vars, timeVars
<1>12. CASE OtherReturns
  <2>1. pauseUntil' \in Int /\ pauseUntil' >= pauseUntil
    <3>1. ASSUME NEW h \in Hints, NEW delay \in ShedDelays(h), Extend(delay)
          PROVE  pauseUntil' \in Int /\ pauseUntil' >= pauseUntil
      BY <1>0, <3>1, ShedDelayBounds, ExtendMovesOut
    <3> QED BY <1>0, <1>12, <3>1 DEF OtherReturns
  <2> QED BY <1>0, <1>12, <2>1 DEF OtherReturns, vars, timeVars
<1>13. CASE Passing
  <2>1. failedAt' = failedAt /\ now' >= now /\ now' \in Nat
    BY <1>0, <1>13 DEF Passing, Tick, EndContext
  <2> QED BY <1>0, <1>13, <2>1 DEF Passing
<1>14. CASE UNCHANGED chainVars
  BY <1>14 DEF chainVars, vars, timeVars
<1> QED BY <1>1, <1>2, <1>3, <1>4, <1>5, <1>6, <1>7, <1>8, <1>9, <1>10, <1>11,
           <1>12, <1>13, <1>14 DEF ChainNext, Acquire

\* An attempt shed with a hint is repeated only when the hint is over, or the
\* cap on it, for any hints, gate and other calls, and though the loop's own
\* wait may be half of it or know nothing of it (retry.go 46-55, backpressure.go
\* 250-263 and 375-377).
THEOREM HintWaitedOut == ChainSpec => []ShedHintWaitedOut
<1>1. ChainInit => HintKept
  BY DEF ChainInit, HintKept
<1>2. ChainSpec => []TypeOK
  BY ChainKeepsLoop, TypeCorrect, PTL DEF LoopKept
<1>3. TypeOK /\ HintKept /\ [ChainNext]_chainVars => HintKept'
  BY HintInductive
<1>4. HintKept => ShedHintWaitedOut
  BY DEF HintKept, HintEnds, ShedHintWaitedOut
<1> QED BY <1>1, <1>2, <1>3, <1>4, PTL DEF ChainSpec

\* The failure the caller of the chain gets is that of the last attempt.
THEOREM ChainTellsLastFailure == ChainSpec => []LastFailureReported
  BY ChainKeepsLoop, LastFailureTold, PTL DEF LoopKept

\* While the delays fit, a chain starts no retry after the budget; the gate's
\* pause comes after that start (retry.go 57-68).
THEOREM ChainKeepsBudget == DelaysFit => (ChainSpec => RetriesWithinBudget)
  BY ChainKeepsLoop, BudgetKept, PTL DEF LoopKept
=============================================================================
