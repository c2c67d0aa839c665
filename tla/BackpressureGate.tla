-------------------------- MODULE BackpressureGate --------------------------
(***************************************************************************)
(* The shared admission gate of internal/transport/backpressure.go and the  *)
(* interceptor that drives it: concurrent calls acquire a slot, run, release *)
(* it and feed the server's capacity signals back (AIMD, shed pause,        *)
(* breaker).                                                                *)
(*                                                                          *)
(* One action is one critical section of g.mu (or one unlocked step that    *)
(* other goroutines can observe); pc[c] is where call c stands between two  *)
(* of them.  A call that returned is "idle" and may begin again: a new call  *)
(* or the next attempt of a retried one.                                    *)
(*                                                                          *)
(* Data abstractions, both exact:                                           *)
(*  - `effective` is int(g.effective).  Halving, adding one and clamping to *)
(*    an integer all commute with rounding down, and the code only compares *)
(*    g.effective with integers, so the integer part evolves on its own. The *)
(*    one thing it hides is a broadcast when the clamp drops a fraction     *)
(*    (ClampBroadcasts leaves that open).                                   *)
(*  - time is relative: pauseLeft = max(0, shedUntil - now) and sinceDrop = *)
(*    now - lastDrop up to GrowHoldoff, past which no comparison changes.   *)
(*    A zero lastDrop behaves like one that is long ago.                    *)
(***************************************************************************)
EXTENDS Integers, FiniteSets

CONSTANTS
  Call,                   \* concurrent calls sharing the gate
  Seed,                   \* the argument of NewBackpressureGate
  Limits,                 \* x-ratelimit-limit values the server may advertise
  Hints,                  \* retry hints of a shed, in ticks; <= 0 means none
  Cooldown,               \* defaultCooldown, in ticks
  GrowHoldoff,            \* growHoldoff
  FallbackShedDelay,      \* fallbackShedDelay
  MaxShedDelay,           \* maxShedDelay
  ShedDecorrelationCap,   \* shedDecorrelationCap
  BreakerTripSheds,       \* breakerTripSheds
  BreakerCooldown         \* breakerCooldown

DefaultSeedLimit == 4
MinLimit == 1

ASSUME CallAssumption == IsFiniteSet(Call)
ASSUME SignalAssumption == Seed \in Int /\ Limits \subseteq Int /\ Hints \subseteq Int
ASSUME TimingAssumption ==
  /\ Cooldown \in Nat
  /\ GrowHoldoff \in Nat
  /\ Cooldown <= GrowHoldoff
  /\ FallbackShedDelay \in Nat
  /\ MaxShedDelay \in Nat
  /\ ShedDecorrelationCap \in Nat
  /\ BreakerTripSheds \in Nat \ {0}
  /\ BreakerCooldown \in Nat

VARIABLES
  serverLimit,        \* last advertised limit, 0 before the first one
  effective,          \* int(g.effective)
  inFlight,           \* slots in use
  success,            \* successes counted towards the next increase
  sinceDrop,          \* ticks since lastDrop
  pauseLeft,          \* ticks until shedUntil
  consecutiveSheds,   \* the shed streak
  pc,                 \* where each call stands
  outcome,            \* what a call that gave its slot back came back with
  timer,              \* ticks left of a caller's sleepCtx
  wait,               \* the delay a shedding call is about to apply
  ctxDone,            \* the context of a call in acquire is cancelled
  afterFuncs          \* calls whose context.AfterFunc goroutine is running

gateVars == <<serverLimit, effective, inFlight, success, sinceDrop, pauseLeft, consecutiveSheds>>
callVars == <<pc, outcome, timer, wait, ctxDone, afterFuncs>>
vars == <<gateVars, callVars>>

-----------------------------------------------------------------------------
Least(a, b) == IF a < b THEN a ELSE b
Greatest(a, b) == IF a > b THEN a ELSE b

\* What a response's trailers say: `full` is remaining = 0, all that observe
\* tells apart.  NoAdvert is a response without (parsable) x-ratelimit-limit.
NoAdvert == [ok |-> FALSE, limit |-> 0, full |-> FALSE]
Adverts == {NoAdvert} \union [ok : {TRUE}, limit : Limits, full : BOOLEAN]

NoOutcome == [is |-> "none", rl |-> NoAdvert, hint |-> 0]
Outcomes == [is : {"ok", "failed"}, rl : Adverts, hint : {0}]
              \union [is : {"shed"}, rl : {NoAdvert}, hint : Hints \union {0}]

\* Where a caller of acquire() may stand, and who has a slot.
Admitting == {"enter", "woken"}
Acquiring == {"check", "sleep", "wait"} \union Admitting
Settling == {"observe", "clear", "shed", "delay", "pause"}
Holders == {c \in Call : pc[c] = "call"}
Waiting == {c \in Call : pc[c] = "wait"}

SeedLimit == IF Seed < MinLimit THEN DefaultSeedLimit ELSE Seed

\* ceilingLocked: the advertised limit once there is one, the seed until then.
CeilingOf(limit) == IF limit > 0 THEN limit ELSE SeedLimit
Ceiling == CeilingOf(serverLimit)

\* Past this the streak changes no comparison and no backoff, so it saturates.
StreakCap == BreakerTripSheds + ShedDecorrelationCap + 1

\* notFull.Broadcast() with call p's own move: every waiter is made runnable.
Broadcast(p) == [d \in Call |-> IF p[d] = "wait" THEN "woken" ELSE p[d]]

Init ==
  /\ serverLimit = 0
  /\ effective = SeedLimit
  /\ inFlight = 0
  /\ success = 0
  /\ sinceDrop = GrowHoldoff
  /\ pauseLeft = 0
  /\ consecutiveSheds = 0
  /\ pc = [c \in Call |-> "idle"]
  /\ outcome = [c \in Call |-> NoOutcome]
  /\ timer = [c \in Call |-> 0]
  /\ wait = [c \in Call |-> 0]
  /\ ctxDone = [c \in Call |-> FALSE]
  /\ afterFuncs = {}

-----------------------------------------------------------------------------
(* acquire *)

\* A unary call or a stream enters the interceptor.
Begin(c) ==
  /\ pc[c] = "idle"
  /\ pc' = [pc EXCEPT ![c] = "check"]
  /\ UNCHANGED <<gateVars, outcome, timer, wait, ctxDone, afterFuncs>>

\* Mutant: acquire does not look at the pause.
CheckPauseIgnored(c) ==
  /\ pc[c] = "check"
  /\ pc' = [pc EXCEPT ![c] = "enter"]
  /\ UNCHANGED <<gateVars, outcome, timer, wait, ctxDone, afterFuncs>>

\* The first critical section: read the pause, sleep it out or go on.
CheckPause(c) ==
  /\ pc[c] = "check"
  /\ pc' = [pc EXCEPT ![c] = IF pauseLeft > 0 THEN "sleep" ELSE "enter"]
  /\ timer' = [timer EXCEPT ![c] = pauseLeft]
  /\ UNCHANGED <<gateVars, outcome, wait, ctxDone, afterFuncs>>

\* sleepCtx, the timer arm: look at the pause again, it may have grown.
SleepOver(c) ==
  /\ pc[c] = "sleep"
  /\ timer[c] = 0
  /\ pc' = [pc EXCEPT ![c] = "check"]
  /\ UNCHANGED <<gateVars, outcome, timer, wait, ctxDone, afterFuncs>>

\* sleepCtx, the context arm: acquire returns the error.
SleepCancelled(c) ==
  /\ pc[c] = "sleep"
  /\ ctxDone[c]
  /\ pc' = [pc EXCEPT ![c] = "idle"]
  /\ timer' = [timer EXCEPT ![c] = 0]
  /\ ctxDone' = [ctxDone EXCEPT ![c] = FALSE]
  /\ UNCHANGED <<gateVars, outcome, wait, afterFuncs>>

\* The bookkeeping of an admission, without its condition.
TakeSlot(c) ==
  /\ pc[c] \in Admitting
  /\ pc[c] = "woken" => ~ctxDone[c]
  /\ inFlight' = inFlight + 1
  /\ pc' = [pc EXCEPT ![c] = "call"]
  /\ ctxDone' = [ctxDone EXCEPT ![c] = FALSE]
  /\ UNCHANGED <<serverLimit, effective, success, sinceDrop, pauseLeft, consecutiveSheds>>
  /\ UNCHANGED <<outcome, timer, wait, afterFuncs>>

\* Mutant: a woken call takes "its" slot without looking (if for for).
AdmitWithoutRecheck(c) == TakeSlot(c) /\ (inFlight < effective \/ pc[c] = "woken")

\* A slot is free: take it.  The pause is not looked at any more, and on the
\* first pass neither is the context.
Admit(c) == TakeSlot(c) /\ inFlight < effective

\* No slot is free: register the context's AfterFunc and wait for a broadcast.
Block(c) ==
  /\ pc[c] \in Admitting
  /\ ~ctxDone[c]
  /\ inFlight >= effective
  /\ pc' = [pc EXCEPT ![c] = "wait"]
  /\ UNCHANGED <<gateVars, outcome, timer, wait, ctxDone, afterFuncs>>

\* The context is done: before waiting when no slot is free, after every
\* wakeup in any case.
AcquireFails(c) ==
  /\ \/ pc[c] = "enter" /\ inFlight >= effective
     \/ pc[c] = "woken"
  /\ ctxDone[c]
  /\ pc' = [pc EXCEPT ![c] = "idle"]
  /\ ctxDone' = [ctxDone EXCEPT ![c] = FALSE]
  /\ UNCHANGED <<gateVars, outcome, timer, wait, afterFuncs>>

\* Mutant: acquire waits without registering an AfterFunc.
CancelUnnoticed(c) ==
  /\ pc[c] \in Acquiring
  /\ ~ctxDone[c]
  /\ ctxDone' = [ctxDone EXCEPT ![c] = TRUE]
  /\ UNCHANGED <<gateVars, pc, outcome, timer, wait, afterFuncs>>

\* The caller's context is cancelled while it is in acquire; an AfterFunc that
\* is still registered, as it is until a woken call runs on, starts its goroutine.
Cancel(c) ==
  /\ pc[c] \in Acquiring
  /\ ~ctxDone[c]
  /\ ctxDone' = [ctxDone EXCEPT ![c] = TRUE]
  /\ afterFuncs' = IF pc[c] \in {"wait", "woken"} THEN afterFuncs \union {c} ELSE afterFuncs
  /\ UNCHANGED <<gateVars, pc, outcome, timer, wait>>

\* That goroutine takes g.mu and broadcasts, however late.
AfterFunc(c) ==
  /\ c \in afterFuncs
  /\ pc' = Broadcast(pc)
  /\ afterFuncs' = afterFuncs \ {c}
  /\ UNCHANGED <<gateVars, outcome, timer, wait, ctxDone>>

-----------------------------------------------------------------------------
(* The end of a call: release, then the feedback, each under its own lock. *)

\* Mutant: release does not broadcast.
ReleaseSlotSilently(c, next, o) ==
  /\ pc[c] = "call"
  /\ inFlight' = IF inFlight > 0 THEN inFlight - 1 ELSE inFlight
  /\ pc' = [pc EXCEPT ![c] = next]
  /\ outcome' = [outcome EXCEPT ![c] = o]
  /\ UNCHANGED <<serverLimit, effective, success, sinceDrop, pauseLeft, consecutiveSheds>>
  /\ UNCHANGED <<timer, wait, ctxDone, afterFuncs>>

\* release() for call c, which goes on to `next` with outcome o.
ReleaseSlot(c, next, o) ==
  /\ pc[c] = "call"
  /\ inFlight' = IF inFlight > 0 THEN inFlight - 1 ELSE inFlight
  /\ pc' = Broadcast([pc EXCEPT ![c] = next])
  /\ outcome' = [outcome EXCEPT ![c] = o]
  /\ UNCHANGED <<serverLimit, effective, success, sinceDrop, pauseLeft, consecutiveSheds>>
  /\ UNCHANGED <<timer, wait, ctxDone, afterFuncs>>

\* Mutant: a unary call that failed returns before release().
ReleaseUnaryUnlessFailed(c) ==
  \/ \E rl \in Adverts : ReleaseSlot(c, "observe", [is |-> "ok", rl |-> rl, hint |-> 0])
  \/ \E h \in Hints : ReleaseSlot(c, "shed", [is |-> "shed", rl |-> NoAdvert, hint |-> h])
  \/ /\ pc[c] = "call"
     /\ pc' = [pc EXCEPT ![c] = "idle"]
     /\ UNCHANGED <<gateVars, outcome, timer, wait, ctxDone, afterFuncs>>

\* next() of a unary call returned; a failure that is no shed says nothing.
ReleaseUnary(c) ==
  \/ \E rl \in Adverts : ReleaseSlot(c, "observe", [is |-> "ok", rl |-> rl, hint |-> 0])
  \/ \E h \in Hints : ReleaseSlot(c, "shed", [is |-> "shed", rl |-> NoAdvert, hint |-> h])
  \/ ReleaseSlot(c, "idle", NoOutcome)

\* The first CloseResponse of a stream (once.Do ignores the others).  Without a
\* shed its trailers are observed whether it ended well or failed; a shed
\* counts without the server's hint.
ReleaseStream(c) ==
  \/ \E rl \in Adverts, is \in {"ok", "failed"} :
       ReleaseSlot(c, "observe", [is |-> is, rl |-> rl, hint |-> 0])
  \/ ReleaseSlot(c, "shed", [is |-> "shed", rl |-> NoAdvert, hint |-> 0])

\* Mutants: no cooldown; no floor.
DecreaseEveryShed(e) ==
  effective' = Greatest(MinLimit, e \div 2) /\ success' = 0 /\ sinceDrop' = 0
DecreaseWithoutFloor(e) ==
  \/ sinceDrop < Cooldown /\ effective' = e /\ UNCHANGED <<success, sinceDrop>>
  \/ sinceDrop >= Cooldown /\ effective' = e \div 2 /\ success' = 0 /\ sinceDrop' = 0

\* decreaseLocked from e: one halving per cooldown.
Decrease(e) ==
  \/ /\ sinceDrop < Cooldown
     /\ effective' = e
     /\ UNCHANGED <<success, sinceDrop>>
  \/ /\ sinceDrop >= Cooldown
     /\ effective' = Greatest(MinLimit, e \div 2)
     /\ success' = 0
     /\ sinceDrop' = 0

\* increaseLocked from e short of a full window of successes (or not at all).
CountSuccess(e, ceil) ==
  /\ effective' = e
  /\ IF e >= ceil \/ sinceDrop < GrowHoldoff
     THEN success' = success
     ELSE success + 1 < e + 1 /\ success' = success + 1
  /\ UNCHANGED sinceDrop

\* increaseLocked from e on a full window: one more slot.
Grow(e, ceil) ==
  /\ e < ceil
  /\ sinceDrop >= GrowHoldoff
  /\ success + 1 >= e + 1
  /\ effective' = Least(e + 1, ceil)
  /\ success' = 0
  /\ UNCHANGED sinceDrop

\* Whether clamping g.effective to ceil broadcasts: surely when the integer
\* part shrinks, possibly when only a fraction goes.
ClampBroadcasts(ceil) ==
  {b \in BOOLEAN : (effective > ceil => b) /\ (effective < ceil => ~b)}

\* observe: adopt the advertised ceiling, clamp, then ease off or grow.
Observe(c) ==
  /\ pc[c] = "observe"
  /\ LET rl == outcome[c].rl
         limit == IF rl.ok /\ rl.limit > 0 THEN rl.limit ELSE serverLimit
         ceil == CeilingOf(limit)
         e == Least(effective, ceil)
         next == [pc EXCEPT ![c] = "clear"]
     IN /\ serverLimit' = limit
        /\ \E wake \in ClampBroadcasts(ceil) :
             \/ /\ IF rl.ok /\ rl.full THEN Decrease(e) ELSE CountSuccess(e, ceil)
                /\ pc' = IF wake THEN Broadcast(next) ELSE next
             \/ /\ ~(rl.ok /\ rl.full)
                /\ Grow(e, ceil)
                /\ pc' = Broadcast(next)
  /\ outcome' = [outcome EXCEPT ![c].rl = NoAdvert]
  /\ UNCHANGED <<inFlight, pauseLeft, consecutiveSheds>>
  /\ UNCHANGED <<timer, wait, ctxDone, afterFuncs>>

\* clearSheds: the streak is over; the call returns.
ClearSheds(c) ==
  /\ pc[c] = "clear"
  /\ consecutiveSheds' = 0
  /\ pc' = [pc EXCEPT ![c] = "idle"]
  /\ outcome' = [outcome EXCEPT ![c] = NoOutcome]
  /\ UNCHANGED <<serverLimit, effective, inFlight, success, sinceDrop, pauseLeft>>
  /\ UNCHANGED <<timer, wait, ctxDone, afterFuncs>>

\* maxShedDelay caps any pause.
CapDelay(hint) == Least(hint, MaxShedDelay)

\* shed, first half: count it and ease off.
ShedDecrease(c) ==
  /\ pc[c] = "shed"
  /\ consecutiveSheds' = Least(consecutiveSheds + 1, StreakCap)
  /\ Decrease(effective)
  /\ \/ /\ outcome[c].hint > 0
        /\ wait' = [wait EXCEPT ![c] = CapDelay(outcome[c].hint)]
        /\ pc' = [pc EXCEPT ![c] = "pause"]
     \/ /\ outcome[c].hint <= 0
        /\ pc' = [pc EXCEPT ![c] = "delay"]
        /\ UNCHANGED wait
  /\ UNCHANGED <<serverLimit, inFlight, pauseLeft>>
  /\ UNCHANGED <<outcome, timer, ctxDone, afterFuncs>>

\* The no-hint backoff for a streak of n, doubling up to the cap.
DecorrelatedDelay(n) ==
  Least(FallbackShedDelay * 2 ^ Least(Greatest(n, 1) - 1, ShedDecorrelationCap), MaxShedDelay)

\* decorrelatedShedDelay: it reads the streak as it is by now.
ShedDelay(c) ==
  /\ pc[c] = "delay"
  /\ \E d \in 0 .. MaxShedDelay :
       /\ d = DecorrelatedDelay(consecutiveSheds)
       /\ wait' = [wait EXCEPT ![c] = d]
  /\ pc' = [pc EXCEPT ![c] = "pause"]
  /\ UNCHANGED <<gateVars, outcome, timer, ctxDone, afterFuncs>>

\* jitter(d) is below d/5; in whole ticks, rounded up.
Jitters(d) == 0 .. ((d + 4) \div 5)

\* until.After(shedUntil): the pause is the longer of the two.
Extend(d) == Greatest(pauseLeft, d)

\* Mutant: a tripped breaker widens the pause but leaves the concurrency.
TripWidensOnly(d) ==
  /\ pauseLeft' = Extend(Greatest(d, BreakerCooldown))
  /\ UNCHANGED <<effective, success>>

\* The breaker: down to the floor, and a pause of at least its cooldown.
Trip(d) ==
  /\ effective' = MinLimit
  /\ success' = 0
  /\ pauseLeft' = Extend(Greatest(d, BreakerCooldown))

\* pauseUntil: trip the breaker on a long streak, extend the shared pause.
PauseUntil(c) ==
  /\ pc[c] = "pause"
  /\ \E j \in Jitters(wait[c]) :
       IF consecutiveSheds >= BreakerTripSheds
       THEN Trip(wait[c] + j)
       ELSE /\ pauseLeft' = Extend(wait[c] + j)
            /\ UNCHANGED <<effective, success>>
  /\ pc' = [pc EXCEPT ![c] = "idle"]
  /\ outcome' = [outcome EXCEPT ![c] = NoOutcome]
  /\ wait' = [wait EXCEPT ![c] = 0]
  /\ UNCHANGED <<serverLimit, inFlight, sinceDrop, consecutiveSheds>>
  /\ UNCHANGED <<timer, ctxDone, afterFuncs>>

-----------------------------------------------------------------------------
Dec(n) == Greatest(n - 1, 0)

\* Time passes for the gate and for every sleeper.
Tick ==
  /\ pauseLeft > 0 \/ sinceDrop < GrowHoldoff \/ \E c \in Call : timer[c] > 0
  /\ pauseLeft' = Dec(pauseLeft)
  /\ sinceDrop' = Least(sinceDrop + 1, GrowHoldoff)
  /\ timer' = [c \in Call |-> Dec(timer[c])]
  /\ UNCHANGED <<serverLimit, effective, inFlight, success, consecutiveSheds>>
  /\ UNCHANGED <<pc, outcome, wait, ctxDone, afterFuncs>>

\* The steps a goroutine takes on its own once it is in the gate.
AcquireStep(c) == CheckPause(c) \/ SleepOver(c) \/ Admit(c) \/ Block(c) \/ AcquireFails(c)
SettleStep(c) == Observe(c) \/ ClearSheds(c) \/ ShedDecrease(c) \/ ShedDelay(c) \/ PauseUntil(c)

Next ==
  \/ \E c \in Call :
       \/ Begin(c) \/ Cancel(c) \/ AfterFunc(c) \/ ReleaseUnary(c) \/ ReleaseStream(c)
       \/ SleepCancelled(c) \/ AcquireStep(c) \/ SettleStep(c)
  \/ Tick

Spec == Init /\ [][Next]_vars

\* The Go scheduler runs every runnable goroutine and timers fire; a select
\* whose context arm stays ready is not passed over for ever.  Nothing obliges
\* a caller to begin, to cancel, or the server to answer.
Fairness ==
  /\ WF_vars(Tick)
  /\ \A c \in Call : /\ WF_vars(AcquireStep(c)) /\ WF_vars(SettleStep(c))
                     /\ WF_vars(AfterFunc(c)) /\ SF_vars(SleepCancelled(c))

FairSpec == Spec /\ Fairness

-----------------------------------------------------------------------------
(* Properties *)

TypeOK ==
  /\ serverLimit \in Int
  /\ effective \in Int
  /\ inFlight \in Nat
  /\ success \in Nat
  /\ sinceDrop \in 0 .. GrowHoldoff
  /\ pauseLeft \in Nat
  /\ consecutiveSheds \in 0 .. StreakCap
  /\ pc \in [Call -> {"idle", "call"} \union Acquiring \union Settling]
  /\ outcome \in [Call -> {NoOutcome} \union Outcomes]
  /\ timer \in [Call -> Nat]
  /\ wait \in [Call -> 0 .. MaxShedDelay]
  /\ ctxDone \in [Call -> BOOLEAN]
  /\ afterFuncs \subseteq Call

\* The in-flight counter is the number of calls that hold a slot, across every
\* interleaving of admissions, releases and failed acquires (acquire 246-289,
\* release 291-299).
SlotAccounting == inFlight = Cardinality(Holders)

\* The effective concurrency stays between the floor and the ceiling that is
\* in force, though halving, growth, clamping and the breaker all move it and
\* the server moves the ceiling (observe 314-336, pauseUntil 362-378).
EffectiveWithinCeiling == MinLimit <= effective /\ effective <= Ceiling

\* No lost wakeup: a call sits on notFull only while there is no slot for it.
\* Every step that frees a slot or adds one broadcasts before another
\* goroutine can see it (release 297, observe 324, increaseLocked 431).
NoLostWakeup == Waiting # {} => inFlight >= effective

\* A cancelled call never sits on notFull without the goroutine that will wake
\* it: the AfterFunc is registered before the wait gives up the lock (273-280).
CancelReachesWaiter == \A c \in Waiting : ctxDone[c] => c \in afterFuncs

\* The breaker holds: once a shed streak of the tripping length has been fully
\* applied, concurrency is at the floor until a success ends the streak
\* (pauseUntil 366-373; shed and observe/clearSheds each take the lock twice).
BreakerHoldsFloor ==
  consecutiveSheds >= BreakerTripSheds /\ (\A c \in Call : pc[c] \notin {"clear", "delay", "pause"})
    => effective = MinLimit

\* While the slots in use meet or exceed the effective concurrency (it may have
\* just been halved under them) they only drain (acquire 265).
OverloadOnlyDrains == [][inFlight >= effective => inFlight' <= inFlight]_vars

\* The collapse guard: within a cooldown of the last halving a burst of sheds
\* takes no further slots away; only a lower advertised ceiling or the breaker
\* does (decreaseLocked 388-396).
OneCutPerCooldown ==
  [][sinceDrop < Cooldown /\ effective' < effective
       => effective' = Ceiling' \/ consecutiveSheds >= BreakerTripSheds]_vars

\* The pause always runs out: calls already past the pause check can extend it
\* by being admitted and shed, but nobody joins them.
PauseEnds == pauseLeft > 0 ~> pauseLeft = 0

\* A call whose context is done leaves acquire, wherever it was (250-286).
CancelledAcquireReturns ==
  \A c \in Call : ctxDone[c] /\ pc[c] \in Acquiring ~> pc[c] \notin Acquiring

\* As long as somebody keeps asking and callers stop giving up, the gate keeps
\* letting calls in: no stalled gate through lost wakeups, slots that are not
\* given back or pauses that do not end.
GateServes ==
  []<>(\E c \in Call : pc[c] \in Acquiring) /\ <>[](\A c \in Call : ~ctxDone[c])
    => []<>(Holders # {})

\* The gate is the resizable semaphore its callers rely on: calls enter and
\* leave one at a time, never past the capacity, and resizing evicts nobody.
Promise == INSTANCE AdmissionGate WITH held <- Holders, capacity <- effective
ImplementsAdmissionGate == Promise!Spec
=============================================================================
