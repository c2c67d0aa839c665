----------------------- MODULE BackpressureGateProofs -----------------------
(***************************************************************************)
(* Proofs about BackpressureGate for any set of calls, any signals the      *)
(* server may send and any timing constants.                                *)
(***************************************************************************)
EXTENDS BackpressureGate, FiniteSetTheorems, TLAPS

(* The steps that touch only a call's own state or the signals, by name. *)
LEMMA SeedPositive == SeedLimit \in Nat /\ SeedLimit >= MinLimit
BY SignalAssumption DEF SeedLimit, MinLimit, DefaultSeedLimit

LEMMA CeilingPositive == ASSUME NEW limit \in Int
                         PROVE  CeilingOf(limit) \in Int /\ CeilingOf(limit) >= MinLimit
BY SeedPositive DEF CeilingOf, MinLimit

LEMMA LeastGreatest ==
  ASSUME NEW a \in Int, NEW b \in Int
  PROVE  /\ Least(a, b) \in Int /\ Least(a, b) <= a /\ Least(a, b) <= b /\ Least(a, b) \in {a, b}
         /\ Greatest(a, b) \in Int /\ Greatest(a, b) >= a /\ Greatest(a, b) >= b /\ Greatest(a, b) \in {a, b}
BY DEF Least, Greatest

PCs == {"idle", "call"} \union Acquiring \union Settling

LEMMA BroadcastType ==
  ASSUME NEW p \in [Call -> PCs]
  PROVE  /\ Broadcast(p) \in [Call -> PCs]
         /\ {c \in Call : Broadcast(p)[c] = "call"} = {c \in Call : p[c] = "call"}
         /\ \A c \in Call : Broadcast(p)[c] # "wait"
BY DEF Broadcast, PCs, Acquiring, Admitting

LEMMA OutcomeTypes ==
  /\ NoAdvert \in Adverts
  /\ \A rl \in Adverts, is \in {"ok", "failed"} : [is |-> is, rl |-> rl, hint |-> 0] \in Outcomes
  /\ \A h \in Hints \union {0} : [is |-> "shed", rl |-> NoAdvert, hint |-> h] \in Outcomes
BY DEF Adverts, Outcomes

LEMMA OutcomeFields ==
  ASSUME NEW o \in {NoOutcome} \union Outcomes
  PROVE  /\ o.rl \in Adverts
         /\ o.rl.limit \in Int
         /\ o.hint \in Int
         /\ [o EXCEPT !.rl = NoAdvert] \in {NoOutcome} \union Outcomes
<1>1. NoAdvert \in Adverts /\ NoAdvert.limit \in Int
  BY DEF Adverts, NoAdvert
<1>2. \A rl \in Adverts : rl.limit \in Int
  BY <1>1, SignalAssumption DEF Adverts
<1>3. CASE o = NoOutcome
  BY <1>1, <1>3 DEF NoOutcome
<1>4. CASE o \in [is : {"ok", "failed"}, rl : Adverts, hint : {0}]
  BY <1>1, <1>2, <1>4 DEF Outcomes
<1>5. CASE o \in [is : {"shed"}, rl : {NoAdvert}, hint : Hints \union {0}]
  BY <1>1, <1>5, SignalAssumption DEF Outcomes
<1>. QED
  BY <1>3, <1>4, <1>5 DEF Outcomes

-----------------------------------------------------------------------------
(* Type correctness *)

LEMMA DecreaseType ==
  ASSUME NEW e \in Int, success \in Nat, sinceDrop \in 0 .. GrowHoldoff, Decrease(e)
  PROVE  effective' \in Int /\ success' \in Nat /\ sinceDrop' \in 0 .. GrowHoldoff
<1>1. e \div 2 \in Int
  OBVIOUS
<1>2. CASE sinceDrop < Cooldown /\ effective' = e /\ UNCHANGED <<success, sinceDrop>>
  BY <1>2
<1>3. CASE effective' = Greatest(MinLimit, e \div 2) /\ success' = 0 /\ sinceDrop' = 0
  BY <1>1, <1>3, TimingAssumption DEF Greatest, MinLimit
<1>. QED
  BY <1>2, <1>3 DEF Decrease

LEMMA IncreaseType ==
  ASSUME NEW e \in Int, NEW ceil \in Int, success \in Nat, sinceDrop \in 0 .. GrowHoldoff,
         CountSuccess(e, ceil) \/ Grow(e, ceil)
  PROVE  effective' \in Int /\ success' \in Nat /\ sinceDrop' \in 0 .. GrowHoldoff
BY TimingAssumption DEF CountSuccess, Grow, Least

THEOREM TypeCorrect == Spec => []TypeOK
<1>1. Init => TypeOK
  BY SeedPositive, TimingAssumption
     DEF Init, TypeOK, NoOutcome, StreakCap, Acquiring, Settling, Admitting
<1>2. TypeOK /\ [Next]_vars => TypeOK'
  <2> SUFFICES ASSUME TypeOK, [Next]_vars PROVE TypeOK'
    OBVIOUS
  <2> USE DEF TypeOK
  <2>0. pc \in [Call -> PCs]
    BY DEF PCs
  <2>1. ASSUME NEW c \in Call, Begin(c) PROVE TypeOK'
    BY <2>1 DEF Begin, gateVars, Acquiring
  <2>2. ASSUME NEW c \in Call, CheckPause(c) PROVE TypeOK'
    BY <2>2 DEF CheckPause, gateVars, Acquiring, Admitting
  <2>3. ASSUME NEW c \in Call, SleepOver(c) PROVE TypeOK'
    BY <2>3 DEF SleepOver, gateVars, Acquiring
  <2>4. ASSUME NEW c \in Call, SleepCancelled(c) PROVE TypeOK'
    BY <2>4 DEF SleepCancelled, gateVars
  <2>5. ASSUME NEW c \in Call, Admit(c) PROVE TypeOK'
    BY <2>5 DEF Admit, TakeSlot
  <2>6. ASSUME NEW c \in Call, Block(c) PROVE TypeOK'
    BY <2>6 DEF Block, gateVars, Acquiring
  <2>7. ASSUME NEW c \in Call, AcquireFails(c) PROVE TypeOK'
    BY <2>7 DEF AcquireFails, gateVars
  <2>8. ASSUME NEW c \in Call, Cancel(c) PROVE TypeOK'
    BY <2>8 DEF Cancel, gateVars
  <2>9. ASSUME NEW c \in Call, AfterFunc(c) PROVE TypeOK'
    BY <2>0, <2>9, BroadcastType DEF AfterFunc, gateVars, PCs
  <2>10. ASSUME NEW c \in Call, NEW next \in {"observe", "shed", "idle"},
                NEW o \in {NoOutcome} \union Outcomes, ReleaseSlot(c, next, o)
         PROVE  TypeOK'
    <3>1. [pc EXCEPT ![c] = next] \in [Call -> PCs]
      BY <2>0 DEF PCs, Settling
    <3>2. pc' \in [Call -> PCs]
      BY <3>1, <2>10, BroadcastType DEF ReleaseSlot
    <3>3. inFlight' \in Nat
      BY <2>10 DEF ReleaseSlot
    <3>4. outcome' \in [Call -> {NoOutcome} \union Outcomes]
      BY <2>10 DEF ReleaseSlot
    <3>5. UNCHANGED <<serverLimit, effective, success, sinceDrop, pauseLeft, consecutiveSheds,
                      timer, wait, ctxDone, afterFuncs>>
      BY <2>10 DEF ReleaseSlot
    <3>. QED
      BY <3>2, <3>3, <3>4, <3>5 DEF PCs
  <2>11. ASSUME NEW c \in Call, ReleaseUnary(c) PROVE TypeOK'
    BY <2>10, <2>11, OutcomeTypes DEF ReleaseUnary
  <2>12. ASSUME NEW c \in Call, ReleaseStream(c) PROVE TypeOK'
    BY <2>10, <2>12, OutcomeTypes DEF ReleaseStream
  <2>13. ASSUME NEW c \in Call, Observe(c) PROVE TypeOK'
    <3> DEFINE rl == outcome[c].rl
               limit == IF rl.ok /\ rl.limit > 0 THEN rl.limit ELSE serverLimit
               ceil == CeilingOf(limit)
               e == Least(effective, ceil)
               next == [pc EXCEPT ![c] = "clear"]
    <3>1. limit \in Int /\ ceil \in Int /\ e \in Int
      BY OutcomeFields, CeilingPositive DEF Least
    <3>2. next \in [Call -> PCs] /\ Broadcast(next) \in [Call -> PCs]
      BY <2>0, BroadcastType DEF PCs, Settling
    <3>3. /\ serverLimit' = limit
          /\ pc' \in {next, Broadcast(next)}
          /\ Decrease(e) \/ CountSuccess(e, ceil) \/ Grow(e, ceil)
          /\ outcome' = [outcome EXCEPT ![c].rl = NoAdvert]
          /\ UNCHANGED <<inFlight, pauseLeft, consecutiveSheds, timer, wait, ctxDone, afterFuncs>>
      BY <2>13 DEF Observe
    <3>4. effective' \in Int /\ success' \in Nat /\ sinceDrop' \in 0 .. GrowHoldoff
      BY <3>1, <3>3, DecreaseType, IncreaseType
    <3>5. outcome' \in [Call -> {NoOutcome} \union Outcomes]
      BY <3>3, OutcomeFields
    <3>. QED
      BY <3>1, <3>2, <3>3, <3>4, <3>5 DEF PCs
  <2>14. ASSUME NEW c \in Call, ClearSheds(c) PROVE TypeOK'
    BY <2>14, TimingAssumption DEF ClearSheds, StreakCap
  <2>15. ASSUME NEW c \in Call, ShedDecrease(c) PROVE TypeOK'
    <3>1. effective' \in Int /\ success' \in Nat /\ sinceDrop' \in 0 .. GrowHoldoff
      BY <2>15, DecreaseType DEF ShedDecrease
    <3>2. consecutiveSheds' \in 0 .. StreakCap
      BY <2>15, TimingAssumption DEF ShedDecrease, Least, StreakCap
    <3>3. wait' \in [Call -> 0 .. MaxShedDelay]
      <4>1. outcome[c].hint \in Int
        BY OutcomeFields
      <4>2. CASE outcome[c].hint > 0
        <5>1. CapDelay(outcome[c].hint) \in 0 .. MaxShedDelay
          BY <4>1, <4>2, TimingAssumption DEF CapDelay, Least
        <5>. QED
          BY <2>15, <5>1 DEF ShedDecrease
      <4>3. CASE outcome[c].hint <= 0
        BY <2>15, <4>1, <4>3 DEF ShedDecrease
      <4>. QED
        BY <4>1, <4>2, <4>3
    <3>. QED
      BY <2>15, <3>1, <3>2, <3>3 DEF ShedDecrease, Settling
  <2>16. ASSUME NEW c \in Call, ShedDelay(c) PROVE TypeOK'
    BY <2>16 DEF ShedDelay, gateVars, Settling
  <2>17. ASSUME NEW c \in Call, PauseUntil(c) PROVE TypeOK'
    <3>1. PICK j \in Jitters(wait[c]) :
             IF consecutiveSheds >= BreakerTripSheds
             THEN Trip(wait[c] + j)
             ELSE pauseLeft' = Extend(wait[c] + j) /\ UNCHANGED <<effective, success>>
      BY <2>17 DEF PauseUntil
    <3>2. wait[c] \in Nat /\ j \in Nat
      BY TimingAssumption DEF Jitters
    <3>3. effective' \in Int /\ success' \in Nat /\ pauseLeft' \in Nat
      BY <3>1, <3>2, TimingAssumption DEF Trip, Extend, Greatest, MinLimit
    <3>4. wait' \in [Call -> 0 .. MaxShedDelay]
      BY <2>17, TimingAssumption DEF PauseUntil
    <3>. QED
      BY <2>17, <3>3, <3>4 DEF PauseUntil
  <2>18. ASSUME Tick PROVE TypeOK'
    BY <2>18, TimingAssumption DEF Tick, Dec, Least, Greatest
  <2>19. CASE UNCHANGED vars
    BY <2>19 DEF vars, gateVars, callVars
  <2>. QED
    BY <2>1, <2>2, <2>3, <2>4, <2>5, <2>6, <2>7, <2>8, <2>9, <2>11, <2>12, <2>13, <2>14,
       <2>15, <2>16, <2>17, <2>18, <2>19 DEF Next, AcquireStep, SettleStep
<1>. QED
  BY <1>1, <1>2, PTL DEF Spec

-----------------------------------------------------------------------------
(* Slots *)

\* Every step keeps the holders and the counter, admits one call below the
\* effective concurrency, or gives one slot back.
NoSlotMoves == Holders' = Holders /\ inFlight' = inFlight
OneEnters ==
  /\ \E c \in Call \ Holders : Holders' = Holders \union {c}
  /\ inFlight < effective /\ inFlight' = inFlight + 1 /\ effective' = effective
OneLeaves ==
  /\ \E c \in Holders : Holders' = Holders \ {c}
  /\ inFlight' = (IF inFlight > 0 THEN inFlight - 1 ELSE inFlight) /\ effective' = effective

LEMMA ReleaseLeaves ==
  ASSUME TypeOK, NEW c \in Call, NEW next \in {"observe", "shed", "idle"}, NEW o,
         ReleaseSlot(c, next, o)
  PROVE  OneLeaves /\ Waiting' = {}
<1>1. pc \in [Call -> PCs] /\ [pc EXCEPT ![c] = next] \in [Call -> PCs]
  BY DEF TypeOK, PCs, Settling
<1>2. /\ Holders' = {d \in Call : [pc EXCEPT ![c] = next][d] = "call"}
      /\ Waiting' = {}
  BY <1>1, BroadcastType DEF ReleaseSlot, Holders, Waiting
<1>3. Holders' = Holders \ {c} /\ c \in Holders
  BY <1>1, <1>2 DEF ReleaseSlot, Holders
<1>. QED
  BY <1>2, <1>3 DEF OneLeaves, ReleaseSlot

LEMMA SlotSteps ==
  ASSUME TypeOK, [Next]_vars
  PROVE  NoSlotMoves \/ OneEnters \/ OneLeaves
<1> USE DEF NoSlotMoves, Holders
<1>0. pc \in [Call -> PCs]
  BY DEF TypeOK, PCs
<1>1. ASSUME NEW c \in Call,
             Begin(c) \/ CheckPause(c) \/ SleepOver(c) \/ SleepCancelled(c) \/ Block(c)
               \/ AcquireFails(c) \/ Cancel(c)
      PROVE  NoSlotMoves
  BY <1>0, <1>1 DEF Begin, CheckPause, SleepOver, SleepCancelled, Block, AcquireFails, Cancel,
                    gateVars, Admitting
<1>2. ASSUME NEW c \in Call, Admit(c) PROVE OneEnters
  BY <1>0, <1>2 DEF Admit, TakeSlot, OneEnters, Admitting
<1>3. ASSUME NEW c \in Call, AfterFunc(c) PROVE NoSlotMoves
  BY <1>0, <1>3, BroadcastType DEF AfterFunc, gateVars
<1>4. ASSUME NEW c \in Call, ReleaseUnary(c) \/ ReleaseStream(c) PROVE OneLeaves
  BY <1>4, ReleaseLeaves DEF ReleaseUnary, ReleaseStream
<1>5. ASSUME NEW c \in Call, Observe(c) PROVE NoSlotMoves
  <2> DEFINE next == [pc EXCEPT ![c] = "clear"]
  <2>1. next \in [Call -> PCs] /\ pc' \in {next, Broadcast(next)} /\ inFlight' = inFlight /\ pc[c] = "observe"
    BY <1>0, <1>5 DEF Observe, PCs, Settling
  <2>2. Holders' = {d \in Call : next[d] = "call"}
    BY <2>1, BroadcastType
  <2>. QED
    BY <1>0, <2>1, <2>2
<1>6. ASSUME NEW c \in Call, ClearSheds(c) \/ ShedDecrease(c) \/ ShedDelay(c) \/ PauseUntil(c)
      PROVE  NoSlotMoves
  BY <1>0, <1>6 DEF ClearSheds, ShedDecrease, ShedDelay, PauseUntil, gateVars
<1>7. ASSUME Tick \/ UNCHANGED vars PROVE NoSlotMoves
  BY <1>7 DEF Tick, vars, gateVars, callVars
<1>. QED
  BY <1>1, <1>2, <1>3, <1>4, <1>5, <1>6, <1>7 DEF Next, AcquireStep, SettleStep

\* inFlight always is the number of calls holding a slot.
THEOREM SlotsAccounted == Spec => []SlotAccounting
<1>1. Init => SlotAccounting
  BY FS_EmptySet DEF Init, SlotAccounting, Holders
<1>2. TypeOK /\ SlotAccounting /\ [Next]_vars => SlotAccounting'
  <2> SUFFICES ASSUME TypeOK, SlotAccounting, [Next]_vars PROVE SlotAccounting'
    OBVIOUS
  <2>1. IsFiniteSet(Holders)
    BY CallAssumption, FS_Subset DEF Holders
  <2>2. CASE NoSlotMoves
    BY <2>2 DEF NoSlotMoves, SlotAccounting
  <2>3. CASE OneEnters
    <3>1. PICK c \in Call \ Holders : Holders' = Holders \union {c}
      BY <2>3 DEF OneEnters
    <3>2. Cardinality(Holders \union {c}) = Cardinality(Holders) + 1
      BY <2>1, <3>1, FS_AddElement
    <3>. QED
      BY <2>3, <3>1, <3>2 DEF OneEnters, SlotAccounting
  <2>4. CASE OneLeaves
    <3>1. PICK c \in Holders : Holders' = Holders \ {c}
      BY <2>4 DEF OneLeaves
    <3>2. Cardinality(Holders \ {c}) = Cardinality(Holders) - 1
      BY <2>1, <3>1, FS_RemoveElement
    <3>3. Cardinality(Holders) > 0
      BY <2>1, <3>1, FS_EmptySet, FS_CardinalityType
    <3>. QED
      BY <2>4, <3>1, <3>2, <3>3 DEF OneLeaves, SlotAccounting
  <2>. QED
    BY <2>2, <2>3, <2>4, SlotSteps
<1>. QED
  BY <1>1, <1>2, TypeCorrect, PTL DEF Spec

\* Overload drains: no step adds to slots at or beyond the effective concurrency.
THEOREM OverloadDrains == Spec => OverloadOnlyDrains
<1>1. TypeOK /\ [Next]_vars => [inFlight >= effective => inFlight' <= inFlight]_vars
  <2> SUFFICES ASSUME TypeOK, [Next]_vars, inFlight >= effective PROVE inFlight' <= inFlight
    OBVIOUS
  <2>. QED
    BY SlotSteps DEF NoSlotMoves, OneEnters, OneLeaves, TypeOK
<1>. QED
  BY <1>1, TypeCorrect, PTL DEF Spec, OverloadOnlyDrains

-----------------------------------------------------------------------------
(* The effective concurrency *)

LEMMA HalfBounds == ASSUME NEW e \in Int, e >= MinLimit
                    PROVE  Greatest(MinLimit, e \div 2) \in MinLimit .. e
<1>1. e \div 2 \in Int /\ e \div 2 <= e
  BY DEF MinLimit
<1>. QED
  BY <1>1 DEF Greatest, MinLimit

LEMMA DecreaseShrinks ==
  ASSUME NEW e \in Int, e >= MinLimit, Decrease(e)
  PROVE  effective' \in MinLimit .. e
BY HalfBounds DEF Decrease, MinLimit

\* Every step leaves ceiling and effective concurrency alone, shrinks the
\* latter under the same ceiling, or folds in an advertisement.
LEMMA ObserveBounds ==
  ASSUME TypeOK, EffectiveWithinCeiling, NEW c \in Call, Observe(c)
  PROVE  /\ EffectiveWithinCeiling'
         /\ Waiting' = {} \/ (Waiting' = Waiting /\ effective' <= effective)
<1> DEFINE rl == outcome[c].rl
           limit == IF rl.ok /\ rl.limit > 0 THEN rl.limit ELSE serverLimit
           ceil == CeilingOf(limit)
           e == Least(effective, ceil)
           next == [pc EXCEPT ![c] = "clear"]
<1>1. limit \in Int /\ ceil \in Int /\ ceil >= MinLimit
  BY OutcomeFields, CeilingPositive DEF TypeOK
<1>2. e \in Int /\ MinLimit <= e /\ e <= ceil /\ e <= effective /\ effective \in Int
  BY <1>1 DEF TypeOK, EffectiveWithinCeiling, Least, MinLimit
<1>3. Ceiling' = ceil
  BY DEF Observe, Ceiling, CeilingOf
<1>4. pc \in [Call -> PCs] /\ next \in [Call -> PCs] /\ pc[c] = "observe"
  BY DEF Observe, TypeOK, PCs, Settling
<1>5. \/ (Decrease(e) \/ CountSuccess(e, ceil)) /\ pc' \in {next, Broadcast(next)}
      \/ Grow(e, ceil) /\ pc' = Broadcast(next)
  BY DEF Observe
<1>6. effective' \in MinLimit .. ceil
  BY <1>1, <1>2, <1>5, DecreaseShrinks DEF CountSuccess, Grow, Least, MinLimit
<1>7. Decrease(e) \/ CountSuccess(e, ceil) => effective' <= effective
  BY <1>1, <1>2, DecreaseShrinks DEF CountSuccess, MinLimit
<1>8. pc' = next => Waiting' = Waiting
  BY <1>4 DEF Waiting
<1>9. pc' = Broadcast(next) => Waiting' = {}
  BY <1>4, BroadcastType DEF Waiting
<1>. QED
  BY <1>3, <1>5, <1>6, <1>7, <1>8, <1>9, <1>1 DEF EffectiveWithinCeiling, MinLimit

LEMMA ShedBounds ==
  ASSUME TypeOK, EffectiveWithinCeiling, NEW c \in Call, ShedDecrease(c) \/ PauseUntil(c)
  PROVE  EffectiveWithinCeiling' /\ Waiting' = Waiting /\ effective' <= effective
<1>1. pc \in [Call -> PCs] /\ effective \in Int /\ serverLimit' = serverLimit
  BY DEF TypeOK, PCs, ShedDecrease, PauseUntil
<1>2. effective' \in MinLimit .. effective
  <2>1. CASE ShedDecrease(c)
    BY <1>1, <2>1, DecreaseShrinks DEF ShedDecrease, EffectiveWithinCeiling, MinLimit
  <2>2. CASE PauseUntil(c)
    BY <1>1, <2>2 DEF PauseUntil, Trip, EffectiveWithinCeiling, MinLimit
  <2>. QED
    BY <2>1, <2>2
<1>3. Waiting' = Waiting
  BY <1>1 DEF ShedDecrease, PauseUntil, Waiting
<1>4. Ceiling' = Ceiling /\ Ceiling \in Int
  BY <1>1, CeilingPositive DEF Ceiling, CeilingOf, TypeOK
<1>. QED
  BY <1>1, <1>2, <1>3, <1>4 DEF EffectiveWithinCeiling, MinLimit

\* What the other steps do to the wait queue.
LEMMA QuietSteps ==
  ASSUME TypeOK, [Next]_vars
  PROVE  \/ \E c \in Call : Observe(c) \/ ShedDecrease(c) \/ PauseUntil(c)
         \/ /\ UNCHANGED <<effective, serverLimit>>
            /\ \/ Waiting' = {}
               \/ Waiting' \subseteq Waiting /\ inFlight' >= inFlight
               \/ inFlight >= effective /\ inFlight' = inFlight
<1> DEFINE Quiet == /\ UNCHANGED <<effective, serverLimit>>
                    /\ \/ Waiting' = {}
                       \/ Waiting' \subseteq Waiting /\ inFlight' >= inFlight
                       \/ inFlight >= effective /\ inFlight' = inFlight
<1>0. pc \in [Call -> PCs] /\ inFlight \in Nat
  BY DEF TypeOK, PCs
<1>1. ASSUME NEW c \in Call,
             Begin(c) \/ CheckPause(c) \/ SleepOver(c) \/ SleepCancelled(c) \/ AcquireFails(c)
               \/ Cancel(c) \/ ClearSheds(c) \/ ShedDelay(c)
      PROVE  Quiet
  BY <1>0, <1>1 DEF Begin, CheckPause, SleepOver, SleepCancelled, AcquireFails, Cancel, ClearSheds,
                    ShedDelay, gateVars, Waiting
<1>2. ASSUME NEW c \in Call, Admit(c) PROVE Quiet
  BY <1>0, <1>2 DEF Admit, TakeSlot, Waiting
<1>3. ASSUME NEW c \in Call, Block(c) PROVE Quiet
  BY <1>3 DEF Block, gateVars
<1>4. ASSUME NEW c \in Call, AfterFunc(c) PROVE Quiet
  BY <1>0, <1>4, BroadcastType DEF AfterFunc, gateVars, Waiting
<1>5. ASSUME NEW c \in Call, ReleaseUnary(c) \/ ReleaseStream(c) PROVE Quiet
  <2>1. \E next \in {"observe", "shed", "idle"}, o \in {NoOutcome} \union Outcomes : ReleaseSlot(c, next, o)
    BY <1>5, OutcomeTypes DEF ReleaseUnary, ReleaseStream
  <2>. QED
    BY <2>1, ReleaseLeaves DEF ReleaseSlot
<1>6. ASSUME Tick \/ UNCHANGED vars PROVE Quiet
  BY <1>0, <1>6 DEF Tick, vars, gateVars, callVars, Waiting
<1>. QED
  BY <1>1, <1>2, <1>3, <1>4, <1>5, <1>6 DEF Next, AcquireStep, SettleStep

\* Between the floor and the ceiling in force, whatever the server advertises.
THEOREM EffectiveBounded == Spec => []EffectiveWithinCeiling
<1>1. Init => EffectiveWithinCeiling
  BY SeedPositive DEF Init, EffectiveWithinCeiling, Ceiling, CeilingOf, MinLimit
<1>2. TypeOK /\ EffectiveWithinCeiling /\ [Next]_vars => EffectiveWithinCeiling'
  BY QuietSteps, ObserveBounds, ShedBounds DEF EffectiveWithinCeiling, Ceiling
<1>. QED
  BY <1>1, <1>2, TypeCorrect, PTL DEF Spec

\* A call waits on notFull only while no slot is free.
THEOREM WakeupsNotLost == Spec => []NoLostWakeup
<1>1. Init => NoLostWakeup
  BY DEF Init, NoLostWakeup, Waiting
<1>2. TypeOK /\ TypeOK' /\ EffectiveWithinCeiling /\ NoLostWakeup /\ [Next]_vars => NoLostWakeup'
  <2> SUFFICES ASSUME TypeOK, TypeOK', EffectiveWithinCeiling, NoLostWakeup, [Next]_vars,
                      Waiting' # {}
               PROVE  inFlight' >= effective'
    BY DEF NoLostWakeup
  <2>1. inFlight \in Nat /\ effective \in Int /\ inFlight' \in Nat /\ effective' \in Int
    BY DEF TypeOK
  <2>2. ASSUME NEW c \in Call, Observe(c) \/ ShedDecrease(c) \/ PauseUntil(c)
        PROVE  inFlight' >= effective'
    <3>1. Waiting' = Waiting /\ effective' <= effective
      BY <2>2, ObserveBounds, ShedBounds
    <3>2. inFlight' = inFlight
      BY <2>2 DEF Observe, ShedDecrease, PauseUntil
    <3>. QED
      BY <2>1, <3>1, <3>2 DEF NoLostWakeup
  <2>. QED
    BY <2>1, <2>2, QuietSteps DEF NoLostWakeup
<1>. QED
  BY <1>1, <1>2, TypeCorrect, EffectiveBounded, PTL DEF Spec

-----------------------------------------------------------------------------
(* The promise *)

\* The gate implements the resizable semaphore: calls enter below the capacity
\* and leave one at a time, and moving the capacity evicts nobody.
THEOREM GateKeepsPromise == Spec => ImplementsAdmissionGate
<1>1. Init => Promise!Init
  BY SeedPositive DEF Init, Promise!Init, Holders, MinLimit
<1>2. TypeOK /\ EffectiveWithinCeiling /\ EffectiveWithinCeiling' /\ TypeOK' /\ SlotAccounting /\ [Next]_vars
        => [Promise!Next]_<<Holders, effective>>
  <2> SUFFICES ASSUME TypeOK, EffectiveWithinCeiling', TypeOK', SlotAccounting, [Next]_vars
               PROVE  [Promise!Next]_<<Holders, effective>>
    OBVIOUS
  <2>1. effective' \in Nat \ {0}
    BY DEF TypeOK, EffectiveWithinCeiling, MinLimit
  <2>2. CASE NoSlotMoves
    BY <2>1, <2>2 DEF NoSlotMoves, Promise!Next, Promise!Resize
  <2>3. CASE OneEnters
    <3>1. PICK c \in Call \ Holders : Holders' = Holders \union {c}
      BY <2>3 DEF OneEnters
    <3>2. Cardinality(Holders) < effective
      BY <2>3 DEF OneEnters, SlotAccounting
    <3>3. Promise!Cardinality(Holders) = Cardinality(Holders)
      BY Zenon DEF Cardinality, Promise!Cardinality
    <3>4. Promise!Enter(c)
      BY <2>3, <3>1, <3>2, <3>3 DEF OneEnters, Promise!Enter
    <3>. QED
      BY <3>4 DEF Promise!Next
  <2>4. CASE OneLeaves
    <3>1. PICK c \in Holders : Holders' = Holders \ {c}
      BY <2>4 DEF OneLeaves
    <3>2. Promise!Leave(c) /\ c \in Call
      BY <2>4, <3>1 DEF OneLeaves, Promise!Leave, Holders
    <3>. QED
      BY <3>2 DEF Promise!Next
  <2>. QED
    BY <2>2, <2>3, <2>4, SlotSteps
<1>. QED
  BY <1>1, <1>2, TypeCorrect, EffectiveBounded, SlotsAccounted, PTL
     DEF Spec, ImplementsAdmissionGate, Promise!Spec

\* A cancelled waiter is never left without the broadcast that will wake it.
THEOREM CancelHeard == Spec => []CancelReachesWaiter
<1>1. Init => CancelReachesWaiter
  BY DEF Init, CancelReachesWaiter, Waiting
<1>2. TypeOK /\ CancelReachesWaiter /\ [Next]_vars => CancelReachesWaiter'
  <2> SUFFICES ASSUME TypeOK, CancelReachesWaiter, [Next]_vars PROVE CancelReachesWaiter'
    OBVIOUS
  <2> USE DEF CancelReachesWaiter, Waiting
  <2>0. pc \in [Call -> PCs] /\ ctxDone \in [Call -> BOOLEAN]
    BY DEF TypeOK, PCs
  <2>1. ASSUME NEW c \in Call,
               Begin(c) \/ CheckPause(c) \/ SleepOver(c) \/ SleepCancelled(c) \/ AcquireFails(c)
                 \/ Block(c) \/ Admit(c)
        PROVE  CancelReachesWaiter'
    BY <2>0, <2>1 DEF Begin, CheckPause, SleepOver, SleepCancelled, AcquireFails, Block, Admit, TakeSlot
  <2>2. ASSUME NEW c \in Call, Cancel(c) PROVE CancelReachesWaiter'
    BY <2>0, <2>2 DEF Cancel
  <2>3. ASSUME NEW c \in Call, AfterFunc(c) PROVE CancelReachesWaiter'
    BY <2>0, <2>3, BroadcastType DEF AfterFunc
  <2>4. ASSUME NEW c \in Call, ReleaseUnary(c) \/ ReleaseStream(c) PROVE CancelReachesWaiter'
    <3>1. Waiting' = {}
      BY <2>4, ReleaseLeaves, OutcomeTypes DEF ReleaseUnary, ReleaseStream
    <3>. QED
      BY <3>1
  <2>5. ASSUME NEW c \in Call, Observe(c) PROVE CancelReachesWaiter'
    <3> DEFINE next == [pc EXCEPT ![c] = "clear"]
    <3>1. /\ next \in [Call -> PCs] /\ pc' \in {next, Broadcast(next)}
          /\ ctxDone' = ctxDone /\ afterFuncs' = afterFuncs
      BY <2>0, <2>5 DEF Observe, PCs, Settling
    <3>. QED
      BY <2>0, <3>1, BroadcastType
  <2>6. ASSUME NEW c \in Call, ClearSheds(c) \/ ShedDecrease(c) \/ ShedDelay(c) \/ PauseUntil(c)
        PROVE  CancelReachesWaiter'
    BY <2>0, <2>6 DEF ClearSheds, ShedDecrease, ShedDelay, PauseUntil
  <2>7. ASSUME Tick \/ UNCHANGED vars PROVE CancelReachesWaiter'
    BY <2>7 DEF Tick, vars, callVars
  <2>. QED
    BY <2>1, <2>2, <2>3, <2>4, <2>5, <2>6, <2>7 DEF Next, AcquireStep, SettleStep
<1>. QED
  BY <1>1, <1>2, TypeCorrect, PTL DEF Spec

-----------------------------------------------------------------------------
(* The collapse guard, the breaker and the pause *)

\* Within a cooldown neither halving nor growth moves the concurrency.
LEMMA CooldownHolds ==
  ASSUME TypeOK, NEW e \in Int, NEW ceil \in Int, sinceDrop < Cooldown,
         Decrease(e) \/ CountSuccess(e, ceil) \/ Grow(e, ceil)
  PROVE  effective' = e
BY TimingAssumption DEF TypeOK, Decrease, CountSuccess, Grow

\* Who moves the concurrency at all.
LEMMA EffectiveMovers ==
  ASSUME TypeOK, [Next]_vars, effective' # effective
  PROVE  \E c \in Call : Observe(c) \/ ShedDecrease(c) \/ PauseUntil(c)
BY QuietSteps

\* A burst of sheds halves once: within a cooldown of the last halving only a
\* lower advertised ceiling or the breaker takes slots away.
THEOREM OneCut == Spec => OneCutPerCooldown
<1>1. TypeOK /\ [Next]_vars
        => [sinceDrop < Cooldown /\ effective' < effective
              => effective' = Ceiling' \/ consecutiveSheds >= BreakerTripSheds]_vars
  <2> SUFFICES ASSUME TypeOK, [Next]_vars, sinceDrop < Cooldown, effective' < effective
               PROVE  effective' = Ceiling' \/ consecutiveSheds >= BreakerTripSheds
    OBVIOUS
  <2>1. effective \in Int /\ effective' # effective
    BY DEF TypeOK
  <2>2. PICK c \in Call : Observe(c) \/ ShedDecrease(c) \/ PauseUntil(c)
    BY <2>1, EffectiveMovers
  <2>3. CASE Observe(c)
    <3> DEFINE rl == outcome[c].rl
               limit == IF rl.ok /\ rl.limit > 0 THEN rl.limit ELSE serverLimit
               ceil == CeilingOf(limit)
               e == Least(effective, ceil)
    <3>1. limit \in Int /\ ceil \in Int /\ e \in {effective, ceil}
      BY OutcomeFields, CeilingPositive DEF TypeOK, Least
    <3>2. Ceiling' = ceil
      BY <2>3 DEF Observe, Ceiling, CeilingOf
    <3>3. Decrease(e) \/ CountSuccess(e, ceil) \/ Grow(e, ceil)
      BY <2>3 DEF Observe
    <3>4. effective' = e
      BY <2>1, <3>1, <3>3, CooldownHolds
    <3> QED BY <2>1, <3>1, <3>2, <3>4
  <2>4. CASE ShedDecrease(c)
    BY <2>1, <2>4, CooldownHolds DEF ShedDecrease
  <2>5. CASE PauseUntil(c)
    BY <2>1, <2>5 DEF PauseUntil
  <2> QED BY <2>2, <2>3, <2>4, <2>5
<1> QED BY <1>1, TypeCorrect, PTL DEF Spec, OneCutPerCooldown

\* The calls that may still have to apply a shed, or to end the streak.
Applying == {c \in Call : pc[c] \in {"clear", "delay", "pause"}}

\* Only observe, shed, clearSheds and pauseUntil touch the streak, the
\* concurrency or those calls.
LEMMA ApplyingSteps ==
  ASSUME TypeOK, [Next]_vars
  PROVE  \/ \E c \in Call : Observe(c) \/ ClearSheds(c) \/ ShedDecrease(c) \/ ShedDelay(c) \/ PauseUntil(c)
         \/ Applying' = Applying /\ UNCHANGED <<effective, consecutiveSheds>>
<1> DEFINE Aside == Applying' = Applying /\ UNCHANGED <<effective, consecutiveSheds>>
<1>0. pc \in [Call -> PCs]
  BY DEF TypeOK, PCs
<1>1. ASSUME NEW c \in Call,
             Begin(c) \/ CheckPause(c) \/ SleepOver(c) \/ SleepCancelled(c) \/ AcquireFails(c)
               \/ Cancel(c) \/ Block(c) \/ Admit(c)
      PROVE  Aside
  BY <1>0, <1>1 DEF Begin, CheckPause, SleepOver, SleepCancelled, AcquireFails, Cancel, Block,
                    Admit, TakeSlot, Admitting, gateVars, Applying
<1>2. ASSUME NEW p \in [Call -> PCs], pc' = Broadcast(p)
      PROVE  Applying' = {c \in Call : p[c] \in {"clear", "delay", "pause"}}
  BY <1>2 DEF Broadcast, Applying
<1>3. ASSUME NEW c \in Call, AfterFunc(c) PROVE Aside
  BY <1>0, <1>2, <1>3 DEF AfterFunc, gateVars, Applying
<1>4. ASSUME NEW c \in Call, NEW next \in {"observe", "shed", "idle"}, NEW o, ReleaseSlot(c, next, o)
      PROVE  Aside
  <2>1. [pc EXCEPT ![c] = next] \in [Call -> PCs]
    BY <1>0 DEF PCs, Settling
  <2>2. Applying' = {d \in Call : [pc EXCEPT ![c] = next][d] \in {"clear", "delay", "pause"}}
    BY <1>2, <1>4, <2>1 DEF ReleaseSlot
  <2> QED BY <1>0, <1>4, <2>2 DEF ReleaseSlot, Applying
<1>5. ASSUME NEW c \in Call, ReleaseUnary(c) \/ ReleaseStream(c) PROVE Aside
  BY <1>4, <1>5 DEF ReleaseUnary, ReleaseStream
<1>6. ASSUME Tick \/ UNCHANGED vars PROVE Aside
  BY <1>6 DEF Tick, vars, gateVars, callVars, Applying
<1> QED BY <1>1, <1>3, <1>5, <1>6, <1>4 DEF Next, AcquireStep, SettleStep

\* A streak of the tripping length keeps the concurrency at the floor, once it
\* was applied, until a success ends it.
THEOREM BreakerHolds == Spec => []BreakerHoldsFloor
<1>1. Init => BreakerHoldsFloor
  BY TimingAssumption DEF Init, BreakerHoldsFloor
<1>2. TypeOK /\ BreakerHoldsFloor /\ [Next]_vars => BreakerHoldsFloor'
  <2> SUFFICES ASSUME TypeOK, BreakerHoldsFloor, [Next]_vars,
                      consecutiveSheds' >= BreakerTripSheds, Applying' = {}
               PROVE  effective' = MinLimit
    BY DEF BreakerHoldsFloor, Applying
  <2>0. pc \in [Call -> PCs] /\ consecutiveSheds \in Int /\ BreakerTripSheds \in Nat \ {0}
    BY TimingAssumption DEF TypeOK, PCs
  <2>1. ASSUME NEW c \in Call, Observe(c) PROVE FALSE
    <3> DEFINE next == [pc EXCEPT ![c] = "clear"]
    <3>1. pc' \in {next, Broadcast(next)} /\ next[c] = "clear"
      BY <2>0, <2>1 DEF Observe
    <3>2. pc'[c] = "clear"
      BY <3>1 DEF Broadcast
    <3> QED BY <3>2 DEF Applying
  <2>2. ASSUME NEW c \in Call, ClearSheds(c) PROVE FALSE
    BY <2>0, <2>2 DEF ClearSheds
  <2>3. ASSUME NEW c \in Call, ShedDecrease(c) \/ ShedDelay(c) PROVE FALSE
    BY <2>0, <2>3 DEF ShedDecrease, ShedDelay, Applying
  <2>4. ASSUME NEW c \in Call, PauseUntil(c) PROVE effective' = MinLimit
    BY <2>0, <2>4 DEF PauseUntil, Trip
  <2>5. CASE Applying' = Applying /\ UNCHANGED <<effective, consecutiveSheds>>
    BY <2>5 DEF BreakerHoldsFloor, Applying
  <2> QED BY <2>1, <2>2, <2>3, <2>4, <2>5, ApplyingSteps
<1> QED BY <1>1, <1>2, TypeCorrect, PTL DEF Spec

\* The longest a pause may be: the cap with its jitter, or the breaker's.
LongestPause == Greatest(MaxShedDelay + (MaxShedDelay + 4) \div 5, BreakerCooldown)

\* Whatever hints the server sends and however the sheds of several calls pile
\* up, the shared pause and every sleep in acquire keep below one bound: pauses
\* are the longer of the two, never their sum (shed, pauseUntil 349-378).
PauseBounded == pauseLeft <= LongestPause /\ \A c \in Call : timer[c] <= LongestPause

LEMMA LongestPauseIsNat == LongestPause \in Nat
BY TimingAssumption DEF LongestPause, Greatest

\* What pauseUntil may ask for.
LEMMA JitterBounded ==
  ASSUME NEW d \in 0 .. MaxShedDelay, NEW j \in Jitters(d)
  PROVE  d + j \in Nat /\ d + j <= LongestPause /\ BreakerCooldown <= LongestPause
<1>1. MaxShedDelay \in Nat /\ BreakerCooldown \in Nat /\ d \in Nat /\ d <= MaxShedDelay
  BY TimingAssumption
<1>2. (d + 4) \div 5 <= (MaxShedDelay + 4) \div 5 /\ (d + 4) \div 5 \in Nat /\ (MaxShedDelay + 4) \div 5 \in Nat
  BY <1>1
<1>3. j \in Nat /\ j <= (d + 4) \div 5
  BY <1>2 DEF Jitters
<1> QED BY <1>1, <1>2, <1>3 DEF LongestPause, Greatest

\* Nobody is kept out by a pause longer than that bound.
THEOREM PausesBounded == Spec => []PauseBounded
<1>1. Init => PauseBounded
  BY LongestPauseIsNat DEF Init, PauseBounded
<1>2. TypeOK /\ PauseBounded /\ [Next]_vars => PauseBounded'
  <2> SUFFICES ASSUME TypeOK, PauseBounded, [Next]_vars PROVE PauseBounded'
    OBVIOUS
  <2> USE DEF PauseBounded
  <2>0. LongestPause \in Nat /\ pauseLeft \in Nat /\ timer \in [Call -> Nat]
    BY LongestPauseIsNat DEF TypeOK
  <2>1. ASSUME NEW c \in Call, CheckPause(c) \/ SleepCancelled(c) PROVE PauseBounded'
    BY <2>0, <2>1 DEF CheckPause, SleepCancelled, gateVars
  <2>2. ASSUME NEW c \in Call, PauseUntil(c) PROVE PauseBounded'
    <3>1. PICK j \in Jitters(wait[c]) :
             \/ Trip(wait[c] + j)
             \/ pauseLeft' = Extend(wait[c] + j)
      BY <2>2 DEF PauseUntil
    <3>2. /\ wait[c] + j \in Nat /\ wait[c] + j <= LongestPause
          /\ BreakerCooldown \in Nat /\ BreakerCooldown <= LongestPause
      BY JitterBounded, TimingAssumption DEF TypeOK
    <3>3. pauseLeft' <= LongestPause
      BY <2>0, <3>1, <3>2 DEF Trip, Extend, Greatest
    <3> QED BY <2>2, <3>3 DEF PauseUntil
  <2>3. CASE Tick
    BY <2>0, <2>3 DEF Tick, Dec, Greatest
  <2>4. ASSUME UNCHANGED <<pauseLeft, timer>> PROVE PauseBounded'
    BY <2>4
  <2>5. ASSUME NEW c \in Call,
               Begin(c) \/ SleepOver(c) \/ Admit(c) \/ Block(c) \/ AcquireFails(c) \/ Cancel(c) \/ AfterFunc(c)
        PROVE  UNCHANGED <<pauseLeft, timer>>
    BY <2>5 DEF Begin, SleepOver, Admit, TakeSlot, Block, AcquireFails, Cancel, AfterFunc, gateVars
  <2>6. ASSUME NEW c \in Call, ReleaseUnary(c) \/ ReleaseStream(c) PROVE UNCHANGED <<pauseLeft, timer>>
    BY <2>6 DEF ReleaseUnary, ReleaseStream, ReleaseSlot
  <2>7. ASSUME NEW c \in Call, Observe(c) \/ ClearSheds(c) \/ ShedDecrease(c) \/ ShedDelay(c)
        PROVE  UNCHANGED <<pauseLeft, timer>>
    BY <2>7 DEF Observe, ClearSheds, ShedDecrease, ShedDelay, gateVars
  <2>8. CASE UNCHANGED vars
    BY <2>4, <2>8 DEF vars, gateVars, callVars
  <2> QED BY <2>1, <2>2, <2>3, <2>4, <2>5, <2>6, <2>7, <2>8 DEF Next, AcquireStep, SettleStep
<1> QED BY <1>1, <1>2, TypeCorrect, PTL DEF Spec
=============================================================================
