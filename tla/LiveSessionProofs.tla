-------------------------- MODULE LiveSessionProofs --------------------------
(***************************************************************************)
(* Proofs about LiveSession, for any speakers, closers, buffers and number of   *)
(* events.  On the wire each frame's number is its predecessor's, or the next   *)
(* one when it is understood; what was pushed is numbered by its place.  The     *)
(* loop pushes one frame that is not an event, the last thing it does, and what *)
(* Result and Err say was decided before that push.                            *)
(***************************************************************************)
EXTENDS LiveSession, SequenceTheorems, TLAPS

Step(f) == IF f.kind = "unknown" THEN 0 ELSE 1

\* Behind the k-th understood frame, w carries the following ones, unknown ones among them.
Chain(w, k) == \A i \in 1 .. Len(w) : w[i].n = (IF i = 1 THEN k ELSE w[i - 1].n) + Step(w[i])

\* The last of them is the e-th.
Upto(w, k, e) == IF Len(w) = 0 THEN k = e ELSE w[Len(w)].n = e

LEMMA Elements ==
  ASSUME NEW w \in Seq(Frame)
  PROVE  Len(w) \in Nat /\ \A i \in 1 .. Len(w) : w[i] \in Frame /\ w[i].n \in Nat
<1>1. Len(w) \in Nat
  BY LenProperties
<1>2. ASSUME NEW i \in 1 .. Len(w) PROVE w[i] \in Frame /\ w[i].n \in Nat
  <2>1. w[i] \in Frame
    BY ElementOfSeq
  <2> QED BY <2>1, LiveAssumption DEF Frame
<1> QED BY <1>1, <1>2

\* A tail, by its elements.
LEMMA TailIs ==
  ASSUME NEW w \in Seq(Frame), w # <<>>
  PROVE  /\ Len(w) \in Nat \ {0} /\ Len(Tail(w)) = Len(w) - 1 /\ Tail(w) \in Seq(Frame)
         /\ \A i \in 1 .. Len(Tail(w)) : Tail(w)[i] = w[i + 1]
         /\ Head(w) = w[1] /\ Head(w) \in Frame
<1>1. Len(w) \in Nat \ {0}
  BY EmptySeq
<1>2. Head(w) = w[1]
  OBVIOUS
<1> QED BY <1>1, <1>2, HeadTailProperties

\* Taking a frame off the front.
LEMMA ChainTail ==
  ASSUME NEW w \in Seq(Frame), w # <<>>, NEW k \in Nat, NEW e \in Nat, Chain(w, k)
  PROVE  /\ Head(w).n = k + Step(Head(w)) /\ Head(w).n \in Nat
         /\ Chain(Tail(w), Head(w).n)
         /\ Upto(w, k, e) => Upto(Tail(w), Head(w).n, e)
<1> DEFINE t == Tail(w)
<1>1. /\ Len(w) \in Nat \ {0} /\ Len(t) = Len(w) - 1 /\ Head(w) = w[1]
      /\ \A i \in 1 .. Len(t) : t[i] = w[i + 1]
  BY TailIs
<1>2. 1 \in 1 .. Len(w) /\ w[1].n \in Nat
  BY <1>1, Elements
<1> HIDE DEF t
<1>3. w[1].n = k + Step(w[1])
  BY <1>2 DEF Chain
<1>4. ASSUME NEW i \in 1 .. Len(t)
      PROVE  t[i].n = (IF i = 1 THEN w[1].n ELSE t[i - 1].n) + Step(t[i])
  <2>1. i + 1 \in 1 .. Len(w) /\ i + 1 # 1 /\ (i + 1) - 1 = i /\ t[i] = w[i + 1]
    BY <1>1
  <2>2. w[i + 1].n = w[i].n + Step(w[i + 1])
    BY <2>1 DEF Chain
  <2>3. CASE i = 1
    BY <2>1, <2>2, <2>3
  <2>4. CASE i # 1
    <3>1. i - 1 \in 1 .. Len(t) /\ (i - 1) + 1 = i
      BY <1>1, <2>4
    <3>2. t[i - 1] = w[i]
      BY <1>1, <3>1
    <3> QED BY <2>1, <2>2, <2>4, <3>2
  <2> QED BY <2>3, <2>4
<1>5. Chain(t, w[1].n)
  BY <1>4 DEF Chain
<1>6. Upto(w, k, e) => Upto(t, w[1].n, e)
  BY <1>1 DEF Upto
<1> QED BY <1>1, <1>2, <1>3, <1>5, <1>6 DEF t

\* The next frame is put behind the others.
LEMMA ChainAppend ==
  ASSUME NEW w \in Seq(Frame), NEW k \in Nat, NEW e \in Nat, NEW f \in Frame,
         Chain(w, k), Upto(w, k, e), f.n = e + Step(f)
  PROVE  Chain(Append(w, f), k) /\ Upto(Append(w, f), k, f.n)
<1> DEFINE v == Append(w, f)
<1>1. /\ Len(w) \in Nat /\ Len(v) = Len(w) + 1 /\ v[Len(w) + 1] = f
      /\ \A i \in 1 .. Len(w) : v[i] = w[i]
  BY Elements, AppendProperties
<1> HIDE DEF v
<1>2. ASSUME NEW i \in 1 .. Len(v)
      PROVE  v[i].n = (IF i = 1 THEN k ELSE v[i - 1].n) + Step(v[i])
  <2>1. CASE i \in 1 .. Len(w)
    <3>1. v[i] = w[i] /\ (i # 1 => v[i - 1] = w[i - 1])
      BY <1>1, <2>1
    <3> QED BY <2>1, <3>1 DEF Chain
  <2>2. CASE i = Len(w) + 1
    <3>1. i # 1 => Len(w) \in 1 .. Len(w) /\ i - 1 = Len(w) /\ Len(w) # 0
      BY <1>1, <2>2
    <3>2. i = 1 => Len(w) = 0
      BY <1>1, <2>2
    <3> QED BY <1>1, <2>2, <3>1, <3>2 DEF Upto
  <2> QED BY <1>1, <2>1, <2>2
<1>3. Chain(v, k)
  BY <1>2 DEF Chain
<1>4. Upto(v, k, f.n)
  BY <1>1 DEF Upto
<1> QED BY <1>3, <1>4 DEF v

\* A chain cut short is still a chain.
LEMMA ChainCut ==
  ASSUME NEW w \in Seq(Frame), NEW k \in Nat, NEW m \in 0 .. Len(w), Chain(w, k)
  PROVE  /\ Chain(SubSeq(w, 1, m), k) /\ SubSeq(w, 1, m) \in Seq(Frame) /\ Len(SubSeq(w, 1, m)) = m
         /\ \A i \in 1 .. m : SubSeq(w, 1, m)[i] = w[i] /\ i \in 1 .. Len(w)
<1> DEFINE v == SubSeq(w, 1, m)
<1>1. Len(w) \in Nat /\ m \in Nat /\ \A i \in 1 .. m : i \in 1 .. Len(w) /\ w[i] \in Frame
  BY Elements
<1>2. Len(v) = m /\ v \in Seq(Frame) /\ \A i \in 1 .. m : v[i] = w[i]
  BY <1>1, SubSeqProperties
<1> HIDE DEF v
<1>3. ASSUME NEW i \in 1 .. Len(v)
      PROVE  v[i].n = (IF i = 1 THEN k ELSE v[i - 1].n) + Step(v[i])
  <2>1. i \in 1 .. Len(w) /\ v[i] = w[i] /\ (i # 1 => v[i - 1] = w[i - 1])
    BY <1>1, <1>2
  <2> QED BY <2>1 DEF Chain
<1>4. Chain(v, k)
  BY <1>3 DEF Chain
<1> QED BY <1>1, <1>2, <1>4 DEF v

-----------------------------------------------------------------------------
(* The invariant *)

Over == {"exit", "closed", "done"}
Pushed == Len(got) + Len(events)

\* The frame f that was pushed n-th, of m so far: numbered by its place, the last unless an event.
Nth(f, n, m, loop) ==
  /\ f.kind # "unknown"
  /\ f.kind # "error" => f.n = n
  /\ f.kind # "event" => n = m /\ loop \in Over

\* What Result and Err say of a frame that ends the session.
Outcome(f, res, why) ==
  /\ f.kind = "complete" => res /\ why = "none"
  /\ f.kind = "error" => ~res /\ why # "none"

Final(w) == \E i \in 1 .. Len(w) : w[i].kind \in {"complete", "error"}

\* The frames pushed: g were yielded, q are in the channel.
Handed(g, q, loop, res, why) ==
  /\ \A i \in 1 .. Len(g) : Nth(g[i], i, Len(g) + Len(q), loop) /\ Outcome(g[i], res, why)
  /\ \A i \in 1 .. Len(q) : Nth(q[i], Len(g) + i, Len(g) + Len(q), loop) /\ Outcome(q[i], res, why)
  /\ loop \in Over => Final(g) \/ Final(q)

Delivered ==
  /\ Handed(got, events, recv, result, err)
  /\ finish = "closed" => Final(got)

\* The frame in the loop's hand.
Held == recv = "push" =>
  /\ held \in Frame /\ held.kind # "unknown" /\ Outcome(held, result, err)
  /\ held.kind # "error" => held.n = Pushed + 1

Undecided == ~result /\ err = "none"

\* The frames the loop has yet to receive.
Coming ==
  /\ \A i \in 1 .. Len(wire) : wire[i].kind # "error" /\ (~StreamEnded => wire[i].kind # "complete")
  /\ recv = "receive" => Undecided /\ Chain(wire, Pushed)
  /\ recv = "push" /\ held.kind = "event" => Undecided /\ Chain(wire, Pushed + 1)
  /\ ~StreamEnded =>
       /\ emitted <= MaxEvents
       /\ recv = "receive" => Upto(wire, Pushed, decodable)
       /\ recv = "push" => held.kind = "event" /\ Upto(wire, Pushed + 1, decodable)
       /\ recv \notin Over

\* Who holds sendMu.
Speaking ==
  /\ \A s \in Speaker : sendMu = s => audio[s] < MaxAudio
  /\ \A c \in Closer : closer[c] = "closing" <=> sendMu = c

IInv == TypeOK /\ Delivered /\ Held /\ Coming /\ Speaking

\* The sequences and counts of a typed state.
LEMMA Typed ==
  ASSUME TypeOK
  PROVE  /\ got \in Seq(Frame) /\ events \in Seq(Frame) /\ wire \in Seq(Frame)
         /\ Len(got) \in Nat /\ Len(events) \in Nat /\ Len(wire) \in Nat /\ Pushed \in Nat
         /\ decodable \in Nat /\ emitted \in Nat
<1>1. got \in Seq(Frame) /\ events \in Seq(Frame) /\ wire \in Seq(Frame)
      /\ decodable \in Nat /\ emitted \in Nat
  BY LiveAssumption DEF TypeOK
<1>2. Len(got) \in Nat /\ Len(events) \in Nat /\ Len(wire) \in Nat
  BY <1>1, Elements
<1> QED BY <1>1, <1>2 DEF Pushed

-----------------------------------------------------------------------------
(* sendMu *)

\* A speaker holds sendMu for one frame at a time, a closer while it closes.
LEMMA SpeakingKept == IInv /\ [Next]_vars => Speaking'
<1> SUFFICES ASSUME IInv, [Next]_vars PROVE Speaking'
  OBVIOUS
<1>0. TypeOK /\ Speaking
  BY DEF IInv
<1>a. /\ \A s \in Speaker : s \notin Closer /\ s # "free"
      /\ \A c \in Closer : c \notin Speaker /\ c # "free"
  BY LiveAssumption
<1>b. audio \in [Speaker -> 0 .. MaxAudio] /\ closer \in [Closer -> {"idle", "closing", "waiting", "returned"}]
  BY <1>0 DEF TypeOK
<1>1. ASSUME NEW s \in Speaker, SendLock(s) PROVE Speaking'
  BY <1>0, <1>a, <1>1 DEF SendLock, Speaking
<1>2. ASSUME NEW s \in Speaker, SendReturns(s) PROVE Speaking'
  <2>1. sendMu = s /\ sendMu' = "free" /\ closer' = closer
    BY <1>2 DEF SendReturns
  <2> QED BY <1>0, <1>a, <2>1 DEF Speaking
<1>3. ASSUME NEW c \in Closer, CloseLock(c) PROVE Speaking'
  <2>1. sendMu = "free" /\ sendMu' = c /\ closer' = [closer EXCEPT ![c] = "closing"] /\ audio' = audio
    BY <1>3 DEF CloseLock
  <2>2. \A d \in Closer : closer[d] # "closing"
    BY <1>0, <1>a, <2>1 DEF Speaking
  <2>3. \A d \in Closer : closer'[d] = "closing" <=> d = c
    BY <1>b, <2>1, <2>2
  <2> QED BY <1>a, <2>1, <2>3 DEF Speaking
<1>4. ASSUME NEW c \in Closer, CloseHalf(c) PROVE Speaking'
  <2>1. closer[c] = "closing" /\ sendMu' = "free" /\ closer' = [closer EXCEPT ![c] = "waiting"] /\ audio' = audio
    BY <1>4 DEF CloseHalf
  <2>2. sendMu = c
    BY <1>0, <2>1 DEF Speaking
  <2>3. \A d \in Closer : closer'[d] # "closing"
    BY <1>0, <1>b, <2>1, <2>2 DEF Speaking
  <2> QED BY <1>a, <2>1, <2>3 DEF Speaking
<1>5. ASSUME NEW c \in Closer, CloseReturn(c) PROVE Speaking'
  <2>1. closer[c] = "waiting" /\ UNCHANGED <<sendMu, audio>> /\ closer' = [closer EXCEPT ![c] = "returned"]
    BY <1>5 DEF CloseReturn
  <2>2. \A d \in Closer : closer'[d] = "closing" <=> closer[d] = "closing"
    BY <1>b, <2>1
  <2> QED BY <1>0, <2>1, <2>2 DEF Speaking
<1>6. ASSUME UNCHANGED <<sendMu, audio, closer>> PROVE Speaking'
  BY <1>0, <1>6 DEF Speaking
<1>7. CASE OpenLive \/ OpenFails \/ CloseSend
  BY <1>6, <1>7 DEF OpenLive, OpenFails, CloseSend
<1>8. CASE RecvStep \/ RangeOver \/ ConsumerStep \/ Cancelled
  BY <1>6, <1>8 DEF RecvStep, Receive, ReceiveEnd, Push, LoopReturns, RangeOver, ConsumerStep, Take,
                    SeeClosed, Cancelled, sendVars
<1>9. CASE ServerStep \/ StartSend \/ EndEarly \/ Break \/ UNCHANGED vars
  BY <1>6, <1>9 DEF ServerStep, ReadConfig, ReadAudio, Emit, StartSend, EndEarly, Break, sendVars, vars
<1> QED BY <1>1, <1>2, <1>3, <1>4, <1>5, <1>7, <1>8, <1>9 DEF Next, SendStep, CloseStep

-----------------------------------------------------------------------------
(* Typing *)

\* Typing is kept by each step.
LEMMA TypingKept == IInv /\ [Next]_vars => TypeOK'
<1> SUFFICES ASSUME IInv, [Next]_vars PROVE TypeOK'
  OBVIOUS
<1>0. TypeOK /\ Held /\ Coming /\ Speaking
  BY DEF IInv
<1> USE LiveAssumption DEF TypeOK, sendVars, recvVars, consumerVars, serverVars
<1>1. CASE OpenLive \/ OpenFails \/ CloseSend
  <2>1. 1 \in 0 .. UpSize
    OBVIOUS
  <2>2. CASE OpenLive
    BY <1>0, <2>1, <2>2 DEF OpenLive
  <2>3. CASE OpenFails
    BY <1>0, <2>3 DEF OpenFails
  <2>4. CASE CloseSend
    BY <1>0, <2>4 DEF CloseSend
  <2> QED BY <1>1, <2>2, <2>3, <2>4
<1>2. ASSUME NEW s \in Speaker, SendStep(s) PROVE TypeOK'
  <2>1. CASE SendLock(s)
    BY <1>0, <2>1 DEF SendLock
  <2>2. CASE SendReturns(s)
    <3>1. audio[s] + 1 \in 0 .. MaxAudio
      BY <1>0, <2>2 DEF SendReturns, Speaking
    <3>2. audio' \in [Speaker -> 0 .. MaxAudio] /\ up' \in 0 .. UpSize
      BY <1>0, <2>2, <3>1 DEF SendReturns
    <3> QED BY <1>0, <2>2, <3>2 DEF SendReturns
  <2> QED BY <1>2, <2>1, <2>2 DEF SendStep
<1>3. ASSUME NEW c \in Closer, CloseLock(c) \/ CloseStep(c) PROVE TypeOK'
  <2>1. closer' \in [Closer -> {"idle", "closing", "waiting", "returned"}]
    BY <1>0, <1>3 DEF CloseLock, CloseStep, CloseHalf, CloseReturn
  <2>2. CASE CloseLock(c)
    BY <1>0, <2>1, <2>2 DEF CloseLock
  <2>3. CASE CloseHalf(c)
    BY <1>0, <2>1, <2>3 DEF CloseHalf
  <2>4. CASE CloseReturn(c)
    BY <1>0, <2>1, <2>4 DEF CloseReturn
  <2> QED BY <1>3, <2>2, <2>3, <2>4 DEF CloseStep
<1>4. CASE Receive
  <2>1. Tail(wire) \in Seq(Frame) /\ Len(Tail(wire)) <= WireSize /\ Head(wire) \in Frame
    BY <1>0, <1>4, TailIs DEF Receive
  <2>2. result' \in BOOLEAN /\ held' \in Frame \union {NoFrame} /\ recv' \in {"receive", "push"}
    BY <1>0, <1>4, <2>1 DEF Receive, KeepComplete
  <2> QED BY <1>0, <1>4, <2>1, <2>2 DEF Receive
<1>5. CASE ReceiveEnd
  <2>1. [n |-> 0, kind |-> "error"] \in Frame
    BY DEF Frame
  <2> QED BY <1>0, <1>5, <2>1 DEF ReceiveEnd, Fail
<1>6. CASE Push
  <2>1. Append(events, held) \in Seq(Frame) /\ Len(Append(events, held)) = Len(events) + 1 /\ Len(events) \in Nat
    BY <1>0, <1>6, AppendProperties, Elements DEF Push, Held
  <2> QED BY <1>0, <1>6, <2>1 DEF Push
<1>7. CASE LoopReturns \/ RangeOver \/ SeeClosed \/ Cancelled
  <2>1. CASE LoopReturns
    BY <1>0, <2>1 DEF LoopReturns
  <2>2. CASE RangeOver
    BY <1>0, <2>2 DEF RangeOver
  <2>3. CASE SeeClosed
    BY <1>0, <2>3 DEF SeeClosed
  <2>4. CASE Cancelled
    BY <1>0, <2>4 DEF Cancelled
  <2> QED BY <1>7, <2>1, <2>2, <2>3, <2>4
<1>8. CASE Take
  <2>1. Tail(events) \in Seq(Frame) /\ Len(Tail(events)) <= EventBuffer /\ Head(events) \in Frame
        /\ Append(got, Head(events)) \in Seq(Frame)
    BY <1>0, <1>8, TailIs, AppendProperties DEF Take
  <2>2. Head(events).kind \in {"event", "complete", "error", "unknown"}
    BY <2>1 DEF Frame
  <2>3. Head(events).kind # "unknown"
    <3>1. 1 \in 1 .. Len(events) /\ Head(events) = events[1]
      BY <1>0, <1>8, TailIs DEF Take
    <3> QED BY <3>1 DEF IInv, Delivered, Handed, Nth
  <2>4. finish' \in {"none", "break", "complete", "error", "closed", "cancelled"} /\ consumer' \in {"idle", "ranging"}
    BY <1>0, <1>8, <2>2, <2>3 DEF Take
  <2> QED BY <1>0, <1>8, <2>1, <2>4 DEF Take
<1>9. CASE ReadConfig \/ ReadAudio \/ StartSend \/ EndEarly
  <2>1. CASE ReadConfig
    BY <1>0, <2>1 DEF ReadConfig
  <2>2. CASE ReadAudio
    BY <1>0, <2>2 DEF ReadAudio
  <2>3. CASE StartSend
    BY <1>0, <2>3 DEF StartSend
  <2>4. CASE EndEarly
    BY <1>0, <2>4 DEF EndEarly
  <2> QED BY <1>9, <2>1, <2>2, <2>3, <2>4
<1>10. CASE Emit
  <2>1. emitted \in Nat /\ emitted <= MaxEvents /\ decodable \in Nat /\ decodable <= emitted
    BY <1>0, <1>10 DEF Emit, Coming, StreamEnded
  <2>2. PICK kind \in {"event", "unknown", "complete"} :
          /\ decodable' = IF kind = "unknown" THEN decodable ELSE decodable + 1
          /\ wire' = Append(wire, [n |-> decodable', kind |-> kind])
          /\ server' = IF kind = "complete" THEN "eof" ELSE "reading"
    BY <1>10 DEF Emit
  <2>3. decodable' \in 0 .. emitted + 1 /\ emitted' = emitted + 1 /\ emitted + 1 \in 0 .. MaxEvents + 1
    BY <1>10, <2>1, <2>2 DEF Emit
  <2>4. [n |-> decodable', kind |-> kind] \in Frame
    BY <2>1, <2>3 DEF Frame
  <2>5. wire' \in Seq(Frame) /\ Len(wire') <= WireSize
    BY <1>0, <1>10, <2>2, <2>4, AppendProperties, Elements DEF Emit
  <2> QED BY <1>0, <1>10, <2>2, <2>3, <2>5 DEF Emit
<1>11. CASE Break
  <2>1. PICK k \in 0 .. Len(wire) : wire' = SubSeq(wire, 1, k)
    BY <1>11 DEF Break
  <2>2. Len(wire) \in Nat /\ \A i \in 1 .. k : wire[i] \in Frame
    BY <1>0, Elements
  <2>3. wire' \in Seq(Frame) /\ Len(wire') = k
    BY <2>1, <2>2, SubSeqProperties
  <2> QED BY <1>0, <1>11, <2>2, <2>3 DEF Break
<1>12. CASE UNCHANGED vars
  BY <1>0, <1>12 DEF vars
<1> QED BY <1>1, <1>2, <1>3, <1>4, <1>5, <1>6, <1>7, <1>8, <1>9, <1>10, <1>11, <1>12
        DEF Next, RecvStep, ConsumerStep, ServerStep

-----------------------------------------------------------------------------
(* The frames that were pushed *)

\* The frame that is pushed takes the next place.
LEMMA HandedPush ==
  ASSUME NEW g \in Seq(Frame), NEW q \in Seq(Frame), NEW f \in Frame, NEW res, NEW why, NEW loop,
         Handed(g, q, "push", res, why), f.kind # "unknown", Outcome(f, res, why),
         f.kind # "error" => f.n = Len(g) + Len(q) + 1,
         f.kind # "event" <=> loop \in Over
  PROVE  /\ Handed(g, Append(q, f), loop, res, why)
         /\ Len(g) + Len(Append(q, f)) = Len(g) + Len(q) + 1
<1> DEFINE v == Append(q, f)
<1>1. /\ Len(g) \in Nat /\ Len(q) \in Nat /\ Len(v) = Len(q) + 1 /\ v[Len(q) + 1] = f
      /\ \A i \in 1 .. Len(q) : v[i] = q[i]
  BY Elements, AppendProperties
<1> HIDE DEF v
<1>2. "push" \notin Over
  BY DEF Over
<1>3. \A i \in 1 .. Len(g) : Nth(g[i], i, Len(g) + Len(v), loop) /\ Outcome(g[i], res, why)
  BY <1>2 DEF Handed, Nth
<1>4. \A i \in 1 .. Len(q) : Nth(v[i], Len(g) + i, Len(g) + Len(v), loop) /\ Outcome(v[i], res, why)
  BY <1>1, <1>2 DEF Handed, Nth
<1>5. Nth(f, Len(g) + (Len(q) + 1), Len(g) + Len(v), loop)
  <2>1. \A a, b, c \in Nat : c = b + 1 => a + (b + 1) = a + c /\ a + b + 1 = a + (b + 1)
    OBVIOUS
  <2> QED BY <1>1, <2>1 DEF Nth
<1>6. \A i \in 1 .. Len(v) : i \in 1 .. Len(q) \/ i = Len(q) + 1
  BY <1>1
<1>7. \A i \in 1 .. Len(v) : Nth(v[i], Len(g) + i, Len(g) + Len(v), loop) /\ Outcome(v[i], res, why)
  BY <1>1, <1>4, <1>5, <1>6
<1>8. loop \in Over => Final(v)
  <2>1. Len(q) + 1 \in 1 .. Len(v) /\ f.kind \in {"event", "complete", "unknown", "error"}
    BY <1>1 DEF Frame
  <2> QED BY <1>1, <2>1 DEF Final
<1>9. Handed(g, v, loop, res, why)
  BY <1>3, <1>7, <1>8 DEF Handed
<1>10. Len(g) + Len(v) = Len(g) + Len(q) + 1
  BY <1>1
<1> QED BY <1>9, <1>10 DEF v

\* Yielding a frame moves it from the channel to the consumer.
LEMMA HandedTake ==
  ASSUME NEW g \in Seq(Frame), NEW q \in Seq(Frame), q # <<>>, NEW res, NEW why, NEW loop,
         Handed(g, q, loop, res, why)
  PROVE  /\ Handed(Append(g, Head(q)), Tail(q), loop, res, why)
         /\ Len(Append(g, Head(q))) + Len(Tail(q)) = Len(g) + Len(q)
         /\ Final(g) => Final(Append(g, Head(q)))
<1> DEFINE t == Tail(q)
           v == Append(g, Head(q))
<1>1. /\ Len(q) \in Nat \ {0} /\ Len(t) = Len(q) - 1 /\ Head(q) = q[1] /\ Head(q) \in Frame
      /\ \A i \in 1 .. Len(t) : t[i] = q[i + 1] /\ i + 1 \in 1 .. Len(q)
  BY TailIs
<1>2. /\ Len(g) \in Nat /\ Len(v) = Len(g) + 1 /\ v[Len(g) + 1] = q[1]
      /\ \A i \in 1 .. Len(g) : v[i] = g[i] /\ i \in 1 .. Len(v)
  BY <1>1, Elements, AppendProperties
<1> HIDE DEF t, v
<1>3. Len(v) + Len(t) = Len(g) + Len(q)
  BY <1>1, <1>2
<1>4. ASSUME NEW i \in 1 .. Len(v)
      PROVE  Nth(v[i], i, Len(g) + Len(q), loop) /\ Outcome(v[i], res, why)
  <2>1. CASE i \in 1 .. Len(g)
    BY <1>2, <2>1 DEF Handed
  <2>2. CASE i = Len(g) + 1
    <3>1. 1 \in 1 .. Len(q)
      BY <1>1
    <3> QED BY <1>2, <2>2, <3>1 DEF Handed
  <2> QED BY <1>2, <2>1, <2>2
<1>5. ASSUME NEW i \in 1 .. Len(t)
      PROVE  Nth(t[i], Len(v) + i, Len(g) + Len(q), loop) /\ Outcome(t[i], res, why)
  <2>1. Len(v) + i = Len(g) + (i + 1)
    BY <1>1, <1>2
  <2> QED BY <1>1, <2>1 DEF Handed
<1>6. Final(g) => Final(v)
  BY <1>2 DEF Final
<1>7. ASSUME Final(q) PROVE Final(v) \/ Final(t)
  <2>1. PICK i \in 1 .. Len(q) : q[i].kind \in {"complete", "error"}
    BY <1>7 DEF Final
  <2>2. CASE i = 1
    <3>1. Len(g) + 1 \in 1 .. Len(v)
      BY <1>2
    <3> QED BY <1>2, <2>1, <2>2, <3>1 DEF Final
  <2>3. CASE i # 1
    <3>1. i - 1 \in 1 .. Len(t) /\ (i - 1) + 1 = i
      BY <1>1, <2>3
    <3> QED BY <1>1, <2>1, <3>1 DEF Final
  <2> QED BY <2>2, <2>3
<1>8. Handed(v, t, loop, res, why)
  BY <1>3, <1>4, <1>5, <1>6, <1>7 DEF Handed
<1> QED BY <1>3, <1>6, <1>8 DEF t, v

-----------------------------------------------------------------------------
(* Each step keeps the rest of the invariant *)

Rest == Delivered /\ Held /\ Coming

\* A step that moves no frame and does not touch the loop or the server's stream.
LEMMA StaysPut ==
  ASSUME IInv, UNCHANGED <<got, events, recv, held, result, err>>, finish' # "closed" \/ finish' = finish
  PROVE  Delivered' /\ Held' /\ Pushed' = Pushed
<1>1. Delivered /\ Held
  BY DEF IInv
<1>2. Delivered'
  BY <1>1 DEF Delivered
<1>3. Pushed' = Pushed
  BY DEF Pushed
<1>4. Held'
  BY <1>1, <1>3 DEF Held
<1> QED BY <1>2, <1>3, <1>4

\* Nor the wire.
LEMMA QuietKept ==
  ASSUME IInv, UNCHANGED <<got, events, recv, held, result, err, wire, emitted, decodable>>,
         finish' # "closed" \/ finish' = finish,
         StreamEnded => StreamEnded'
  PROVE  Rest'
<1>1. Delivered' /\ Held' /\ Pushed' = Pushed
  BY StaysPut
<1>2. Coming
  BY DEF IInv
<1>3. Coming'
  BY <1>1, <1>2 DEF Coming, Undecided
<1> QED BY <1>1, <1>3 DEF Rest

\* What the loop receives is the next frame.
LEMMA ReceiveKept == IInv /\ Receive => Rest'
<1> SUFFICES ASSUME IInv, Receive PROVE Rest'
  OBVIOUS
<1>0. TypeOK /\ Delivered /\ Held /\ Coming
  BY DEF IInv
<1> DEFINE f == Head(wire)
<1>1. /\ recv = "receive" /\ wire # <<>> /\ wire' = Tail(wire)
      /\ UNCHANGED <<events, got, err, finish, emitted, decodable, server>>
      /\ f.kind = "unknown" => UNCHANGED <<recv, held, result>>
      /\ f.kind # "unknown" => recv' = "push" /\ held' = f /\ (result' <=> (result \/ f.kind = "complete"))
  BY <1>0 DEF Receive, KeepComplete, sendVars, consumerVars, TypeOK
<1>2. /\ wire \in Seq(Frame) /\ Pushed \in Nat /\ decodable \in Nat
  BY <1>0, Typed
<1>3. /\ Len(wire) \in Nat \ {0} /\ Len(Tail(wire)) = Len(wire) - 1
      /\ \A i \in 1 .. Len(Tail(wire)) : Tail(wire)[i] = wire[i + 1] /\ i + 1 \in 1 .. Len(wire)
      /\ f = wire[1] /\ f \in Frame /\ 1 \in 1 .. Len(wire)
  BY <1>1, <1>2, TailIs
<1>4. Undecided /\ Chain(wire, Pushed) /\ (~StreamEnded => Upto(wire, Pushed, decodable) /\ emitted <= MaxEvents)
  BY <1>0, <1>1 DEF Coming
<1>5. /\ f.n = Pushed + Step(f) /\ f.n \in Nat
      /\ Chain(Tail(wire), f.n)
      /\ Upto(wire, Pushed, decodable) => Upto(Tail(wire), f.n, decodable)
  BY <1>1, <1>2, <1>4, ChainTail
<1>6. f.kind # "error" /\ (~StreamEnded => f.kind # "complete")
  BY <1>0, <1>3 DEF Coming
<1>7. \A i \in 1 .. Len(wire') :
        wire'[i].kind # "error" /\ (~StreamEnded => wire'[i].kind # "complete")
  BY <1>0, <1>1, <1>3 DEF Coming
<1>8. Pushed' = Pushed /\ (StreamEnded' <=> StreamEnded)
  BY <1>1 DEF Pushed, StreamEnded
<1> HIDE DEF f
<1>9. CASE f.kind = "unknown"
  <2>1. UNCHANGED <<got, events, recv, held, result, err, finish>>
    BY <1>1, <1>9
  <2>2. Delivered' /\ Held'
    BY <2>1, StaysPut
  <2>3. f.n = Pushed
    BY <1>2, <1>5, <1>9 DEF Step
  <2>4. Undecided' /\ recv' = "receive"
    BY <1>1, <1>4, <2>1 DEF Undecided
  <2>5. Coming'
    <3>1. Chain(wire', Pushed') /\ (~StreamEnded' => Upto(wire', Pushed', decodable') /\ emitted' <= MaxEvents)
      BY <1>1, <1>4, <1>5, <1>8, <2>3
    <3> QED BY <1>7, <1>8, <2>4, <3>1 DEF Coming, Over
  <2> QED BY <2>2, <2>5 DEF Rest
<1>10. CASE f.kind # "unknown"
  <2>1. recv' = "push" /\ held' = f /\ (result' <=> f.kind = "complete") /\ err' = "none"
    BY <1>1, <1>4, <1>10 DEF Undecided
  <2>2. f.n = Pushed + 1
    BY <1>5, <1>10 DEF Step
  <2>3. f.kind \in {"event", "complete"}
    BY <1>3, <1>6, <1>10 DEF Frame
  <2>4. Held'
    BY <1>3, <1>8, <2>1, <2>2, <2>3 DEF Held, Outcome
  <2>5. Delivered'
    <3>1. \A i \in 1 .. Len(got) : got[i].kind = "event"
      BY <1>0, <1>1, <1>2, Typed DEF Delivered, Handed, Nth, Over
    <3>2. \A i \in 1 .. Len(events) : events[i].kind = "event"
      BY <1>0, <1>1 DEF Delivered, Handed, Nth, Over
    <3>3. Handed(got, events, "push", result', err')
      BY <1>0, <1>1, <3>1, <3>2 DEF Delivered, Handed, Nth, Outcome, Over
    <3> QED BY <1>0, <1>1, <2>1, <3>3 DEF Delivered
  <2>6. Coming'
    <3>1. Chain(wire', Pushed' + 1) /\ (~StreamEnded' => Upto(wire', Pushed' + 1, decodable') /\ emitted' <= MaxEvents)
      BY <1>1, <1>4, <1>5, <1>8, <2>2
    <3>2. f.kind = "event" => Undecided'
      BY <2>1 DEF Undecided
    <3>3. ~StreamEnded' => f.kind = "event"
      BY <1>6, <1>8, <2>3
    <3> QED BY <1>7, <1>8, <2>1, <3>1, <3>2, <3>3 DEF Coming, Over
  <2> QED BY <2>4, <2>5, <2>6 DEF Rest
<1> QED BY <1>9, <1>10

\* The stream's end is told once, as an error: after Complete the loop does not receive.
LEMMA ReceiveEndKept == IInv /\ ReceiveEnd => Rest'
<1> SUFFICES ASSUME IInv, ReceiveEnd PROVE Rest'
  OBVIOUS
<1>0. TypeOK /\ Delivered /\ Coming
  BY DEF IInv
<1>1. Undecided /\ recv = "receive" /\ StreamEnded
  BY <1>0 DEF ReceiveEnd, Coming
<1>2. /\ err' # "none" /\ recv' = "push" /\ held' = [n |-> 0, kind |-> "error"]
      /\ UNCHANGED <<events, result, got, finish, server, wire, emitted, decodable>>
  BY <1>1 DEF ReceiveEnd, Fail, Undecided, sendVars, consumerVars, serverVars
<1>3. held' \in Frame /\ held'.kind = "error"
  BY <1>2, LiveAssumption DEF Frame
<1>4. Held'
  BY <1>1, <1>2, <1>3 DEF Held, Outcome, Undecided
<1>5. Delivered'
  <2>1. \A i \in 1 .. Len(got) : got[i].kind = "event"
    BY <1>0, <1>1 DEF Delivered, Handed, Nth, Over
  <2>2. \A i \in 1 .. Len(events) : events[i].kind = "event"
    BY <1>0, <1>1 DEF Delivered, Handed, Nth, Over
  <2>3. Handed(got, events, "push", result, err')
    BY <1>0, <1>1, <2>1, <2>2 DEF Delivered, Handed, Nth, Outcome, Over
  <2> QED BY <1>0, <1>2, <2>3 DEF Delivered
<1>6. Coming'
  <2>1. StreamEnded'
    BY <1>1, <1>2 DEF StreamEnded
  <2> QED BY <1>0, <1>2, <1>3, <2>1 DEF Coming
<1> QED BY <1>4, <1>5, <1>6 DEF Rest

\* The frame in hand goes behind the others.
LEMMA PushKept == IInv /\ Push => Rest'
<1> SUFFICES ASSUME IInv, Push PROVE Rest'
  OBVIOUS
<1>0. TypeOK /\ Delivered /\ Held /\ Coming
  BY DEF IInv
<1>1. /\ recv = "push" /\ events' = Append(events, held)
      /\ recv' = IF held.kind = "event" THEN "receive" ELSE "exit"
      /\ UNCHANGED <<result, err, got, finish, server, wire, emitted, decodable>>
  BY DEF Push, sendVars, consumerVars, serverVars
<1>2. got \in Seq(Frame) /\ events \in Seq(Frame) /\ Pushed = Len(got) + Len(events)
  BY <1>0, Typed DEF Pushed
<1>3. held \in Frame /\ held.kind # "unknown" /\ Outcome(held, result, err)
      /\ (held.kind # "error" => held.n = Len(got) + Len(events) + 1)
  BY <1>0, <1>1, <1>2 DEF Held
<1>4. Handed(got, events, "push", result, err)
  BY <1>0, <1>1 DEF Delivered
<1>5. held.kind # "event" <=> recv' \in Over
  BY <1>1 DEF Over
<1>6. Handed(got, Append(events, held), recv', result, err)
      /\ Len(got) + Len(Append(events, held)) = Len(got) + Len(events) + 1
  BY <1>2, <1>3, <1>4, <1>5, HandedPush
<1>7. Delivered' /\ Pushed' = Pushed + 1
  BY <1>0, <1>1, <1>2, <1>6 DEF Delivered, Pushed
<1>8. Held'
  BY <1>1 DEF Held
<1>9. Coming'
  <2>1. StreamEnded' <=> StreamEnded
    BY <1>1 DEF StreamEnded
  <2>2. CASE held.kind = "event"
    BY <1>0, <1>1, <1>7, <2>1, <2>2 DEF Coming, Undecided, Over
  <2>3. CASE held.kind # "event"
    <3>1. StreamEnded /\ recv' = "exit"
      BY <1>0, <1>1, <2>3 DEF Coming
    <3> QED BY <1>0, <1>1, <2>1, <3>1 DEF Coming
  <2> QED BY <2>2, <2>3
<1> QED BY <1>7, <1>8, <1>9 DEF Rest

\* Leaving the loop tells nothing new.
LEMMA LoopReturnsKept == IInv /\ LoopReturns => Rest'
<1> SUFFICES ASSUME IInv, LoopReturns PROVE Rest'
  OBVIOUS
<1>0. TypeOK /\ Delivered /\ Coming
  BY DEF IInv
<1>1. /\ recv \in Over /\ recv' \in {"closed", "done"}
      /\ UNCHANGED <<events, result, err, got, finish, server, wire, emitted, decodable>>
  BY DEF LoopReturns, Over, sendVars, consumerVars, serverVars
<1>2. recv' \in Over /\ recv' # "push" /\ recv' # "receive"
  BY <1>1 DEF Over
<1>3. Handed(got, events, recv', result, err)
  BY <1>0, <1>1, <1>2 DEF Delivered, Handed, Nth
<1>4. Delivered' /\ Held'
  BY <1>0, <1>1, <1>2, <1>3 DEF Delivered, Held
<1>5. Coming'
  <2>1. StreamEnded
    BY <1>0, <1>1 DEF Coming
  <2>2. StreamEnded'
    BY <1>1, <2>1 DEF StreamEnded
  <2> QED BY <1>0, <1>1, <1>2, <2>1, <2>2 DEF Coming
<1> QED BY <1>4, <1>5 DEF Rest

\* The consumer gets what was pushed first.
LEMMA TakeKept == IInv /\ Take => Rest'
<1> SUFFICES ASSUME IInv, Take PROVE Rest'
  OBVIOUS
<1>0. TypeOK /\ Delivered /\ Held /\ Coming
  BY DEF IInv
<1>1. /\ events # <<>> /\ events' = Tail(events) /\ got' = Append(got, Head(events))
      /\ UNCHANGED <<recv, held, result, err, server, wire, emitted, decodable>>
  BY DEF Take, sendVars, serverVars
<1>2. got \in Seq(Frame) /\ events \in Seq(Frame)
  BY <1>0, Typed
<1>3. Handed(got, events, recv, result, err)
  BY <1>0 DEF Delivered
<1>4. /\ Handed(Append(got, Head(events)), Tail(events), recv, result, err)
      /\ Len(Append(got, Head(events))) + Len(Tail(events)) = Len(got) + Len(events)
      /\ Final(got) => Final(Append(got, Head(events)))
  BY <1>1, <1>2, <1>3, HandedTake
<1>5. finish' = "closed" => finish = "closed"
  <2>1. Head(events) \in Frame
    BY <1>1, <1>2, TailIs
  <2>2. Head(events).kind # "closed"
    BY <2>1 DEF Frame
  <2> QED BY <2>2 DEF Take
<1>6. Pushed' = Pushed
  BY <1>1, <1>4 DEF Pushed
<1>7. Delivered'
  BY <1>0, <1>1, <1>4, <1>5 DEF Delivered
<1>8. Held'
  BY <1>0, <1>1, <1>6 DEF Held
<1>9. Coming'
  <2>1. StreamEnded' <=> StreamEnded
    BY <1>1 DEF StreamEnded
  <2> QED BY <1>0, <1>1, <1>6, <2>1 DEF Coming, Undecided
<1> QED BY <1>7, <1>8, <1>9 DEF Rest

\* A closed and drained channel has told how the session ended.
LEMMA SeeClosedKept == IInv /\ SeeClosed => Rest'
<1> SUFFICES ASSUME IInv, SeeClosed PROVE Rest'
  OBVIOUS
<1>0. TypeOK /\ Delivered /\ Held /\ Coming
  BY DEF IInv
<1>1. /\ events = <<>> /\ recv \in Over /\ Len(events) = 0
      /\ UNCHANGED <<got, events, recv, held, result, err, server, wire, emitted, decodable>>
  BY DEF SeeClosed, Over, sendVars, recvVars, serverVars
<1>2. Final(got)
  BY <1>0, <1>1 DEF Delivered, Handed, Final
<1>3. Delivered' /\ Pushed' = Pushed
  BY <1>0, <1>1, <1>2 DEF Delivered, Pushed
<1>4. Held'
  BY <1>0, <1>1, <1>3 DEF Held
<1>5. Coming'
  <2>1. StreamEnded' <=> StreamEnded
    BY <1>1 DEF StreamEnded
  <2> QED BY <1>0, <1>1, <1>3, <2>1 DEF Coming, Undecided
<1> QED BY <1>3, <1>4, <1>5 DEF Rest

\* The server numbers the frames that are understood.
LEMMA EmitKept == IInv /\ Emit => Rest'
<1> SUFFICES ASSUME IInv, Emit PROVE Rest'
  OBVIOUS
<1>0. TypeOK /\ Coming
  BY DEF IInv
<1>1. /\ ~StreamEnded /\ UNCHANGED <<got, events, recv, held, result, err, finish>> /\ emitted' = emitted + 1
  BY DEF Emit, StreamEnded, sendVars, recvVars, consumerVars
<1>2. Delivered' /\ Held' /\ Pushed' = Pushed
  BY <1>1, StaysPut
<1>3. PICK kind \in {"event", "unknown", "complete"} :
        /\ emitted = MaxEvents => kind = "complete"
        /\ decodable' = IF kind = "unknown" THEN decodable ELSE decodable + 1
        /\ wire' = Append(wire, [n |-> decodable', kind |-> kind])
        /\ server' = IF kind = "complete" THEN "eof" ELSE "reading"
  BY DEF Emit
<1>4. wire \in Seq(Frame) /\ Len(wire) \in Nat /\ Pushed \in Nat /\ decodable \in Nat /\ emitted \in Nat
  BY <1>0, Typed
<1> DEFINE f == [n |-> decodable', kind |-> kind]
<1>5. /\ emitted <= MaxEvents /\ recv \notin Over /\ recv \in {"receive", "push"}
      /\ recv = "push" => held.kind = "event"
  BY <1>0, <1>1 DEF Coming, TypeOK, Over
<1>6. f \in Frame /\ f.n = decodable + Step(f) /\ f.kind = kind /\ f.n = decodable'
  BY <1>0, <1>3, <1>4, <1>5, LiveAssumption DEF Frame, Step, TypeOK
<1> HIDE DEF f
<1>7. wire' = Append(wire, f)
  BY <1>3 DEF f
<1>8. /\ Len(wire') = Len(wire) + 1 /\ wire'[Len(wire) + 1] = f
      /\ \A i \in 1 .. Len(wire) : wire'[i] = wire[i]
  BY <1>4, <1>6, <1>7, AppendProperties
<1>9. ~StreamEnded' => kind # "complete"
  BY <1>3 DEF StreamEnded
<1>10. \A i \in 1 .. Len(wire') : wire'[i].kind # "error" /\ (~StreamEnded' => wire'[i].kind # "complete")
  <2>1. \A i \in 1 .. Len(wire') : i \in 1 .. Len(wire) \/ i = Len(wire) + 1
    BY <1>4, <1>8
  <2>2. \A i \in 1 .. Len(wire) : wire[i].kind # "error" /\ wire[i].kind # "complete"
    BY <1>0, <1>1 DEF Coming
  <2> QED BY <1>3, <1>6, <1>8, <1>9, <2>1, <2>2
<1>11. ASSUME NEW k \in Nat, Chain(wire, k), Upto(wire, k, decodable)
       PROVE  Chain(Append(wire, f), k) /\ Upto(Append(wire, f), k, f.n)
  BY <1>4, <1>6, <1>11, ChainAppend
<1>12. ~StreamEnded' => emitted' <= MaxEvents
  BY <1>1, <1>3, <1>4, <1>5, <1>9, LiveAssumption
<1>13. CASE recv = "receive"
  <2>1. Undecided /\ Chain(wire, Pushed) /\ Upto(wire, Pushed, decodable)
    BY <1>0, <1>1, <1>13 DEF Coming
  <2>2. Chain(wire', Pushed') /\ Upto(wire', Pushed', decodable')
    BY <1>2, <1>4, <1>6, <1>7, <1>11, <2>1
  <2>3. Coming'
    BY <1>1, <1>5, <1>10, <1>12, <1>13, <2>1, <2>2 DEF Coming, Undecided
  <2> QED BY <1>2, <2>3 DEF Rest
<1>14. CASE recv = "push"
  <2>1. Undecided /\ Chain(wire, Pushed + 1) /\ Upto(wire, Pushed + 1, decodable)
    BY <1>0, <1>1, <1>5, <1>14 DEF Coming
  <2>2. Chain(wire', Pushed' + 1) /\ Upto(wire', Pushed' + 1, decodable')
    <3>1. Pushed + 1 \in Nat
      BY <1>4
    <3> QED BY <1>2, <1>6, <1>7, <1>11, <2>1, <3>1
  <2>3. Coming'
    BY <1>1, <1>5, <1>10, <1>12, <1>14, <2>1, <2>2 DEF Coming, Undecided
  <2> QED BY <1>2, <2>3 DEF Rest
<1> QED BY <1>5, <1>13, <1>14

\* What is lost with the stream is lost from its end.
LEMMA BreakKept == IInv /\ Break => Rest'
<1> SUFFICES ASSUME IInv, Break PROVE Rest'
  OBVIOUS
<1>0. TypeOK /\ Coming
  BY DEF IInv
<1>1. /\ UNCHANGED <<got, events, recv, held, result, err, finish, emitted, decodable>>
      /\ StreamEnded' /\ ~StreamEnded
  BY DEF Break, StreamEnded, sendVars, recvVars, consumerVars
<1>2. Delivered' /\ Held' /\ Pushed' = Pushed
  BY <1>1, StaysPut
<1>3. PICK k \in 0 .. Len(wire) : wire' = SubSeq(wire, 1, k)
  BY DEF Break
<1>4. wire \in Seq(Frame) /\ Pushed \in Nat /\ Pushed + 1 \in Nat
  BY <1>0, Typed
<1>5. /\ recv = "receive" => Undecided /\ Chain(wire, Pushed)
      /\ recv = "push" /\ held.kind = "event" => Undecided /\ Chain(wire, Pushed + 1)
      /\ recv \notin Over /\ (recv = "push" => held.kind = "event")
  BY <1>0, <1>1 DEF Coming
<1>6. recv \in {"receive", "push"}
  BY <1>0, <1>5 DEF TypeOK, Over
<1>7. \E p \in Nat : Chain(wire, p)
  BY <1>4, <1>5, <1>6
<1>8. Len(wire') = k /\ \A i \in 1 .. k : wire'[i] = wire[i] /\ i \in 1 .. Len(wire)
  BY <1>3, <1>4, <1>7, ChainCut
<1>9. \A i \in 1 .. Len(wire') : wire'[i].kind # "error"
  BY <1>0, <1>8 DEF Coming
<1>10. /\ recv = "receive" => Undecided /\ Chain(wire', Pushed)
       /\ recv = "push" /\ held.kind = "event" => Undecided /\ Chain(wire', Pushed + 1)
  BY <1>3, <1>4, <1>5, ChainCut
<1>11. Coming'
  BY <1>1, <1>2, <1>9, <1>10 DEF Coming, Undecided
<1> QED BY <1>2, <1>11 DEF Rest

-----------------------------------------------------------------------------
(* The theorems *)

\* The first state has the invariant.
LEMMA InitHolds == Init => IInv
<1> SUFFICES ASSUME Init PROVE IInv
  OBVIOUS
<1>1. <<>> \in Seq(Frame) /\ Len(<<>>) = 0
  BY EmptySeq
<1>2. TypeOK
  <2>1. audio \in [Speaker -> 0 .. MaxAudio] /\ closer \in [Closer -> {"idle", "closing", "waiting", "returned"}]
    BY LiveAssumption DEF Init
  <2>2. events \in Seq(Frame) /\ Len(events) <= EventBuffer /\ wire \in Seq(Frame) /\ Len(wire) <= WireSize
        /\ got \in Seq(Frame) /\ up \in 0 .. UpSize
        /\ emitted \in 0 .. MaxEvents + 1 /\ decodable \in 0 .. emitted
    BY <1>1, LiveAssumption DEF Init
  <2> QED BY <2>1, <2>2 DEF Init, TypeOK
<1>3. Delivered
  BY <1>1 DEF Init, Delivered, Handed, Over
<1>4. Held /\ Pushed = 0
  BY <1>1 DEF Init, Held, Pushed
<1>5. Coming
  BY <1>1, <1>4, LiveAssumption DEF Init, Coming, Undecided, Chain, Upto, StreamEnded, Over
<1>6. Speaking
  BY LiveAssumption DEF Init, Speaking
<1> QED BY <1>2, <1>3, <1>4, <1>5, <1>6 DEF IInv

\* Every step keeps what it says of the frames.
LEMMA RestKept == IInv /\ [Next]_vars => Rest'
<1> SUFFICES ASSUME IInv, [Next]_vars PROVE Rest'
  OBVIOUS
<1>1. CASE OpenLive \/ OpenFails \/ CloseSend
  BY <1>1, QuietKept DEF OpenLive, OpenFails, CloseSend, StreamEnded, recvVars, consumerVars, serverVars
<1>2. ASSUME NEW s \in Speaker, SendStep(s) PROVE Rest'
  BY <1>2, QuietKept DEF SendStep, SendLock, SendReturns, StreamEnded, recvVars, consumerVars, serverVars
<1>3. ASSUME NEW c \in Closer, CloseLock(c) \/ CloseStep(c) PROVE Rest'
  BY <1>3, QuietKept DEF CloseLock, CloseStep, CloseHalf, CloseReturn, StreamEnded, recvVars, consumerVars, serverVars
<1>4. CASE RangeOver \/ Cancelled
  BY <1>4, QuietKept DEF RangeOver, Cancelled, StreamEnded, sendVars, recvVars, serverVars
<1>5. CASE ReadConfig \/ ReadAudio \/ StartSend \/ EndEarly
  BY <1>5, QuietKept DEF ReadConfig, ReadAudio, StartSend, EndEarly, StreamEnded, sendVars, recvVars, consumerVars
<1>6. CASE UNCHANGED vars
  BY <1>6, QuietKept DEF vars, StreamEnded, recvVars, consumerVars, serverVars
<1>7. CASE RecvStep
  BY <1>7, ReceiveKept, ReceiveEndKept, PushKept, LoopReturnsKept DEF RecvStep
<1>8. CASE ConsumerStep
  BY <1>8, TakeKept, SeeClosedKept DEF ConsumerStep
<1>9. CASE Emit \/ Break
  BY <1>9, EmitKept, BreakKept
<1> QED BY <1>1, <1>2, <1>3, <1>4, <1>5, <1>6, <1>7, <1>8, <1>9 DEF Next, ServerStep

\* Every step keeps it.
LEMMA StepKeeps == IInv /\ [Next]_vars => IInv'
BY TypingKept, SpeakingKept, RestKept DEF IInv, Rest

\* The invariant holds throughout.
LEMMA Invariant == Spec => []IInv
BY InitHolds, StepKeeps, PTL DEF Spec

\* Every variable keeps its type; in particular no buffer grows past its capacity.
THEOREM TypeCorrect == Spec => []TypeOK
<1>1. IInv => TypeOK
  BY DEF IInv
<1> QED BY <1>1, Invariant, PTL

\* Broken off, cancelled and resumed at will, Events yields every event once, in
\* order, and nothing behind the one that ended the session.
THEOREM EventsOnceInOrder == Spec => []EventsInOrder
<1>1. IInv => EventsInOrder
  <2> SUFFICES ASSUME IInv, NEW i \in DOMAIN got
               PROVE  (got[i].kind # "error" => got[i].n = i) /\ (got[i].kind # "event" => i = Len(got))
    BY DEF EventsInOrder
  <2>1. got \in Seq(Frame) /\ Len(got) \in Nat /\ Len(events) \in Nat
    BY Typed DEF IInv
  <2>2. i \in 1 .. Len(got)
    BY <2>1, LenProperties
  <2>3. Nth(got[i], i, Len(got) + Len(events), recv)
    BY <2>2 DEF IInv, Delivered, Handed
  <2>4. got[i].kind # "event" => i = Len(got) + Len(events)
    BY <2>3 DEF Nth
  <2>5. i = Len(got) + Len(events) => i = Len(got)
    BY <2>1, <2>2
  <2> QED BY <2>3, <2>4, <2>5 DEF Nth
<1> QED BY <1>1, Invariant, PTL

\* A range that ends on the closed channel follows one that told the outcome.
THEOREM EndIsTold == Spec => []NoSilentEnd
<1>1. IInv => NoSilentEnd
  <2> SUFFICES ASSUME IInv, finish = "closed" PROVE Told(got)
    BY DEF NoSilentEnd
  <2>1. got \in Seq(Frame)
    BY Typed DEF IInv
  <2>2. Final(got)
    BY DEF IInv, Delivered
  <2> QED BY <2>1, <2>2, LenProperties DEF Final, Told
<1> QED BY <1>1, Invariant, PTL

\* What Result and Err say agrees with what was yielded, from then on.
THEOREM OutcomeKept == Spec => []OutcomeIsKept
<1>1. IInv => OutcomeIsKept
  <2> SUFFICES ASSUME IInv, NEW i \in DOMAIN got PROVE Outcome(got[i], result, err)
    BY DEF OutcomeIsKept, Outcome
  <2>1. got \in Seq(Frame)
    BY Typed DEF IInv
  <2>2. i \in 1 .. Len(got)
    BY <2>1, LenProperties
  <2> QED BY <2>2 DEF IInv, Delivered, Handed
<1> QED BY <1>1, Invariant, PTL
=============================================================================
