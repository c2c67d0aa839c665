-------------------------- MODULE FetchSessionProofs --------------------------
(***************************************************************************)
(* Proofs about FetchSession, for any number of calls, any buffer and any        *)
(* number of frames.  The frames of one call are spread over what its iterator  *)
(* yielded, its channel, the receive loop's hand and the wire, where they are    *)
(* mixed with those of other calls.  The invariant says that they are numbered   *)
(* on from one of these places to the next; on the wire, where there is no       *)
(* counting, that each is the next to be routed or has its predecessor in front. *)
(***************************************************************************)
EXTENDS FetchSession, SequenceTheorems, TLAPS

(* The frames of one call in a sequence where they are mixed with others.  *)

\* Behind the k frames of c that were received, w carries the following ones in order, up to e.
Lane(c, w, k, e) == \A i \in 1 .. Len(w) : w[i].id = c =>
  /\ k < w[i].n /\ w[i].n <= e
  /\ \A j \in 1 .. i - 1 : w[j].id = c => w[j].n < w[i].n
  /\ w[i].n = k + 1 \/ \E j \in 1 .. i - 1 : w[j].id = c /\ w[j].n + 1 = w[i].n

\* None of the e frames sent is missing.
Whole(c, w, k, e) == k = e \/ \E i \in 1 .. Len(w) : w[i].id = c /\ w[i].n = e

\* Only the last frame of an answered instruction is terminal.
Marked(c, w, state, e) ==
  \A i \in 1 .. Len(w) : w[i].id = c => (w[i].terminal <=> state = "answered" /\ w[i].n = e)

\* A tail, by its elements.
LEMMA TailIs ==
  ASSUME NEW w \in Seq(Frame), w # <<>>
  PROVE  /\ Len(w) \in Nat \ {0} /\ Len(Tail(w)) = Len(w) - 1 /\ Tail(w) \in Seq(Frame)
         /\ \A i \in 1 .. Len(Tail(w)) : Tail(w)[i] = w[i + 1]
         /\ Head(w) = w[1] /\ Head(w) \in Frame
<1>1. Len(w) \in Nat \ {0}
  BY EmptySeq
<1>2. Head(w) = w[1]
  OBVIOUS
<1> QED BY <1>1, <1>2, HeadTailProperties

\* The elements of a sequence of frames.
LEMMA Elements ==
  ASSUME NEW w \in Seq(Frame)
  PROVE  Len(w) \in Nat /\ \A i \in 1 .. Len(w) : w[i] \in Frame /\ w[i].n \in Nat
<1>1. Len(w) \in Nat
  BY LenProperties
<1>2. ASSUME NEW i \in 1 .. Len(w) PROVE w[i] \in Frame /\ w[i].n \in Nat
  <2>1. w[i] \in Frame
    BY ElementOfSeq
  <2> QED BY <2>1 DEF Frame
<1> QED BY <1>1, <1>2

\* Taking a frame of another call off the front leaves c's lane as it is.
LEMMA OtherTaken ==
  ASSUME NEW c \in Call, NEW w \in Seq(Frame), w # <<>>, NEW k \in Nat, NEW e \in Nat,
         Head(w).id # c, Lane(c, w, k, e)
  PROVE  Lane(c, Tail(w), k, e) /\ (Whole(c, w, k, e) => Whole(c, Tail(w), k, e))
<1> DEFINE t == Tail(w)
<1>1. /\ Len(w) \in Nat \ {0} /\ Len(t) = Len(w) - 1
      /\ \A i \in 1 .. Len(t) : t[i] = w[i + 1]
      /\ w[1].id # c
  BY TailIs
<1> HIDE DEF t
<1>2. ASSUME NEW i \in 1 .. Len(t), t[i].id = c
      PROVE  /\ k < t[i].n /\ t[i].n <= e
             /\ \A j \in 1 .. i - 1 : t[j].id = c => t[j].n < t[i].n
             /\ t[i].n = k + 1 \/ \E j \in 1 .. i - 1 : t[j].id = c /\ t[j].n + 1 = t[i].n
  <2>1. i + 1 \in 1 .. Len(w) /\ t[i] = w[i + 1]
    BY <1>1
  <2>2. \A j \in 1 .. i - 1 : t[j] = w[j + 1] /\ j + 1 \in 1 .. (i + 1) - 1
    BY <1>1
  <2>3. \A j \in 1 .. i - 1 : t[j].id = c => t[j].n < t[i].n
    BY <1>2, <2>1, <2>2 DEF Lane
  <2>4. ASSUME NEW j \in 1 .. (i + 1) - 1, w[j].id = c, w[j].n + 1 = w[i + 1].n
        PROVE  \E m \in 1 .. i - 1 : t[m].id = c /\ t[m].n + 1 = t[i].n
    <3>1. j # 1 /\ j - 1 \in 1 .. i - 1 /\ t[j - 1] = w[j]
      BY <1>1, <2>4
    <3> QED BY <2>1, <2>4, <3>1
  <2> QED BY <1>2, <2>1, <2>3, <2>4 DEF Lane
<1>3. ASSUME NEW i \in 1 .. Len(w), w[i].id = c, w[i].n = e
      PROVE  \E m \in 1 .. Len(t) : t[m].id = c /\ t[m].n = e
  <2>1. i - 1 \in 1 .. Len(t) /\ t[i - 1] = w[i]
    BY <1>1, <1>3
  <2> QED BY <1>3, <2>1
<1>4. Lane(c, t, k, e)
  BY <1>2 DEF Lane
<1>5. Whole(c, w, k, e) => Whole(c, t, k, e)
  BY <1>3 DEF Whole
<1> QED BY <1>4, <1>5 DEF t

\* The first frame of c is the next one; without it the lane goes on from there.
LEMMA OwnTaken ==
  ASSUME NEW c \in Call, NEW w \in Seq(Frame), w # <<>>, NEW k \in Nat, NEW e \in Nat,
         Head(w).id = c, Lane(c, w, k, e)
  PROVE  /\ Head(w).n = k + 1 /\ k + 1 <= e
         /\ Lane(c, Tail(w), k + 1, e)
         /\ Whole(c, w, k, e) => Whole(c, Tail(w), k + 1, e)
<1> DEFINE t == Tail(w)
<1>1. /\ Len(w) \in Nat \ {0} /\ Len(t) = Len(w) - 1 /\ Head(w) = w[1]
      /\ \A i \in 1 .. Len(t) : t[i] = w[i + 1]
      /\ w[1].id = c
  BY TailIs
<1>2. \A i \in 1 .. Len(w) : w[i].n \in Nat
  BY Elements
<1> HIDE DEF t
<1>3. w[1].n = k + 1 /\ k + 1 <= e
  BY <1>1, <1>2 DEF Lane
<1>4. ASSUME NEW i \in 1 .. Len(t), t[i].id = c
      PROVE  /\ k + 1 < t[i].n /\ t[i].n <= e
             /\ \A j \in 1 .. i - 1 : t[j].id = c => t[j].n < t[i].n
             /\ t[i].n = k + 1 + 1 \/ \E j \in 1 .. i - 1 : t[j].id = c /\ t[j].n + 1 = t[i].n
  <2>1. i + 1 \in 1 .. Len(w) /\ t[i] = w[i + 1] /\ 1 \in 1 .. (i + 1) - 1 /\ w[i + 1].n \in Nat
    BY <1>1, <1>2
  <2>2. \A j \in 1 .. i - 1 : t[j] = w[j + 1] /\ j + 1 \in 1 .. (i + 1) - 1
    BY <1>1
  <2>3. k + 1 < t[i].n /\ t[i].n <= e
    BY <1>1, <1>3, <1>4, <2>1 DEF Lane
  <2>4. \A j \in 1 .. i - 1 : t[j].id = c => t[j].n < t[i].n
    BY <1>4, <2>1, <2>2 DEF Lane
  <2>5. PICK j \in 1 .. (i + 1) - 1 : w[j].id = c /\ w[j].n + 1 = w[i + 1].n
    BY <1>4, <2>1, <2>3 DEF Lane
  <2>6. CASE j = 1
    BY <1>3, <2>1, <2>3, <2>4, <2>5, <2>6
  <2>7. CASE j # 1
    <3>1. j - 1 \in 1 .. i - 1 /\ t[j - 1] = w[j]
      BY <1>1, <2>7
    <3> QED BY <2>1, <2>3, <2>4, <2>5, <3>1
  <2> QED BY <2>6, <2>7
<1>5. Lane(c, t, k + 1, e)
  BY <1>4 DEF Lane
<1>6. ASSUME Whole(c, w, k, e) PROVE Whole(c, t, k + 1, e)
  <2>1. k # e
    BY <1>3
  <2>2. PICK i \in 1 .. Len(w) : w[i].id = c /\ w[i].n = e
    BY <1>6, <2>1 DEF Whole
  <2>3. CASE i = 1
    BY <1>3, <2>2, <2>3 DEF Whole
  <2>4. CASE i # 1
    <3>1. i - 1 \in 1 .. Len(t) /\ t[i - 1] = w[i]
      BY <1>1, <2>4
    <3> QED BY <2>2, <3>1 DEF Whole
  <2> QED BY <2>3, <2>4
<1> QED BY <1>1, <1>3, <1>5, <1>6 DEF t

\* The next frame of c is put behind the others.
LEMMA OwnSent ==
  ASSUME NEW c \in Call, NEW w \in Seq(Frame), NEW k \in Nat, NEW e \in Nat, NEW f \in Frame,
         f.id = c, f.n = e + 1, k <= e, Lane(c, w, k, e), Whole(c, w, k, e)
  PROVE  Lane(c, Append(w, f), k, e + 1) /\ Whole(c, Append(w, f), k, e + 1)
<1> DEFINE v == Append(w, f)
<1>1. /\ Len(w) \in Nat /\ Len(v) = Len(w) + 1 /\ v[Len(w) + 1] = f
      /\ \A i \in 1 .. Len(w) : v[i] = w[i] /\ w[i].n \in Nat
  BY Elements, AppendProperties
<1> HIDE DEF v
<1>2. ASSUME NEW i \in 1 .. Len(v), v[i].id = c
      PROVE  /\ k < v[i].n /\ v[i].n <= e + 1
             /\ \A j \in 1 .. i - 1 : v[j].id = c => v[j].n < v[i].n
             /\ v[i].n = k + 1 \/ \E j \in 1 .. i - 1 : v[j].id = c /\ v[j].n + 1 = v[i].n
  <2>1. CASE i \in 1 .. Len(w)
    <3>1. \A j \in 1 .. i - 1 : j \in 1 .. Len(w)
      BY <1>1, <2>1
    <3>2. v[i] = w[i] /\ w[i].n \in Nat /\ \A j \in 1 .. i - 1 : v[j] = w[j]
      BY <1>1, <2>1, <3>1
    <3>3. /\ k < w[i].n /\ w[i].n <= e
          /\ \A j \in 1 .. i - 1 : w[j].id = c => w[j].n < w[i].n
          /\ w[i].n = k + 1 \/ \E j \in 1 .. i - 1 : w[j].id = c /\ w[j].n + 1 = w[i].n
      BY <1>2, <2>1, <3>2 DEF Lane
    <3>4. \A j \in 1 .. i - 1 : v[j].id = c => v[j].n < v[i].n
      BY <3>2, <3>3
    <3>5. v[i].n = k + 1 \/ \E j \in 1 .. i - 1 : v[j].id = c /\ v[j].n + 1 = v[i].n
      BY <3>2, <3>3
    <3>6. k < v[i].n /\ v[i].n <= e + 1
      BY <3>2, <3>3
    <3> QED BY <3>4, <3>5, <3>6
  <2>2. CASE i = Len(w) + 1
    <3>1. \A j \in 1 .. i - 1 : v[j] = w[j] /\ j \in 1 .. Len(w)
      BY <1>1, <2>2
    <3>2. v[i].n = e + 1
      BY <1>1, <2>2
    <3>3. \A j \in 1 .. i - 1 : v[j].id = c => v[j].n < v[i].n
      BY <1>1, <3>1, <3>2 DEF Lane
    <3>4. v[i].n = k + 1 \/ \E j \in 1 .. i - 1 : v[j].id = c /\ v[j].n + 1 = v[i].n
      <4>1. CASE k = e
        BY <3>2, <4>1
      <4>2. ASSUME NEW j \in 1 .. Len(w), w[j].id = c, w[j].n = e
            PROVE  j \in 1 .. i - 1 /\ v[j].id = c /\ v[j].n + 1 = v[i].n
        BY <1>1, <2>2, <3>2, <4>2
      <4> QED BY <4>1, <4>2 DEF Whole
    <3> QED BY <3>2, <3>3, <3>4
  <2> QED BY <1>1, <2>1, <2>2
<1>3. Lane(c, v, k, e + 1)
  BY <1>2 DEF Lane
<1>4. Whole(c, v, k, e + 1)
  BY <1>1 DEF Whole
<1> QED BY <1>3, <1>4 DEF v

\* A frame of another call changes nothing for c.
LEMMA OtherSent ==
  ASSUME NEW c \in Call, NEW w \in Seq(Frame), NEW k \in Nat, NEW e \in Nat, NEW f \in Frame,
         f.id # c, Lane(c, w, k, e)
  PROVE  /\ Lane(c, Append(w, f), k, e)
         /\ Whole(c, w, k, e) => Whole(c, Append(w, f), k, e)
<1> DEFINE v == Append(w, f)
<1>1. /\ Len(w) \in Nat /\ Len(v) = Len(w) + 1 /\ v[Len(w) + 1] = f
      /\ \A i \in 1 .. Len(w) : v[i] = w[i]
  BY Elements, AppendProperties
<1> HIDE DEF v
<1>2. ASSUME NEW i \in 1 .. Len(v), v[i].id = c
      PROVE  /\ k < v[i].n /\ v[i].n <= e
             /\ \A j \in 1 .. i - 1 : v[j].id = c => v[j].n < v[i].n
             /\ v[i].n = k + 1 \/ \E j \in 1 .. i - 1 : v[j].id = c /\ v[j].n + 1 = v[i].n
  <2>1. i \in 1 .. Len(w)
    BY <1>1, <1>2
  <2>2. v[i] = w[i] /\ \A j \in 1 .. i - 1 : v[j] = w[j]
    BY <1>1, <2>1
  <2> QED BY <1>2, <2>1, <2>2 DEF Lane
<1>3. Lane(c, v, k, e)
  BY <1>2 DEF Lane
<1>4. Whole(c, w, k, e) => Whole(c, v, k, e)
  BY <1>1 DEF Whole
<1> QED BY <1>3, <1>4 DEF v

\* A lane cut short is still a lane.
LEMMA CutLane ==
  ASSUME NEW c \in Call, NEW w \in Seq(Frame), NEW k \in Nat, NEW e \in Nat,
         NEW m \in 0 .. Len(w), Lane(c, w, k, e)
  PROVE  Lane(c, SubSeq(w, 1, m), k, e)
<1> DEFINE v == SubSeq(w, 1, m)
<1>1. Len(w) \in Nat /\ m \in Nat /\ \A i \in 1 .. Len(w) : w[i] \in Frame
  BY Elements
<1>2. Len(v) = m /\ \A i \in 1 .. m : v[i] = w[i]
  BY <1>1, SubSeqProperties
<1> HIDE DEF v
<1>3. ASSUME NEW i \in 1 .. Len(v), v[i].id = c
      PROVE  /\ k < v[i].n /\ v[i].n <= e
             /\ \A j \in 1 .. i - 1 : v[j].id = c => v[j].n < v[i].n
             /\ v[i].n = k + 1 \/ \E j \in 1 .. i - 1 : v[j].id = c /\ v[j].n + 1 = v[i].n
  <2>1. i \in 1 .. Len(w) /\ v[i] = w[i] /\ \A j \in 1 .. i - 1 : v[j] = w[j]
    BY <1>1, <1>2
  <2> QED BY <1>3, <2>1 DEF Lane
<1> QED BY <1>3 DEF Lane, v

-----------------------------------------------------------------------------
(* The invariant *)

InHand(c) == recv = "route" /\ held.id = c

\* Frames of c that were routed, or are about to be.
Routed(c) == Len(got[c]) + Len(frames[c])
Count(c) == IF InHand(c) THEN Routed(c) + 1 ELSE Routed(c)

\* A frame that is the n-th of c, of e sent so far for a job in that state.
Nth(c, f, n, state, e) == f.id = c /\ f.n = n /\ (f.terminal <=> state = "answered" /\ n = e)

\* What c's iterator yielded.
Yielded(c) ==
  /\ Len(got[c]) <= emitted[c]
  /\ \A i \in 1 .. Len(got[c]) :
       /\ Nth(c, got[c][i], i, job[c], emitted[c])
       /\ got[c][i].terminal => pc[c] = "done" /\ result[c] = "terminal"

\* What is on its way to it, as long as it listens.
OnItsWay(c) ==
  /\ Count(c) <= emitted[c]
  /\ \A i \in 1 .. Len(frames[c]) : Nth(c, frames[c][i], Len(got[c]) + i, job[c], emitted[c])
  /\ InHand(c) => Nth(c, held, Routed(c) + 1, job[c], emitted[c])
  /\ Lane(c, wire, Count(c), emitted[c]) /\ Marked(c, wire, job[c], emitted[c])
  /\ ended # "error" => Whole(c, wire, Count(c), emitted[c])

\* What the server has done for c, and how c ended.
Asked(c) ==
  /\ pc[c] \in {"idle", "sending"} => job[c] = "none"
  /\ job[c] \in {"none", "sent"} => emitted[c] = 0
  /\ job[c] = "answered" => emitted[c] > 0
  /\ job[c] # "answered" => emitted[c] < MaxFrames
  /\ pc[c] # "done" => result[c] = "none"
  /\ pc[c] = "draining" => recv = "done"
  /\ result[c] = "session" =>
       /\ recv = "done" /\ frames[c] = <<>>
       /\ \A i \in 1 .. Len(got[c]) : ~got[c][i].terminal
       /\ ~(ended = "eof" /\ job[c] = "answered")

CallInv(c) == Yielded(c) /\ (pc[c] # "done" => OnItsWay(c)) /\ Asked(c)

LoopInv ==
  /\ recv = "route" => held \in Frame
  /\ sessErr # "none" <=> recv = "done"
  /\ recv = "done" => wire = <<>> /\ ended # "no"

IInv == TypeOK /\ LoopInv /\ \A c \in Call : CallInv(c)

-----------------------------------------------------------------------------
(* Typing *)

\* The element types of the sequences, and that they are sequences.
LEMMA SeqTypes ==
  ASSUME TypeOK, NEW c \in Call
  PROVE  frames[c] \in Seq(Frame) /\ got[c] \in Seq(Frame) /\ wire \in Seq(Frame)
BY DEF TypeOK

\* The calls' own steps.
LEMMA TypingOfCalls ==
  ASSUME TypeOK, NEW c \in Call, FetchStep(c) \/ RangeStep(c) \/ Cancelled(c) \/ StartJob(c)
  PROVE  TypeOK'
<1> USE DEF TypeOK, Finish, Live, EndedBy, clientVars, serverVars
<1>1. CASE Take(c)
  <2>1. /\ Tail(frames[c]) \in Seq(Frame) /\ Len(Tail(frames[c])) <= BufferSize
        /\ Append(got[c], Head(frames[c])) \in Seq(Frame)
    <3>1. frames[c] \in Seq(Frame) /\ frames[c] # <<>> /\ got[c] \in Seq(Frame) /\ Len(frames[c]) <= BufferSize
      BY <1>1 DEF Take
    <3> QED BY <3>1, TailIs, AppendProperties, BoundsAssumption
  <2>2. frames' = [frames EXCEPT ![c] = Tail(@)] /\ got' = [got EXCEPT ![c] = Append(@, Head(frames[c]))]
    BY <1>1 DEF Take
  <2>3. frames' \in [Call -> Seq(Frame)] /\ got' \in [Call -> Seq(Frame)]
    BY <2>1, <2>2
  <2>4. \A d \in Call : Len(frames'[d]) <= BufferSize
    BY <2>1, <2>2
  <2>5. pc' \in [Call -> {"idle", "done"} \union Live] /\ result' \in [Call -> EndedBy]
    BY <1>1 DEF Take
  <2> QED BY <1>1, <2>3, <2>4, <2>5 DEF Take
<1>2. CASE Refuse(c)
  BY <1>2 DEF Refuse
<1>3. CASE Register(c)
  BY <1>3 DEF Register
<1>4. CASE Send(c)
  BY <1>4 DEF Send
<1>5. CASE SendFails(c)
  BY <1>5 DEF SendFails
<1>6. CASE RangeOver(c)
  BY <1>6 DEF RangeOver
<1>7. CASE SeeClosed(c)
  BY <1>7 DEF SeeClosed
<1>8. CASE YieldSessionError(c)
  BY <1>8 DEF YieldSessionError
<1>9. CASE Cancelled(c)
  BY <1>9 DEF Cancelled
<1>10. CASE StartJob(c)
  BY <1>10 DEF StartJob
<1> QED BY <1>1, <1>2, <1>3, <1>4, <1>5, <1>6, <1>7, <1>8, <1>9, <1>10 DEF FetchStep, RangeStep

\* The other steps.
LEMMA TypingOfOthers ==
  ASSUME TypeOK, LoopInv, \A c \in Call : Asked(c),
         RecvStep \/ HalfClose \/ CloseDone \/ EndStream \/ IdleOut \/ Break
           \/ (\E c \in Call : Emit(c)) \/ UNCHANGED vars
  PROVE  TypeOK'
<1> USE DEF TypeOK, clientVars, serverVars
<1>1. CASE Receive
  <2>1. Tail(wire) \in Seq(Frame) /\ Len(Tail(wire)) <= WireSize /\ Head(wire) \in Frame
    BY <1>1, TailIs, BoundsAssumption DEF Receive
  <2> QED BY <1>1, <2>1 DEF Receive
<1>2. CASE Route
  <2>1. held \in Frame /\ held.id \in Call
    BY <1>2 DEF Route, LoopInv, Frame
  <2>2. Append(frames[held.id], held) \in Seq(Frame) /\ Len(Append(frames[held.id], held)) <= BufferSize
    BY <1>2, <2>1, Elements, AppendProperties, BoundsAssumption DEF Route
  <2>3. frames' = [frames EXCEPT ![held.id] = Append(@, held)]
    BY <1>2 DEF Route
  <2>4. frames' \in [Call -> Seq(Frame)] /\ \A d \in Call : Len(frames'[d]) <= BufferSize
    BY <2>1, <2>2, <2>3
  <2> QED BY <1>2, <2>4 DEF Route
<1>3. CASE RouteGone \/ ReceiveEnd \/ HalfClose \/ CloseDone \/ EndStream \/ IdleOut
  BY <1>3 DEF RouteGone, ReceiveEnd, Fail, HalfClose, CloseDone, EndStream, IdleOut
<1>4. CASE Break
  <2>1. PICK k \in 0 .. Len(wire) : wire' = SubSeq(wire, 1, k)
    BY <1>4 DEF Break
  <2>2. SubSeq(wire, 1, k) \in Seq(Frame) /\ Len(SubSeq(wire, 1, k)) = k
    BY Elements, SubSeqProperties
  <2>3. wire' \in Seq(Frame) /\ Len(wire') <= WireSize
    BY <2>1, <2>2, Elements, BoundsAssumption
  <2> QED BY <1>4, <2>3 DEF Break
<1>5. ASSUME NEW c \in Call, Emit(c) PROVE TypeOK'
  <2>1. PICK last \in BOOLEAN :
          /\ emitted[c] + 1 = MaxFrames => last
          /\ wire' = Append(wire, [id |-> c, n |-> emitted[c] + 1, terminal |-> last])
          /\ job' = [job EXCEPT ![c] = IF last THEN "answered" ELSE "running"]
    BY <1>5 DEF Emit
  <2>2. emitted[c] < MaxFrames
    BY <1>5, BoundsAssumption DEF Emit, Asked
  <2>3. [id |-> c, n |-> emitted[c] + 1, terminal |-> last] \in Frame
    BY <2>2, BoundsAssumption DEF Frame
  <2>4. wire' \in Seq(Frame) /\ Len(wire') <= WireSize
    BY <1>5, <2>1, <2>3, Elements, AppendProperties, BoundsAssumption DEF Emit
  <2>5. emitted' \in [Call -> 0 .. MaxFrames]
    BY <1>5, <2>2, BoundsAssumption DEF Emit
  <2> QED BY <1>5, <2>1, <2>4, <2>5 DEF Emit
<1>6. CASE UNCHANGED vars
  BY <1>6 DEF vars
<1> QED BY <1>1, <1>2, <1>3, <1>4, <1>5, <1>6 DEF RecvStep


-----------------------------------------------------------------------------
(* Each step keeps the invariant *)

\* How much of c's frames was received depends on its own state and the loop's hand.
LEMMA CountKept ==
  ASSUME NEW c \in Call, UNCHANGED <<held, recv>>, Routed(c)' = Routed(c)
  PROVE  (InHand(c)' <=> InHand(c)) /\ Count(c)' = Count(c)
BY DEF InHand, Count

\* A step that leaves a call's state, the loop, the wire and the end of the stream alone.
LEMMA Untouched ==
  ASSUME NEW c \in Call, CallInv(c),
         pc'[c] = pc[c], frames'[c] = frames[c], got'[c] = got[c], result'[c] = result[c],
         job'[c] = job[c], emitted'[c] = emitted[c],
         UNCHANGED <<wire, ended, held, recv>>
  PROVE  CallInv(c)'
<1>1. Routed(c)' = Routed(c)
  BY DEF Routed
<1>2. (InHand(c)' <=> InHand(c)) /\ Count(c)' = Count(c)
  BY <1>1, CountKept
<1>3. Yielded(c)'
  BY DEF CallInv, Yielded
<1>4. OnItsWay(c) => OnItsWay(c)'
  BY <1>1, <1>2 DEF OnItsWay
<1>5. Asked(c)'
  BY DEF CallInv, Asked
<1> QED BY <1>3, <1>4, <1>5 DEF CallInv

\* A step of the call that moves none of its frames and does not end in the session's error.
LEMMA CallMoves ==
  ASSUME IInv, NEW c \in Call,
         Refuse(c) \/ Register(c) \/ Send(c) \/ SendFails(c) \/ RangeOver(c) \/ SeeClosed(c)
           \/ Cancelled(c)
  PROVE  CallInv(c)'
<1>1. TypeOK /\ CallInv(c) /\ LoopInv
  BY DEF IInv
<1>2. UNCHANGED <<frames, got, wire, ended, held, recv, emitted, sessErr>>
  BY DEF Refuse, Register, Send, SendFails, RangeOver, SeeClosed, Cancelled, serverVars
<1>3. pc[c] # "done" /\ result[c] = "none"
  BY <1>1 DEF Refuse, Register, Send, SendFails, RangeOver, SeeClosed, Cancelled, CallInv, Asked
<1>4. (job'[c] = "answered" <=> job[c] = "answered") /\ result'[c] # "session"
  BY <1>1, <1>3 DEF TypeOK, Refuse, Register, Send, SendFails, RangeOver, SeeClosed, Cancelled,
                    Finish, CallInv, Asked, serverVars
<1>5. Routed(c)' = Routed(c)
  BY <1>2 DEF Routed
<1>6. (InHand(c)' <=> InHand(c)) /\ Count(c)' = Count(c)
  BY <1>2, <1>5, CountKept
<1>7. Yielded(c)'
  BY <1>1, <1>2, <1>3, <1>4 DEF CallInv, Yielded, Nth
<1>8. OnItsWay(c)'
  BY <1>1, <1>2, <1>3, <1>4, <1>5, <1>6 DEF CallInv, OnItsWay, Nth, Marked
<1>9. Asked(c)'
  <2>1. CASE Refuse(c) \/ Register(c) \/ SendFails(c) \/ RangeOver(c) \/ Cancelled(c)
    BY <1>1, <2>1 DEF Refuse, Register, SendFails, RangeOver, Cancelled, Finish, CallInv, Asked, TypeOK, serverVars
  <2>2. CASE Send(c)
    BY <1>1, <2>2 DEF Send, CallInv, Asked, TypeOK
  <2>3. CASE SeeClosed(c)
    BY <1>1, <2>3 DEF SeeClosed, CallInv, Asked, TypeOK, LoopInv, serverVars
  <2> QED BY <2>1, <2>2, <2>3
<1> QED BY <1>7, <1>8, <1>9 DEF CallInv

\* The server takes up an instruction.
LEMMA StartKeeps ==
  ASSUME IInv, NEW c \in Call, StartJob(c)
  PROVE  CallInv(c)'
<1>1. TypeOK /\ CallInv(c) /\ job[c] = "sent" /\ job'[c] = "running"
  BY DEF IInv, StartJob, TypeOK
<1>2. UNCHANGED <<pc, frames, got, result, wire, ended, held, recv, emitted>>
  BY DEF StartJob, clientVars
<1>3. Routed(c)' = Routed(c)
  BY <1>2 DEF Routed
<1>4. (InHand(c)' <=> InHand(c)) /\ Count(c)' = Count(c)
  BY <1>2, <1>3, CountKept
<1>5. Yielded(c)'
  BY <1>1, <1>2 DEF CallInv, Yielded, Nth
<1>6. OnItsWay(c) => OnItsWay(c)'
  BY <1>1, <1>2, <1>3, <1>4 DEF OnItsWay, Nth, Marked
<1>7. Asked(c)'
  BY <1>1, <1>2 DEF CallInv, Asked
<1> QED BY <1>1, <1>2, <1>5, <1>6, <1>7 DEF CallInv

\* A frame is yielded.
LEMMA TakeKeeps ==
  ASSUME IInv, NEW c \in Call, Take(c)
  PROVE  CallInv(c)'
<1>1. /\ TypeOK /\ Yielded(c) /\ OnItsWay(c) /\ Asked(c)
      /\ pc[c] \in {"ranging", "draining"} /\ frames[c] # <<>>
  BY DEF IInv, Take, CallInv
<1>2. /\ frames[c] \in Seq(Frame) /\ got[c] \in Seq(Frame)
      /\ Len(frames[c]) \in Nat \ {0} /\ Len(got[c]) \in Nat
  BY <1>1, SeqTypes, TailIs, Elements
<1>3. PICK f \in Frame :
      /\ f = frames[c][1]
      /\ Len(frames'[c]) = Len(frames[c]) - 1
      /\ \A i \in 1 .. Len(frames'[c]) : frames'[c][i] = frames[c][i + 1]
      /\ Len(got'[c]) = Len(got[c]) + 1 /\ got'[c][Len(got[c]) + 1] = f
      /\ \A i \in 1 .. Len(got[c]) : got'[c][i] = got[c][i]
      /\ f.terminal => pc'[c] = "done" /\ result'[c] = "terminal"
  <2>1. frames'[c] = Tail(frames[c]) /\ got'[c] = Append(got[c], Head(frames[c]))
    BY <1>1 DEF Take, TypeOK
  <2>2. Head(frames[c]) \in Frame /\ Head(frames[c]) = frames[c][1]
    BY <1>1, <1>2, TailIs
  <2>3. Head(frames[c]).terminal => pc'[c] = "done" /\ result'[c] = "terminal"
    BY <1>1 DEF Take, Finish, TypeOK
  <2> QED BY <1>1, <1>2, <2>1, <2>2, <2>3, TailIs, AppendProperties
<1>4. UNCHANGED <<wire, ended, held, recv, emitted, job>> /\ emitted[c] \in Nat
  BY <1>1 DEF Take, serverVars, TypeOK
<1>5. Nth(c, f, Len(got[c]) + 1, job[c], emitted[c])
  <2>1. 1 \in 1 .. Len(frames[c])
    BY <1>2
  <2> QED BY <1>1, <1>3, <2>1 DEF OnItsWay
<1>12. /\ Len(frames[c]) \in Nat \ {0} /\ Len(got[c]) \in Nat
       /\ Len(frames'[c]) = Len(frames[c]) - 1 /\ Len(got'[c]) = Len(got[c]) + 1
  BY <1>2, <1>3
<1>13. Len(frames'[c]) \in Int /\ Len(got'[c]) \in Int /\ Len(frames[c]) \in Int /\ Len(got[c]) \in Int
  BY <1>12
<1>6. Routed(c)' = Routed(c)
  <2>1. \A p, q \in Int : (q + 1) + (p - 1) = q + p
    OBVIOUS
  <2>2. (Len(got[c]) + 1) + (Len(frames[c]) - 1) = Len(got[c]) + Len(frames[c])
    BY <1>13, <2>1, Zenon
  <2>3. Len(got'[c]) + Len(frames'[c]) = Len(got[c]) + Len(frames[c])
    BY <1>12, <2>2, Zenon
  <2> QED BY <2>3, Zenon DEF Routed
<1>7. (InHand(c)' <=> InHand(c)) /\ Count(c)' = Count(c)
  BY <1>4, <1>6, CountKept
<1>8. Len(got[c]) + 1 <= emitted[c]
  <2>1. \A p, q \in Nat : p # 0 => q + p \in Nat /\ q + p >= q + 1 /\ (q + p) + 1 >= q + p
    OBVIOUS
  <2>2. Routed(c) \in Nat /\ Routed(c) >= Len(got[c]) + 1 /\ Routed(c) + 1 >= Routed(c)
    BY <1>12, <2>1 DEF Routed
  <2>3. Count(c) \in Nat /\ Count(c) >= Routed(c)
    BY <2>2 DEF Count
  <2>4. Count(c) <= emitted[c]
    BY <1>1 DEF OnItsWay
  <2> QED BY <1>4, <1>12, <2>2, <2>3, <2>4
<1>9. Yielded(c)'
  <2>1. ASSUME NEW i \in 1 .. Len(got'[c])
        PROVE  /\ Nth(c, got'[c][i], i, job'[c], emitted'[c])
               /\ got'[c][i].terminal => pc'[c] = "done" /\ result'[c] = "terminal"
    <3>1. CASE i = Len(got[c]) + 1
      BY <1>3, <1>4, <1>5, <3>1
    <3>2. CASE i \in 1 .. Len(got[c])
      <4>1. Nth(c, got[c][i], i, job[c], emitted[c]) /\ ~got[c][i].terminal
        BY <1>1, <3>2 DEF Yielded
      <4> QED BY <1>3, <1>4, <3>2, <4>1
    <3> QED BY <1>2, <1>3, <3>1, <3>2
  <2> QED BY <1>3, <1>4, <1>8, <2>1 DEF Yielded
<1>10. OnItsWay(c)'
  <2>1. ASSUME NEW i \in 1 .. Len(frames'[c])
        PROVE  Nth(c, frames'[c][i], Len(got'[c]) + i, job'[c], emitted'[c])
    <3>3. \A p, q, r \in Int : r = p + 1 => r + q = p + (q + 1)
      OBVIOUS
    <3>4. \A p, r \in Int : r = p - 1 => \A k \in 1 .. r : k \in Int /\ k + 1 \in 1 .. p
      OBVIOUS
    <3>1. i + 1 \in 1 .. Len(frames[c]) /\ Len(got'[c]) + i = Len(got[c]) + (i + 1)
      BY <1>12, <1>13, <3>3, <3>4, Zenon
    <3>2. Nth(c, frames[c][i + 1], Len(got[c]) + (i + 1), job[c], emitted[c])
      BY <1>1, <3>1 DEF OnItsWay
    <3> QED BY <1>3, <1>4, <3>1, <3>2
  <2> QED BY <1>1, <1>4, <1>6, <1>7, <2>1 DEF OnItsWay
<1>11. Asked(c)'
  BY <1>1, <1>4 DEF Take, Finish, Asked, TypeOK
<1> QED BY <1>9, <1>10, <1>11 DEF CallInv

\* The session's error is yielded: nothing is left, and on a clean end nothing was lost.
LEMMA SessionErrorKeeps ==
  ASSUME IInv, NEW c \in Call, YieldSessionError(c)
  PROVE  CallInv(c)'
<1>1. /\ TypeOK /\ Yielded(c) /\ OnItsWay(c) /\ Asked(c) /\ pc[c] = "draining" /\ frames[c] = <<>>
      /\ recv = "done" /\ wire = <<>>
  <2>1. TypeOK /\ LoopInv /\ CallInv(c) /\ pc[c] = "draining" /\ frames[c] = <<>>
    BY DEF IInv, YieldSessionError, Drained
  <2> QED BY <2>1 DEF CallInv, Asked, LoopInv
<1>2. UNCHANGED <<frames, got, wire, ended, held, recv, emitted, job>>
      /\ pc'[c] = "done" /\ result'[c] = "session"
  BY <1>1 DEF YieldSessionError, Finish, serverVars, TypeOK
<1>3. \A i \in 1 .. Len(got[c]) : ~got[c][i].terminal
  BY <1>1 DEF Yielded
<1>4. ~(ended = "eof" /\ job[c] = "answered")
  <2>1. SUFFICES ASSUME ended = "eof", job[c] = "answered" PROVE FALSE
    OBVIOUS
  <2>2. Len(got[c]) \in Nat /\ Count(c) = Len(got[c])
    <3>1. Len(got[c]) \in Nat /\ Len(frames[c]) = 0
      BY <1>1, SeqTypes, Elements, EmptySeq
    <3> QED BY <1>1, <3>1 DEF Count, InHand, Routed
  <2>3. Len(got[c]) = emitted[c] /\ emitted[c] > 0
    <3>1. Whole(c, wire, Count(c), emitted[c])
      BY <1>1, <2>1 DEF OnItsWay
    <3>2. Len(wire) = 0
      BY <1>1, EmptySeq
    <3> QED BY <1>1, <2>1, <2>2, <3>1, <3>2 DEF Whole, Asked
  <2>4. Nth(c, got[c][emitted[c]], emitted[c], job[c], emitted[c])
    BY <1>1, <2>2, <2>3 DEF Yielded
  <2>5. got[c][emitted[c]].terminal
    BY <2>1, <2>4 DEF Nth
  <2> QED BY <1>3, <2>2, <2>3, <2>5
<1>5. Yielded(c)'
  BY <1>1, <1>2, <1>3 DEF Yielded
<1>6. Asked(c)'
  BY <1>1, <1>2, <1>3, <1>4 DEF Asked
<1> QED BY <1>2, <1>5, <1>6 DEF CallInv


\* Taking the first frame off the wire leaves the marks of the others.
LEMMA MarkedTail ==
  ASSUME NEW c \in Call, NEW w \in Seq(Frame), w # <<>>, NEW state, NEW e, Marked(c, w, state, e)
  PROVE  /\ Marked(c, Tail(w), state, e)
         /\ Head(w).id = c => (Head(w).terminal <=> state = "answered" /\ Head(w).n = e)
<1> DEFINE t == Tail(w)
<1>1. /\ Len(w) \in Nat \ {0} /\ Len(t) = Len(w) - 1 /\ Head(w) = w[1]
      /\ \A i \in 1 .. Len(t) : t[i] = w[i + 1]
  BY TailIs
<1> HIDE DEF t
<1>2. \A i \in 1 .. Len(t) : i + 1 \in 1 .. Len(w)
  BY <1>1
<1>3. Marked(c, t, state, e)
  BY <1>1, <1>2 DEF Marked
<1>4. 1 \in 1 .. Len(w)
  BY <1>1
<1> QED BY <1>1, <1>3, <1>4 DEF Marked, t

\* The lengths of a call's queues.
LEMMA Lengths ==
  ASSUME TypeOK, NEW c \in Call
  PROVE  /\ Len(got[c]) \in Nat /\ Len(frames[c]) \in Nat /\ Routed(c) \in Nat /\ Count(c) \in Nat
         /\ emitted[c] \in Nat
<1>1. Len(got[c]) \in Nat /\ Len(frames[c]) \in Nat
  BY SeqTypes, Elements
<1>2. \A p, q \in Nat : p + q \in Nat
  OBVIOUS
<1>3. Routed(c) \in Nat
  BY <1>1, <1>2, Zenon DEF Routed
<1> QED BY <1>1, <1>3 DEF Count, TypeOK

\* A frame arrives.
LEMMA ReceiveKeeps ==
  ASSUME IInv, NEW c \in Call, Receive
  PROVE  CallInv(c)'
<1>1. /\ TypeOK /\ LoopInv /\ Yielded(c) /\ Asked(c) /\ (pc[c] # "done" => OnItsWay(c))
      /\ wire \in Seq(Frame) /\ wire # <<>>
  BY DEF IInv, CallInv, Receive, TypeOK
<1>2. /\ recv = "receive" /\ wire' = Tail(wire)
      /\ UNCHANGED <<pc, frames, got, result, ended, emitted, job>>
  BY DEF Receive
<1>3. Routed(c)' = Routed(c) /\ Count(c) = Routed(c) /\ Count(c) \in Nat /\ emitted[c] \in Nat
  BY <1>1, <1>2, Lengths DEF Routed, Count, InHand
<1>4. Yielded(c)'
  BY <1>1, <1>2 DEF Yielded
<1>5. Asked(c)'
  <2>1. recv' # "done" /\ recv # "done"
    BY <1>2 DEF Receive
  <2> QED BY <1>1, <1>2, <2>1 DEF Asked
<1>6. ASSUME pc[c] # "done", Head(wire).id # c
      PROVE  OnItsWay(c)'
  <2>1. ~InHand(c)'
    BY <1>2, <1>6 DEF InHand, Receive
  <2>2. Count(c)' = Count(c)
    BY <1>3, <2>1 DEF Count
  <2>3. /\ Lane(c, Tail(wire), Count(c), emitted[c]) /\ Marked(c, Tail(wire), job[c], emitted[c])
        /\ ended # "error" => Whole(c, Tail(wire), Count(c), emitted[c])
    BY <1>1, <1>3, <1>6, OtherTaken, MarkedTail DEF OnItsWay
  <2> QED BY <1>1, <1>2, <1>6, <2>1, <2>2, <2>3 DEF OnItsWay
<1>7. ASSUME pc[c] # "done", Head(wire).id = c
      PROVE  OnItsWay(c)'
  <2>1. /\ Head(wire).n = Count(c) + 1 /\ Count(c) + 1 <= emitted[c]
        /\ Lane(c, Tail(wire), Count(c) + 1, emitted[c]) /\ Marked(c, Tail(wire), job[c], emitted[c])
        /\ ended # "error" => Whole(c, Tail(wire), Count(c) + 1, emitted[c])
        /\ Head(wire).terminal <=> job[c] = "answered" /\ Head(wire).n = emitted[c]
    BY <1>1, <1>3, <1>7, OwnTaken, MarkedTail DEF OnItsWay
  <2>2. pc[c] # "idle"
    BY <1>1, <1>3, <2>1 DEF Asked
  <2>3. recv' = "route" /\ held' = Head(wire)
    BY <1>1, <1>7, <2>2 DEF Receive, Registered, Live, TypeOK
  <2>4. InHand(c)'
    BY <1>7, <2>3 DEF InHand
  <2>5. Count(c)' = Count(c) + 1
    BY <1>3, <2>4 DEF Count
  <2>6. Nth(c, held', Routed(c)' + 1, job'[c], emitted'[c])
    BY <1>2, <1>3, <1>7, <2>1, <2>3 DEF Nth
  <2>7. \A i \in 1 .. Len(frames'[c]) : Nth(c, frames'[c][i], Len(got'[c]) + i, job'[c], emitted'[c])
    BY <1>1, <1>2, <1>7 DEF OnItsWay
  <2> QED BY <1>2, <2>1, <2>5, <2>6, <2>7 DEF OnItsWay
<1> QED BY <1>2, <1>4, <1>5, <1>6, <1>7 DEF CallInv

\* The frame in hand goes to its call's channel.
LEMMA RouteKeeps ==
  ASSUME IInv, NEW c \in Call, Route
  PROVE  CallInv(c)'
<1>1. /\ TypeOK /\ LoopInv /\ Yielded(c) /\ Asked(c) /\ (pc[c] # "done" => OnItsWay(c))
      /\ held \in Frame /\ held.id \in Call /\ frames[c] \in Seq(Frame)
  BY DEF IInv, CallInv, LoopInv, Route, TypeOK, Frame
<1>2. /\ recv = "route" /\ recv' = "receive" /\ frames' = [frames EXCEPT ![held.id] = Append(@, held)]
      /\ UNCHANGED <<pc, got, result, ended, emitted, job, wire>>
  BY DEF Route, serverVars
<1>3. Yielded(c)'
  BY <1>1, <1>2 DEF Yielded
<1>4. Asked(c)'
  BY <1>1, <1>2 DEF Asked
<1>5. ~InHand(c)'
  BY <1>2 DEF InHand
<1>6. ASSUME pc[c] # "done", held.id # c
      PROVE  OnItsWay(c)'
  <2>1. frames'[c] = frames[c] /\ ~InHand(c)
    BY <1>1, <1>2, <1>6 DEF TypeOK, InHand
  <2>2. Routed(c)' = Routed(c)
    BY <1>2, <2>1 DEF Routed
  <2>3. Count(c)' = Count(c)
    BY <1>5, <2>1, <2>2 DEF Count
  <2> QED BY <1>1, <1>2, <1>5, <1>6, <2>1, <2>3 DEF OnItsWay
<1>7. ASSUME pc[c] # "done", held.id = c
      PROVE  OnItsWay(c)'
  <2>1. InHand(c)
    BY <1>2, <1>7 DEF InHand
  <2>2. Nth(c, held, Routed(c) + 1, job[c], emitted[c]) /\ Count(c) = Routed(c) + 1
    BY <1>1, <1>7, <2>1 DEF OnItsWay, Count
  <2>3. /\ Len(frames'[c]) = Len(frames[c]) + 1 /\ frames'[c][Len(frames[c]) + 1] = held
        /\ \A i \in 1 .. Len(frames[c]) : frames'[c][i] = frames[c][i]
    <3>1. frames'[c] = Append(frames[c], held)
      BY <1>1, <1>2, <1>7 DEF TypeOK
    <3> QED BY <1>1, <3>1, AppendProperties
  <2>4. Len(got[c]) \in Int /\ Len(frames[c]) \in Int /\ Len(frames'[c]) \in Int /\ got'[c] = got[c]
    BY <1>1, <1>2, <2>3, Lengths
  <2>5. Routed(c)' = Routed(c) + 1
    <3>1. \A p, q, r \in Int : r = p + 1 => q + r = (q + p) + 1
      OBVIOUS
    <3>2. Len(got[c]) + Len(frames'[c]) = (Len(got[c]) + Len(frames[c])) + 1
      BY <2>3, <2>4, <3>1, Zenon
    <3>3. Routed(c)' = Len(got[c]) + Len(frames'[c])
      BY <2>4, Zenon DEF Routed
    <3> QED BY <3>2, <3>3, Zenon DEF Routed
  <2>6. Count(c)' = Count(c)
    BY <1>5, <2>2, <2>5 DEF Count
  <2>7. ASSUME NEW i \in 1 .. Len(frames'[c])
        PROVE  Nth(c, frames'[c][i], Len(got'[c]) + i, job'[c], emitted'[c])
    <3>1. \A p, r \in Int : r = p + 1 => \A k \in 1 .. r : k \in 1 .. p \/ k = p + 1
      OBVIOUS
    <3>2. i \in 1 .. Len(frames[c]) \/ i = Len(frames[c]) + 1
      BY <2>3, <2>4, <3>1, Zenon
    <3>3. CASE i \in 1 .. Len(frames[c])
      BY <1>1, <1>2, <1>7, <2>3, <3>3 DEF OnItsWay
    <3>4. CASE i = Len(frames[c]) + 1
      <4>1. Routed(c) + 1 = Len(got[c]) + i
        <5>1. \A p, q \in Int : (q + p) + 1 = q + (p + 1)
          OBVIOUS
        <5>2. (Len(got[c]) + Len(frames[c])) + 1 = Len(got[c]) + (Len(frames[c]) + 1)
          BY <2>4, <5>1, Zenon
        <5> QED BY <3>4, <5>2, Zenon DEF Routed
      <4> QED BY <1>2, <2>2, <2>3, <3>4, <4>1
    <3> QED BY <3>2, <3>3, <3>4
  <2> QED BY <1>1, <1>2, <1>5, <1>7, <2>6, <2>7 DEF OnItsWay
<1> QED BY <1>2, <1>3, <1>4, <1>6, <1>7 DEF CallInv

\* The loop drops a frame whose caller is gone, or is over; the stream ends.
LEMMA LoopKeeps ==
  ASSUME IInv, NEW c \in Call, RouteGone \/ ReceiveEnd \/ EndStream \/ IdleOut
  PROVE  CallInv(c)'
<1>1. TypeOK /\ LoopInv /\ Yielded(c) /\ Asked(c) /\ (pc[c] # "done" => OnItsWay(c))
  BY DEF IInv, CallInv
<1>2. UNCHANGED <<pc, frames, got, result, emitted, job, wire>> /\ Routed(c)' = Routed(c)
  BY DEF RouteGone, ReceiveEnd, EndStream, IdleOut, clientVars, serverVars, Routed
<1>3. Yielded(c)'
  BY <1>1, <1>2 DEF Yielded
<1>4. Asked(c)'
  <2>1. CASE RouteGone
    BY <1>1, <1>2, <2>1 DEF Asked, RouteGone
  <2>2. CASE ReceiveEnd
    BY <1>1, <1>2, <2>2 DEF Asked, ReceiveEnd, serverVars
  <2>3. CASE EndStream \/ IdleOut
    BY <1>1, <1>2, <2>3 DEF Asked, LoopInv, EndStream, IdleOut, clientVars
  <2> QED BY <2>1, <2>2, <2>3
<1>5. ASSUME pc[c] # "done" PROVE OnItsWay(c)'
  <2>1. (InHand(c)' <=> InHand(c)) /\ (ended' # "error" => ended # "error") /\ (InHand(c) => held' = held)
    <3>1. CASE RouteGone
      BY <1>5, <3>1 DEF RouteGone, Gone, InHand, serverVars
    <3>2. CASE ReceiveEnd
      BY <3>2 DEF ReceiveEnd, InHand, serverVars
    <3>3. CASE EndStream \/ IdleOut
      BY <3>3 DEF EndStream, IdleOut, InHand, clientVars
    <3> QED BY <3>1, <3>2, <3>3
  <2>2. Count(c)' = Count(c)
    BY <1>2, <2>1 DEF Count
  <2> QED BY <1>1, <1>2, <1>5, <2>1, <2>2 DEF OnItsWay
<1> QED BY <1>2, <1>3, <1>4, <1>5 DEF CallInv

\* The stream breaks, and what was in flight may be lost from the end.
LEMMA BreakKeeps ==
  ASSUME IInv, NEW c \in Call, Break
  PROVE  CallInv(c)'
<1>1. TypeOK /\ LoopInv /\ Yielded(c) /\ Asked(c) /\ (pc[c] # "done" => OnItsWay(c)) /\ wire \in Seq(Frame)
  BY DEF IInv, CallInv, TypeOK
<1>2. UNCHANGED <<pc, frames, got, result, emitted, job, held, recv>> /\ ended = "no" /\ ended' = "error"
  BY DEF Break, clientVars
<1>3. Routed(c)' = Routed(c)
  BY <1>2 DEF Routed
<1>4. (InHand(c)' <=> InHand(c)) /\ Count(c)' = Count(c) /\ Count(c) \in Nat /\ emitted[c] \in Nat
  BY <1>1, <1>2, <1>3, CountKept, Lengths
<1>5. PICK m \in 0 .. Len(wire) : wire' = SubSeq(wire, 1, m)
  BY DEF Break
<1>6. ASSUME pc[c] # "done" PROVE OnItsWay(c)'
  <2>1. Lane(c, wire, Count(c), emitted[c]) /\ Marked(c, wire, job[c], emitted[c])
    BY <1>1, <1>6 DEF OnItsWay
  <2>2. Lane(c, wire', Count(c), emitted[c])
    BY <1>1, <1>4, <1>5, <2>1, CutLane
  <2>3. Len(SubSeq(wire, 1, m)) = m /\ \A i \in 1 .. m : SubSeq(wire, 1, m)[i] = wire[i] /\ i \in 1 .. Len(wire)
    <3>1. Len(wire) \in Nat /\ m \in Nat /\ \A i \in 1 .. m : i \in 1 .. Len(wire) /\ wire[i] \in Frame
      BY <1>1, Elements
    <3> QED BY <3>1, SubSeqProperties
  <2>4. Marked(c, wire', job[c], emitted[c])
    BY <1>5, <2>1, <2>3 DEF Marked
  <2> QED BY <1>1, <1>2, <1>3, <1>4, <1>6, <2>2, <2>4 DEF OnItsWay
<1>7. Yielded(c)'
  BY <1>1, <1>2 DEF Yielded
<1>8. Asked(c)'
  BY <1>1, <1>2 DEF Asked, LoopInv
<1> QED BY <1>2, <1>6, <1>7, <1>8 DEF CallInv


\* A frame put behind the others, by its elements.
LEMMA MarkedMore ==
  ASSUME NEW c \in Call, NEW w \in Seq(Frame), NEW f \in Frame, NEW state, NEW e, Marked(c, w, state, e),
         f.id = c => (f.terminal <=> state = "answered" /\ f.n = e)
  PROVE  Marked(c, Append(w, f), state, e)
<1> DEFINE v == Append(w, f)
<1>1. /\ Len(w) \in Nat /\ Len(v) = Len(w) + 1 /\ v[Len(w) + 1] = f
      /\ \A i \in 1 .. Len(w) : v[i] = w[i]
  BY Elements, AppendProperties
<1> HIDE DEF v
<1>2. \A i \in 1 .. Len(v) : i \in 1 .. Len(w) \/ i = Len(w) + 1
  BY <1>1
<1> QED BY <1>1, <1>2 DEF Marked, v

\* The server sends a frame of another call.
LEMMA OtherEmits ==
  ASSUME IInv, NEW d \in Call, NEW c \in Call \ {d}, Emit(d)
  PROVE  CallInv(c)'
<1>1. TypeOK /\ LoopInv /\ Yielded(c) /\ Asked(c) /\ (pc[c] # "done" => OnItsWay(c)) /\ wire \in Seq(Frame)
  BY DEF IInv, CallInv, TypeOK
<1>2. /\ UNCHANGED <<pc, frames, got, result, held, recv, ended>>
      /\ job'[c] = job[c] /\ emitted'[c] = emitted[c]
  BY <1>1 DEF Emit, clientVars, TypeOK
<1>3. PICK f \in Frame : f.id = d /\ wire' = Append(wire, f)
  <2>1. PICK last \in BOOLEAN : wire' = Append(wire, [id |-> d, n |-> emitted[d] + 1, terminal |-> last])
    BY DEF Emit
  <2>2. emitted[d] + 1 \in 1 .. MaxFrames
    <3>1. emitted[d] < MaxFrames /\ emitted[d] \in Nat
      BY DEF IInv, CallInv, Asked, Emit, TypeOK
    <3> QED BY <3>1, BoundsAssumption
  <2> QED BY <2>1, <2>2 DEF Frame
<1>4. Routed(c)' = Routed(c)
  BY <1>2 DEF Routed
<1>5. (InHand(c)' <=> InHand(c)) /\ Count(c)' = Count(c) /\ Count(c) \in Nat /\ emitted[c] \in Nat
  BY <1>1, <1>2, <1>4, CountKept, Lengths
<1>6. ASSUME pc[c] # "done" PROVE OnItsWay(c)'
  <2>1. OnItsWay(c)
    BY <1>1, <1>6
  <2>2. /\ Lane(c, wire', Count(c), emitted[c])
        /\ ended # "error" => Whole(c, wire', Count(c), emitted[c])
    BY <1>1, <1>3, <1>5, <2>1, OtherSent DEF OnItsWay
  <2>3. Marked(c, wire', job[c], emitted[c])
    BY <1>1, <1>3, <2>1, MarkedMore DEF OnItsWay
  <2> QED BY <1>2, <1>4, <1>5, <2>1, <2>2, <2>3 DEF OnItsWay
<1>7. Yielded(c)'
  BY <1>1, <1>2 DEF Yielded
<1>8. Asked(c)'
  BY <1>1, <1>2 DEF Asked
<1> QED BY <1>2, <1>6, <1>7, <1>8 DEF CallInv

\* The server sends the call's next frame.
LEMMA EmitKeeps ==
  ASSUME IInv, NEW c \in Call, Emit(c)
  PROVE  CallInv(c)'
<1>1. /\ TypeOK /\ LoopInv /\ Yielded(c) /\ Asked(c) /\ (pc[c] # "done" => OnItsWay(c)) /\ wire \in Seq(Frame)
      /\ emitted[c] \in Nat /\ emitted[c] < MaxFrames
  BY DEF IInv, CallInv, TypeOK, Asked, Emit
<1>2. /\ UNCHANGED <<pc, frames, got, result, held, recv, ended>>
      /\ ended = "no" /\ job[c] = "running" /\ emitted'[c] = emitted[c] + 1
  BY <1>1 DEF Emit, clientVars, TypeOK
<1>3. PICK f \in Frame : /\ f.id = c /\ f.n = emitted[c] + 1 /\ wire' = Append(wire, f)
                         /\ job'[c] = IF f.terminal THEN "answered" ELSE "running"
                         /\ emitted[c] + 1 = MaxFrames => f.terminal
  <2>1. PICK last \in BOOLEAN :
          /\ emitted[c] + 1 = MaxFrames => last
          /\ wire' = Append(wire, [id |-> c, n |-> emitted[c] + 1, terminal |-> last])
          /\ job' = [job EXCEPT ![c] = IF last THEN "answered" ELSE "running"]
    BY DEF Emit
  <2>2. [id |-> c, n |-> emitted[c] + 1, terminal |-> last] \in Frame
    BY <1>1, BoundsAssumption DEF Frame
  <2> QED BY <1>1, <2>1, <2>2 DEF TypeOK
<1>4. Routed(c)' = Routed(c)
  BY <1>2 DEF Routed
<1>5. (InHand(c)' <=> InHand(c)) /\ Count(c)' = Count(c) /\ Count(c) \in Nat
      /\ Len(got[c]) \in Nat /\ Len(frames[c]) \in Nat /\ Routed(c) \in Nat
  BY <1>1, <1>2, <1>4, CountKept, Lengths
<1>6. ASSUME NEW g, NEW n \in Nat, Nth(c, g, n, job[c], emitted[c]), n <= emitted[c]
      PROVE  Nth(c, g, n, job'[c], emitted'[c]) /\ ~g.terminal
  BY <1>1, <1>2, <1>6 DEF Nth
<1>7. Yielded(c)'
  <2>1. ASSUME NEW i \in 1 .. Len(got[c])
        PROVE  Nth(c, got[c][i], i, job'[c], emitted'[c]) /\ ~got[c][i].terminal
    <3>1. i \in Nat /\ i <= emitted[c]
      BY <1>1, <1>5 DEF Yielded
    <3> QED BY <1>1, <1>6, <3>1 DEF Yielded
  <2>2. Len(got[c]) <= emitted'[c]
    BY <1>1, <1>2, <1>5 DEF Yielded
  <2> QED BY <1>2, <2>1, <2>2 DEF Yielded
<1>8. ASSUME pc[c] # "done" PROVE OnItsWay(c)'
  <2>1. OnItsWay(c) /\ Count(c) <= emitted[c] /\ Whole(c, wire, Count(c), emitted[c])
    BY <1>1, <1>2, <1>8 DEF OnItsWay
  <2>2. Routed(c) <= emitted[c]
    BY <1>1, <1>5, <2>1 DEF Count
  <2>3. ASSUME NEW i \in 1 .. Len(frames[c])
        PROVE  Nth(c, frames[c][i], Len(got[c]) + i, job'[c], emitted'[c])
    <3>1. \A p, q, e \in Nat : q + p <= e => \A k \in 1 .. p : q + k \in Nat /\ q + k <= e
      OBVIOUS
    <3>2. Len(got[c]) + i \in Nat /\ Len(got[c]) + i <= emitted[c]
      BY <1>1, <1>5, <2>2, <3>1, Zenon DEF Routed
    <3> QED BY <1>6, <2>1, <3>2 DEF OnItsWay
  <2>4. ASSUME InHand(c) PROVE Nth(c, held, Routed(c) + 1, job'[c], emitted'[c])
    <3>1. Routed(c) + 1 \in Nat /\ Routed(c) + 1 <= emitted[c]
      BY <1>5, <2>1, <2>4 DEF Count
    <3> QED BY <1>6, <2>1, <2>4, <3>1 DEF OnItsWay
  <2>5. Lane(c, wire', Count(c), emitted'[c]) /\ Whole(c, wire', Count(c), emitted'[c])
    BY <1>1, <1>2, <1>3, <1>5, <2>1, OwnSent DEF OnItsWay
  <2>6. Marked(c, wire, job'[c], emitted'[c])
    <3>1. \A i \in 1 .. Len(wire) : wire[i].id = c => wire[i].n <= emitted[c] /\ wire[i].n \in Nat
      BY <1>1, <2>1, Elements DEF OnItsWay, Lane
    <3> QED BY <1>1, <1>2, <2>1, <3>1 DEF OnItsWay, Marked
  <2>7. Marked(c, wire', job'[c], emitted'[c])
    BY <1>1, <1>2, <1>3, <2>6, MarkedMore
  <2>8. Count(c)' <= emitted'[c]
    BY <1>1, <1>2, <1>5, <2>1
  <2> QED BY <1>2, <1>4, <1>5, <2>3, <2>4, <2>5, <2>7, <2>8 DEF OnItsWay
<1>9. Asked(c)'
  <2>1. result[c] # "session"
    BY <1>1, <1>2 DEF Asked, LoopInv
  <2> QED BY <1>1, <1>2, <1>3, <2>1, BoundsAssumption DEF Asked
<1> QED BY <1>2, <1>7, <1>8, <1>9 DEF CallInv

\* The receive loop's own state.
LEMMA LoopInvKept == IInv /\ [Next]_vars => LoopInv'
<1> SUFFICES ASSUME IInv, [Next]_vars PROVE LoopInv'
  OBVIOUS
<1>1. TypeOK /\ LoopInv
  BY DEF IInv
<1> USE DEF LoopInv, clientVars, serverVars
<1>2. ASSUME NEW c \in Call, FetchStep(c) \/ RangeStep(c) \/ Cancelled(c) \/ StartJob(c) PROVE LoopInv'
  BY <1>1, <1>2 DEF FetchStep, Refuse, Register, Send, SendFails, RangeStep, RangeOver, Take, SeeClosed,
                    YieldSessionError, Cancelled, StartJob
<1>3. ASSUME NEW c \in Call, Emit(c) PROVE LoopInv'
  BY <1>1, <1>3 DEF Emit
<1>4. CASE Receive
  <2>1. Head(wire) \in Frame
    BY <1>1, <1>4, TailIs DEF Receive, TypeOK
  <2> QED BY <1>1, <1>4, <2>1 DEF Receive
<1>5. CASE Route \/ RouteGone
  BY <1>1, <1>5 DEF Route, RouteGone
<1>6. CASE ReceiveEnd
  BY <1>1, <1>6 DEF ReceiveEnd, Fail
<1>7. CASE HalfClose \/ CloseDone \/ EndStream \/ IdleOut
  BY <1>1, <1>7 DEF HalfClose, CloseDone, EndStream, IdleOut
<1>8. CASE Break
  <2>1. recv # "done"
    BY <1>1, <1>8 DEF Break
  <2> QED BY <1>1, <1>8, <2>1 DEF Break
<1>9. CASE UNCHANGED vars
  BY <1>1, <1>9 DEF vars
<1> QED BY <1>2, <1>3, <1>4, <1>5, <1>6, <1>7, <1>8, <1>9 DEF Next, RecvStep

\* Every step keeps every call's invariant.
LEMMA CallsKept ==
  ASSUME IInv, [Next]_vars, NEW c \in Call
  PROVE  CallInv(c)'
<1>1. TypeOK /\ CallInv(c)
  BY DEF IInv
<1>2. ASSUME NEW d \in Call, FetchStep(d) \/ RangeStep(d) \/ Cancelled(d) \/ StartJob(d)
      PROVE  CallInv(c)'
  <2>1. CASE c = d
    BY <1>2, <2>1, CallMoves, StartKeeps, TakeKeeps, SessionErrorKeeps DEF FetchStep, RangeStep
  <2>2. CASE c # d
    <3>1. UNCHANGED <<wire, ended, held, recv>>
      BY <1>2 DEF FetchStep, Refuse, Register, Send, SendFails, RangeStep, RangeOver, Take, SeeClosed,
                  YieldSessionError, Cancelled, StartJob, clientVars, serverVars
    <3>2. /\ pc'[c] = pc[c] /\ frames'[c] = frames[c] /\ got'[c] = got[c] /\ result'[c] = result[c]
          /\ job'[c] = job[c] /\ emitted'[c] = emitted[c]
      <4>1. CASE FetchStep(d)
        BY <1>1, <2>2, <4>1 DEF FetchStep, Refuse, Register, Send, SendFails, Finish, serverVars, TypeOK
      <4>2. CASE Take(d)
        BY <1>1, <2>2, <4>2 DEF Take, Finish, serverVars, TypeOK
      <4>3. CASE RangeOver(d) \/ SeeClosed(d) \/ YieldSessionError(d) \/ Cancelled(d)
        BY <1>1, <2>2, <4>3 DEF RangeOver, SeeClosed, YieldSessionError, Cancelled, Finish, serverVars, TypeOK
      <4>4. CASE StartJob(d)
        BY <1>1, <2>2, <4>4 DEF StartJob, clientVars, TypeOK
      <4> QED BY <1>2, <4>1, <4>2, <4>3, <4>4 DEF RangeStep
    <3> QED BY <1>1, <3>1, <3>2, Untouched
  <2> QED BY <2>1, <2>2
<1>3. ASSUME NEW d \in Call, Emit(d) PROVE CallInv(c)'
  BY <1>3, OtherEmits, EmitKeeps
<1>4. CASE RecvStep \/ EndStream \/ IdleOut \/ Break
  BY <1>4, ReceiveKeeps, RouteKeeps, LoopKeeps, BreakKeeps DEF RecvStep
<1>5. CASE HalfClose \/ CloseDone \/ UNCHANGED vars
  <2>1. UNCHANGED <<pc, frames, got, result, job, emitted, wire, ended, held, recv>>
    BY <1>5 DEF HalfClose, CloseDone, vars, clientVars, serverVars
  <2> QED BY <1>1, <2>1, Untouched
<1> QED BY <1>2, <1>3, <1>4, <1>5 DEF Next

\* The initial state satisfies the invariant.
LEMMA InitHolds == Init => IInv
<1> SUFFICES ASSUME Init PROVE IInv
  OBVIOUS
<1>1. <<>> \in Seq(Frame) /\ Len(<<>>) = 0
  BY EmptySeq
<1>2. TypeOK
  <2>1. /\ frames \in [Call -> Seq(Frame)] /\ got \in [Call -> Seq(Frame)] /\ wire \in Seq(Frame)
        /\ emitted \in [Call -> 0 .. MaxFrames]
    BY <1>1, BoundsAssumption DEF Init
  <2>2. 0 <= BufferSize /\ 0 <= WireSize
    BY BoundsAssumption
  <2>3. wire = <<>> /\ \A c \in Call : frames[c] = <<>>
    BY DEF Init
  <2>4. Len(wire) <= WireSize /\ \A c \in Call : Len(frames[c]) <= BufferSize
    BY <1>1, <2>2, <2>3, Zenon
  <2> QED BY <2>1, <2>4 DEF Init, TypeOK, EndedBy
<1>3. LoopInv
  BY DEF Init, LoopInv
<1>4. ASSUME NEW c \in Call PROVE CallInv(c)
  <2>1. frames[c] = <<>> /\ got[c] = <<>> /\ wire = <<>> /\ emitted[c] = 0 /\ ~InHand(c)
    BY DEF Init, InHand
  <2>2. Routed(c) = 0 /\ Count(c) = 0
    BY <1>1, <2>1 DEF Routed, Count
  <2>3. Yielded(c) /\ OnItsWay(c)
    BY <1>1, <2>1, <2>2 DEF Yielded, OnItsWay, Lane, Marked, Whole
  <2>4. Asked(c)
    BY <2>1, BoundsAssumption DEF Init, Asked
  <2> QED BY <2>3, <2>4 DEF CallInv
<1> QED BY <1>2, <1>3, <1>4 DEF IInv

\* The invariant holds throughout.
LEMMA Invariant == Spec => []IInv
<1>1. IInv /\ [Next]_vars => IInv'
  <2> SUFFICES ASSUME IInv, [Next]_vars PROVE IInv'
    OBVIOUS
  <2>1. TypeOK'
    BY TypingOfCalls, TypingOfOthers DEF Next, IInv, CallInv
  <2> QED BY <2>1, LoopInvKept, CallsKept DEF IInv
<1> QED BY InitHolds, <1>1, PTL DEF Spec

-----------------------------------------------------------------------------
\* Every variable keeps its type.
THEOREM TypeCorrect == Spec => []TypeOK
<1>1. IInv => TypeOK
  BY DEF IInv
<1> QED BY Invariant, <1>1, PTL

\* Every call sees its own frames only, all of them in order, none after the terminal one.
THEOREM InOrder == Spec => []OwnFramesInOrder
<1>1. IInv => OwnFramesInOrder
  <2> SUFFICES ASSUME IInv, NEW c \in Call, NEW i \in DOMAIN got[c]
               PROVE  /\ got[c][i].id = c /\ got[c][i].n = i
                      /\ got[c][i].terminal => i = Len(got[c]) /\ result[c] = "terminal"
    BY DEF OwnFramesInOrder
  <2>1. TypeOK /\ Yielded(c)
    BY DEF IInv, CallInv
  <2>2. i \in 1 .. Len(got[c]) /\ Len(got[c]) \in Nat /\ emitted[c] \in Nat
    BY <2>1, SeqTypes, LenProperties, Lengths
  <2>3. Nth(c, got[c][i], i, job[c], emitted[c]) /\ Len(got[c]) <= emitted[c]
        /\ (got[c][i].terminal => result[c] = "terminal")
    BY <2>1, <2>2 DEF Yielded
  <2> QED BY <2>2, <2>3 DEF Nth
<1> QED BY Invariant, <1>1, PTL

\* The session's error is yielded only after everything that was routed before it.
THEOREM ErrorLast == Spec => []SessionErrorComesLast
<1>1. IInv => SessionErrorComesLast
  <2> SUFFICES ASSUME IInv, NEW c \in Call, result[c] = "session"
               PROVE  frames[c] = <<>> /\ \A i \in DOMAIN got[c] : ~got[c][i].terminal
    BY DEF SessionErrorComesLast
  <2>1. Asked(c) /\ got[c] \in Seq(Frame)
    BY SeqTypes DEF IInv, CallInv
  <2>2. DOMAIN got[c] = 1 .. Len(got[c])
    BY <2>1, LenProperties
  <2> QED BY <2>1, <2>2 DEF Asked
<1> QED BY Invariant, <1>1, PTL

\* No answered call of a stream that ended cleanly comes back with the session's error.
THEOREM NothingLost == Spec => []CleanEndLosesNothing
<1>1. IInv => CleanEndLosesNothing
  BY DEF IInv, CallInv, Asked, CleanEndLosesNothing
<1> QED BY Invariant, <1>1, PTL
=============================================================================
