-------------------------- MODULE ServerStreamProofs --------------------------
(***************************************************************************)
(* Proofs about ServerStream, for any calls, frames and gate.  That a call     *)
(* that returned has closed its stream follows from where a stream can be      *)
(* open; that the loop keeps Delivery's promise follows from what the flag     *)
(* sawTerminal says of the frames received.                                   *)
(***************************************************************************)
EXTENDS ServerStream, SequenceTheorems, TLAPS

\* Where no stream is open: before the call opens it and after the call's return.
Unopened(c) ==
  \/ pc[c] \in {"idle", "returned"}
  \/ pc[c] = "opened" /\ kind[c] = "pages"

OpenWhileUsed(c) ==
  /\ Unopened(c) => ~open[c] /\ slot[c] # "held"
  /\ kind[c] # "embed" => slot[c] # "held"

\* A verdict comes with the end of the loop; sawTerminal was set by a frame.
VerdictFits(c) ==
  /\ pc[c] \in {"idle", "opened", "ranging", "yielding"} => verdict[c] = "none"
  /\ seen[c] <= Len(offered[c])
  /\ terminal[c] => \E i \in 1 .. seen[c] : offered[c][i].is = "done"

CallInv(c) == OpenWhileUsed(c) /\ VerdictFits(c)
IInv == TypeOK /\ \A c \in Call : CallInv(c)

StateOf(c) ==
  <<kind[c], pc[c], open[c], slot[c], seen[c], terminal[c], verdict[c], offered[c]>>

StepOf(c) ==
  \/ Open(c) \/ OpenFails(c) \/ Ask(c) \/ RangeOver(c) \/ Drop(c) \/ LoopStep(c)
  \/ EndContext(c) \/ Offer(c) \/ Seal(c)

PCs == {"idle", "opened", "ranging", "yielding", "closing", "returned", "dropped"}
Verdicts == {"none", "whole", "missing", "failed", "content", "left"}

\* What a server offers is a frame.
LEMMA OfferedFrames == \A k \in AllKinds : FramesOf(k) \subseteq Frame
  BY DEF FramesOf, Frame, FetchUrlFrames, CrawlFrames, MapFrames, EmbedFrames

\* Leaving the loop keeps the types of what it sets.
LEMMA EndTyped ==
  ASSUME TypeOK, NEW c \in Call, NEW v \in Verdicts, End(c, v)
  PROVE  verdict' \in [Call -> Verdicts] /\ pc' \in [Call -> PCs]
BY DEF TypeOK, End, PCs, Verdicts

\* The next frame of a call that has one.
LEMMA NextFrame ==
  ASSUME TypeOK, NEW c \in Call, seen[c] < Len(offered[c])
  PROVE  seen[c] + 1 \in 1 .. Len(offered[c]) /\ offered[c][seen[c] + 1] \in Frame
<1>1. seen[c] \in Nat /\ offered[c] \in Seq(Frame)
  BY DEF TypeOK
<1> QED BY <1>1, ElementOfSeq, LenProperties

\* What CrawlPages keeps of a frame is typed.
LEMMA FoldTyped ==
  ASSUME TypeOK, NEW c \in Call, NEW f \in Frame, NEW i \in Nat
  PROVE  /\ Fold(c, f, i) \in [Page -> SUBSET Nat]
         /\ Closes(f) => PageOf(c, f, i) \in [page : Page, at : Nat, ok : BOOLEAN, parts : SUBSET Nat]
<1>1. pending[c] \in [Page -> SUBSET Nat] /\ f.page \in Page \union {NoPage}
  BY DEF TypeOK, Frame
<1>2. f.page # NoPage => pending[c][f.page] \union {i} \in SUBSET Nat
  BY <1>1
<1>3. Fold(c, f, i) \in [Page -> SUBSET Nat]
  BY <1>1, <1>2 DEF Fold
<1>4. ASSUME Closes(f)
      PROVE  PageOf(c, f, i) \in [page : Page, at : Nat, ok : BOOLEAN, parts : SUBSET Nat]
  BY <1>1, <1>2, <1>4 DEF PageOf, Closes
<1> QED BY <1>3, <1>4

\* Typing is kept by each step.
LEMMA TypingKept ==
  ASSUME TypeOK, NEW c \in Call, StepOf(c)
  PROVE  TypeOK'
<1> USE DEF TypeOK, clientVars, serverVars
<1>1. CASE Open(c)
  <2>1. PICK next \in {"ranging", "opened"}, s \in {"none", "held", "released"} :
          pc' = [pc EXCEPT ![c] = next] /\ slot' = [slot EXCEPT ![c] = s]
    BY <1>1 DEF Open
  <2> QED BY <1>1, <2>1 DEF Open
<1>2. CASE OpenFails(c) \/ Ask(c) \/ RangeOver(c) \/ Drop(c)
  BY <1>2 DEF OpenFails, Ask, RangeOver, Drop
<1>3. CASE Receive(c)
  <2> DEFINE i == seen[c] + 1
             f == offered[c][i]
  <2>1. f \in Frame /\ i \in Nat
    BY <1>3, NextFrame DEF Receive
  <2>2. seen' \in [Call -> Nat] /\ terminal' \in [Call -> BOOLEAN]
    BY <1>3, <2>1 DEF Receive, IsTerminal, OwesTerminal
  <2>3. PICK next \in {"yielding", "ranging"} : pc' = [pc EXCEPT ![c] = next]
    BY <1>3 DEF Receive
  <2>4. pending' \in [Call -> [Page -> SUBSET Nat]]
    <3>1. CASE pending' = pending
      BY <3>1
    <3>2. CASE pending' = [pending EXCEPT ![c] = Fold(c, f, i)]
      BY <2>1, <3>2, FoldTyped
    <3> QED BY <1>3, <3>1, <3>2 DEF Receive
  <2>5. pages' \in [Call -> Seq([page : Page, at : Nat, ok : BOOLEAN, parts : SUBSET Nat])]
    <3>1. CASE pages' = pages
      BY <3>1
    <3>2. CASE Closes(f) /\ pages' = [pages EXCEPT ![c] = Append(@, PageOf(c, f, i))]
      BY <2>1, <3>2, FoldTyped, AppendProperties
    <3>3. kind[c] = "pages" /\ ~Closes(f) => pages' = [pages EXCEPT ![c] = @]
      BY <1>3 DEF Receive
    <3> QED BY <1>3, <3>1, <3>2, <3>3 DEF Receive
  <2> QED BY <1>3, <2>2, <2>3, <2>4, <2>5 DEF Receive
<1>4. CASE ReceiveBad(c) \/ Break(c)
  BY <1>4, EndTyped DEF ReceiveBad, Break, PCs, Verdicts
<1>5. CASE ReceiveEnd(c)
  <2>1. PICK v \in {"failed", "missing", "whole"} : End(c, v)
    BY <1>5 DEF ReceiveEnd
  <2> QED BY <1>5, <2>1, EndTyped DEF ReceiveEnd, PCs, Verdicts
<1>6. CASE Resume(c) \/ EndContext(c)
  BY <1>6 DEF Resume, EndContext
<1>7. CASE Close(c)
  <2>1. PICK s \in {"none", "held", "released"} : slot' = [slot EXCEPT ![c] = s]
    BY <1>7 DEF Close
  <2> QED BY <1>7, <2>1 DEF Close
<1>8. CASE Offer(c)
  <2>1. PICK f \in Frame : offered' = [offered EXCEPT ![c] = Append(@, f)]
    BY <1>8, OfferedFrames DEF Offer
  <2>2. Append(offered[c], f) \in Seq(Frame)
    BY <2>1, AppendProperties
  <2> QED BY <1>8, <2>1, <2>2 DEF Offer
<1>9. CASE Seal(c)
  <2>1. PICK s \in {"ok", "error"} : status' = [status EXCEPT ![c] = s]
    BY <1>9 DEF Seal
  <2> QED BY <1>9, <2>1 DEF Seal
<1> QED BY <1>1, <1>2, <1>3, <1>4, <1>5, <1>6, <1>7, <1>8, <1>9 DEF StepOf, LoopStep

\* A step of one call leaves the others as they are.
LEMMA OthersUntouched ==
  ASSUME TypeOK, NEW d \in Call, NEW c \in Call \ {d}, StepOf(d)
  PROVE  StateOf(c)' = StateOf(c) /\ status'[c] = status[c]
<1> USE DEF TypeOK, StateOf, clientVars, serverVars
<1>1. CASE Open(d) \/ OpenFails(d) \/ Ask(d) \/ RangeOver(d) \/ Drop(d)
  BY <1>1 DEF Open, OpenFails, Ask, RangeOver, Drop
<1>2. CASE Receive(d)
  BY <1>2 DEF Receive
<1>3. CASE ReceiveBad(d) \/ ReceiveEnd(d) \/ Resume(d) \/ Break(d) \/ Close(d)
  BY <1>3 DEF ReceiveBad, ReceiveEnd, Resume, Break, Close, End
<1>4. CASE EndContext(d) \/ Offer(d) \/ Seal(d)
  BY <1>4 DEF EndContext, Offer, Seal
<1> QED BY <1>1, <1>2, <1>3, <1>4 DEF StepOf, LoopStep

\* Each step of a call keeps that call's invariant.
LEMMA OwnStepKeeps ==
  ASSUME TypeOK, NEW c \in Call, CallInv(c), StepOf(c)
  PROVE  CallInv(c)'
<1> USE DEF TypeOK, CallInv, OpenWhileUsed, Unopened, VerdictFits, clientVars, serverVars
<1>1. CASE Open(c)
  BY <1>1 DEF Open, Eager
<1>2. CASE OpenFails(c) \/ Ask(c) \/ RangeOver(c) \/ Drop(c)
  BY <1>2 DEF OpenFails, Ask, RangeOver, Drop
<1>3. CASE Receive(c)
  <2> DEFINE i == seen[c] + 1
  <2>1. i \in 1 .. Len(offered[c]) /\ Len(offered[c]) \in Nat
    <3>1. seen[c] < Len(offered[c])
      BY <1>3 DEF Receive
    <3>2. i \in 1 .. Len(offered[c])
      BY <3>1, NextFrame
    <3> HIDE DEF i
    <3>3. Len(offered[c]) \in Nat
      BY LenProperties
    <3> QED BY <3>2, <3>3
  <2>2. seen'[c] = i /\ offered' = offered
    BY <1>3 DEF Receive
  <2>3. terminal'[c] => \E n \in 1 .. i : offered[c][n].is = "done"
    <3>1. CASE terminal[c]
      BY <3>1
    <3>2. CASE IsTerminal(kind[c], offered[c][i])
      BY <2>1, <3>2 DEF IsTerminal
    <3> QED BY <1>3, <3>1, <3>2 DEF Receive
  <2>4. OpenWhileUsed(c)'
    <3>1. PICK next \in {"yielding", "ranging"} : pc' = [pc EXCEPT ![c] = next]
      BY <1>3 DEF Receive
    <3> QED BY <1>3, <3>1 DEF Receive
  <2>5. verdict'[c] = "none"
    BY <1>3 DEF Receive
  <2> QED BY <2>1, <2>2, <2>3, <2>4, <2>5
<1>4. CASE ReceiveBad(c) \/ ReceiveEnd(c) \/ Break(c)
  BY <1>4 DEF ReceiveBad, ReceiveEnd, Break, End
<1>5. CASE Resume(c) \/ EndContext(c) \/ Seal(c)
  BY <1>5 DEF Resume, EndContext, Seal
<1>6. CASE Close(c)
  BY <1>6 DEF Close
<1>7. CASE Offer(c)
  <2>1. PICK f \in Frame : offered' = [offered EXCEPT ![c] = Append(@, f)]
    BY <1>7, OfferedFrames DEF Offer
  <2>2. /\ Len(offered'[c]) = Len(offered[c]) + 1
        /\ \A i \in 1 .. Len(offered[c]) : offered'[c][i] = offered[c][i]
    BY <2>1, AppendProperties
  <2>3. Len(offered[c]) \in Nat
    BY LenProperties
  <2> QED BY <1>7, <2>2, <2>3 DEF Offer
<1> QED BY <1>1, <1>2, <1>3, <1>4, <1>5, <1>6, <1>7 DEF StepOf, LoopStep

\* The initial state satisfies the invariant.
LEMMA InitHolds == Init => IInv
<1> SUFFICES ASSUME Init PROVE IInv
  OBVIOUS
<1>1. TypeOK
  <2>1. PICK mix \in Mixes :
          /\ kind = [c \in Call |-> IF c \in DOMAIN mix THEN mix[c] ELSE "map"]
          /\ pc = [c \in Call |-> IF c \in DOMAIN mix THEN "idle" ELSE "returned"]
    BY DEF Init
  <2>2. PICK made \in SUBSET Call : mix \in [made -> AllKinds]
    BY StreamAssumption
  <2>3. kind \in [Call -> AllKinds]
    BY <2>1, <2>2 DEF AllKinds, Eager
  <2>4. pc \in [Call -> PCs]
    BY <2>1 DEF PCs
  <2>5. offered \in [Call -> Seq(Frame)]
    BY EmptySeq DEF Init
  <2>6. pages \in [Call -> Seq([page : Page, at : Nat, ok : BOOLEAN, parts : SUBSET Nat])]
    BY EmptySeq DEF Init
  <2> QED BY <2>3, <2>4, <2>5, <2>6 DEF Init, TypeOK, PCs
<1>2. ASSUME NEW c \in Call PROVE CallInv(c)
  BY EmptySeq DEF Init, CallInv, OpenWhileUsed, VerdictFits
<1> QED BY <1>1, <1>2 DEF IInv

\* The invariant holds throughout.
LEMMA Invariant == Spec => []IInv
<1>1. IInv /\ [Next]_vars => IInv'
  <2> SUFFICES ASSUME IInv, [Next]_vars PROVE IInv'
    OBVIOUS
  <2>1. ASSUME NEW d \in Call, StepOf(d) PROVE IInv'
    <3>1. TypeOK'
      BY <2>1, TypingKept DEF IInv
    <3>2. ASSUME NEW c \in Call PROVE CallInv(c)'
      <4>1. CASE c = d
        BY <2>1, <4>1, OwnStepKeeps DEF IInv
      <4>2. CASE c # d
        <5>1. StateOf(c)' = StateOf(c)
          BY <2>1, <4>2, OthersUntouched DEF IInv
        <5> QED BY <5>1 DEF IInv, StateOf, CallInv, OpenWhileUsed, Unopened, VerdictFits
      <4> QED BY <4>1, <4>2
    <3> QED BY <3>1, <3>2 DEF IInv
  <2>2. CASE UNCHANGED vars
    <3>1. TypeOK'
      BY <2>2 DEF IInv, TypeOK, vars, clientVars, serverVars
    <3>2. ASSUME NEW c \in Call PROVE CallInv(c)'
      BY <2>2 DEF IInv, vars, clientVars, serverVars, CallInv, OpenWhileUsed, Unopened, VerdictFits
    <3> QED BY <3>1, <3>2 DEF IInv
  <2> QED BY <2>1, <2>2 DEF Next, StepOf
<1> QED BY InitHolds, <1>1, PTL DEF Spec

-----------------------------------------------------------------------------
\* Every variable keeps its type.
THEOREM TypeCorrect == Spec => []TypeOK
<1>1. IInv => TypeOK
  BY DEF IInv
<1> QED BY Invariant, <1>1, PTL

\* A call that returned has closed its stream and holds no slot of a gate.
THEOREM ClosedOnReturn == Spec => []ReturnedIsClosed
<1>1. IInv => ReturnedIsClosed
  BY DEF IInv, CallInv, OpenWhileUsed, Unopened, ReturnedIsClosed
<1> QED BY Invariant, <1>1, PTL
-----------------------------------------------------------------------------
(* The promise *)

\* The verdicts as Delivery has them, and the calls that owe a terminal frame.
Told == [c \in Call |-> IF verdict[c] \in {"none", "whole"} THEN verdict[c] ELSE "partial"]
Owed == {c \in Call : kind[c] \in {"fetch", "map"}}

\* A verdict of the loop is one of Delivery.
LEMMA TellsVerdict ==
  ASSUME TypeOK, NEW c \in Call, NEW v \in Verdicts, verdict' = [verdict EXCEPT ![c] = v]
  PROVE  Told' = [Told EXCEPT ![c] = IF v \in {"none", "whole"} THEN v ELSE "partial"]
BY DEF TypeOK, Told, Verdicts

\* Leaving the loop without taking the answer for whole is giving it up.
LEMMA Forgone ==
  ASSUME TypeOK, NEW c \in Call, verdict[c] = "none",
         NEW v \in Verdicts \ {"none", "whole"}, verdict' = [verdict EXCEPT ![c] = v],
         UNCHANGED <<kind, offered, status, seen>>
  PROVE  Promise!GiveUp(c)
<1>1. Told' = [Told EXCEPT ![c] = "partial"]
  BY TellsVerdict
<1>2. Told[c] = "none"
  BY DEF Told
<1> QED BY <1>1, <1>2 DEF Promise!GiveUp, Told

\* What each step is to the reader of the stream.
LEMMA StepKeepsPromise ==
  ASSUME IInv, NEW c \in Call, StepOf(c)
  PROVE  Promise!Next \/ UNCHANGED <<kind, offered, status, seen, verdict>>
<1> USE DEF IInv, CallInv, VerdictFits, clientVars, serverVars
<1>0. TypeOK /\ Told[c] = IF verdict[c] \in {"none", "whole"} THEN verdict[c] ELSE "partial"
  BY DEF Told
<1>1. CASE OpenFails(c) \/ ReceiveBad(c) \/ Break(c)
  <2>1. PICK v \in {"failed", "content", "left"} : verdict' = [verdict EXCEPT ![c] = v]
    BY <1>1 DEF OpenFails, ReceiveBad, Break, End
  <2>2. verdict[c] = "none" /\ UNCHANGED <<kind, offered, status, seen>>
    BY <1>1 DEF OpenFails, ReceiveBad, Break
  <2>3. Promise!GiveUp(c)
    BY <1>0, <2>1, <2>2, Forgone DEF Verdicts
  <2> QED BY <2>3 DEF Promise!Next
<1>2. CASE Receive(c)
  <2>1. Told[c] = "none" /\ seen[c] < Len(offered[c]) /\ seen' = [seen EXCEPT ![c] = @ + 1]
    BY <1>0, <1>2 DEF Receive, TypeOK
  <2>2. Promise!Take(c)
    BY <1>2, <2>1 DEF Promise!Take, Receive, Told
  <2> QED BY <2>2 DEF Promise!Next
<1>3. CASE ReceiveEnd(c)
  <2>1. verdict[c] = "none" /\ UNCHANGED <<kind, offered, status, seen>>
    BY <1>3 DEF ReceiveEnd
  <2>2. PICK v \in {"failed", "missing", "whole"} :
          /\ verdict' = [verdict EXCEPT ![c] = v]
          /\ v = "whole" => /\ EndsWell(c) /\ seen[c] = Len(offered[c])
                            /\ ~(OwesTerminal(kind[c]) /\ ~terminal[c])
    BY <1>3 DEF ReceiveEnd, End
  <2>3. CASE v # "whole"
    <3>1. Promise!GiveUp(c)
      BY <1>0, <2>1, <2>2, <2>3, Forgone DEF Verdicts
    <3> QED BY <3>1 DEF Promise!Next
  <2>4. CASE v = "whole"
    <3>1. Told' = [Told EXCEPT ![c] = "whole"]
      BY <1>0, <2>2, <2>4, TellsVerdict DEF Verdicts
    <3>2. status[c] = "ok" /\ seen[c] = Len(offered[c])
      BY <2>2, <2>4 DEF EndsWell
    <3>3. c \in Owed => \E i \in 1 .. seen[c] : offered[c][i] \in {f \in Frame : f.is = "done"}
      <4>1. SUFFICES ASSUME c \in Owed
                     PROVE  \E i \in 1 .. seen[c] : offered[c][i] \in {f \in Frame : f.is = "done"}
        OBVIOUS
      <4>2. PICK i \in 1 .. seen[c] : offered[c][i].is = "done"
        BY <2>2, <2>4, <4>1 DEF Owed, OwesTerminal
      <4>3. offered[c] \in Seq(Frame)
        BY DEF TypeOK
      <4>4. offered[c][i] \in Frame
        BY <3>2, <4>2, <4>3, ElementOfSeq
      <4> QED BY <4>2, <4>4
    <3>4. Promise!Accept(c)
      BY <1>0, <2>1, <3>1, <3>2, <3>3 DEF Promise!Accept, Told, Owed
    <3> QED BY <3>4 DEF Promise!Next
  <2> QED BY <2>2, <2>3, <2>4
<1>4. CASE Offer(c)
  <2>1. PICK f \in Frame : offered' = [offered EXCEPT ![c] = Append(@, f)]
    BY <1>4, OfferedFrames DEF Offer, TypeOK
  <2>2. Promise!Offer(c)
    BY <1>4, <2>1 DEF Promise!Offer, Offer
  <2> QED BY <2>2 DEF Promise!Next
<1>5. CASE Seal(c)
  <2>1. Promise!Seal(c)
    BY <1>5 DEF Promise!Seal, Seal
  <2> QED BY <2>1 DEF Promise!Next
<1>6. CASE Open(c) \/ Ask(c) \/ RangeOver(c) \/ Drop(c) \/ Resume(c) \/ Close(c) \/ EndContext(c)
  BY <1>6 DEF Open, Ask, RangeOver, Drop, Resume, Close, EndContext
<1> QED BY <1>1, <1>2, <1>3, <1>4, <1>5, <1>6 DEF StepOf, LoopStep

\* The iterators keep the promise of a delivery: frames in order and each once,
\* and an answer taken for whole only if it is.
THEOREM PromiseKept == Spec => KeepsPromise
<1>1. Init => Promise!Init
  BY DEF Init, Promise!Init
<1>2. IInv /\ [Next]_vars => [Promise!Next]_(Promise!vars)
  <2> SUFFICES ASSUME IInv, [Next]_vars PROVE [Promise!Next]_(Promise!vars)
    OBVIOUS
  <2>1. ASSUME NEW c \in Call, StepOf(c) PROVE [Promise!Next]_(Promise!vars)
    BY <2>1, StepKeepsPromise DEF Promise!vars
  <2>2. CASE UNCHANGED vars
    BY <2>2 DEF vars, clientVars, serverVars, Promise!vars
  <2> QED BY <2>1, <2>2 DEF Next, StepOf
<1> QED BY <1>1, <1>2, Invariant, PTL DEF Spec, KeepsPromise, Promise!Spec

-----------------------------------------------------------------------------
(* The pages of a crawl *)

\* The n-th frame is one of page p, which no frame up to the k-th closes.
Waits(c, p, n, k) ==
  /\ offered[c][n].page = p
  /\ \A m \in n .. k : ~(Closes(offered[c][m]) /\ offered[c][m].page = p)

\* The frames of a page among the first k, since its last terminal frame.
Loose(c, p, k) == {n \in 1 .. k : Waits(c, p, n, k)}

\* Those that a terminal frame at k completes.
Gathered(c, p, k) == {n \in 1 .. k : Waits(c, p, n, k - 1)}

\* A yielded page stands for a terminal frame and has gathered its frames.
PageFits(c, page) ==
  /\ page.at \in 1 .. seen[c]
  /\ Closes(offered[c][page.at])
  /\ page.ok => page.parts = Gathered(c, page.page, page.at)

\* What CrawlPages keeps between two frames: each terminal frame gave one page,
\* and each page has in store what came since its last one.
NoOthers(c) == kind[c] # "pages" => pages[c] = <<>>
Stored(c) == kind[c] = "pages" => \A p \in Page : pending[c][p] = Loose(c, p, seen[c])
EachYielded(c) ==
  kind[c] = "pages" =>
    \A n \in 1 .. seen[c] : Closes(offered[c][n]) => \E j \in 1 .. Len(pages[c]) : pages[c][j].at = n
AllFit(c) == \A j \in 1 .. Len(pages[c]) : PageFits(c, pages[c][j])
InTurn(c) == \A j \in 1 .. Len(pages[c]) : j > 1 => pages[c][j - 1].at < pages[c][j].at
Assembling(c) == NoOthers(c) /\ Stored(c) /\ EachYielded(c) /\ AllFit(c) /\ InTurn(c)

AssemblyOf(c) == <<kind[c], seen[c], pending[c], pages[c], offered[c]>>

\* Only a frame received moves the assembly; only the server adds frames.
LEMMA AssemblySteps ==
  ASSUME TypeOK, NEW d \in Call, StepOf(d), NEW c \in Call
  PROVE  \/ AssemblyOf(c)' = AssemblyOf(c)
         \/ c = d /\ (Receive(c) \/ Offer(c))
<1> USE DEF TypeOK, AssemblyOf, clientVars, serverVars
<1>1. CASE Open(d) \/ OpenFails(d) \/ Ask(d) \/ RangeOver(d) \/ Drop(d)
  BY <1>1 DEF Open, OpenFails, Ask, RangeOver, Drop
<1>2. CASE Receive(d)
  <2>1. c # d => AssemblyOf(c)' = AssemblyOf(c)
    BY <1>2 DEF Receive
  <2> QED BY <1>2, <2>1
<1>3. CASE ReceiveBad(d) \/ ReceiveEnd(d) \/ Resume(d) \/ Break(d) \/ Close(d)
  BY <1>3 DEF ReceiveBad, ReceiveEnd, Resume, Break, Close
<1>4. CASE EndContext(d) \/ Seal(d)
  BY <1>4 DEF EndContext, Seal
<1>5. CASE Offer(d)
  <2>1. c # d => AssemblyOf(c)' = AssemblyOf(c)
    BY <1>5 DEF Offer
  <2> QED BY <1>5, <2>1
<1> QED BY <1>1, <1>2, <1>3, <1>4, <1>5 DEF StepOf, LoopStep

\* A frame the server adds does not disturb what was assembled from earlier ones.
LEMMA OfferKeepsAssembly ==
  ASSUME TypeOK, NEW c \in Call, VerdictFits(c), Assembling(c), Offer(c)
  PROVE  Assembling(c)'
<1>1. seen[c] \in Nat /\ Len(offered[c]) \in Nat /\ seen[c] <= Len(offered[c])
  BY LenProperties DEF TypeOK, VerdictFits
<1>2. UNCHANGED <<kind, seen, pending, pages>>
  BY DEF Offer, clientVars
<1>3. \A n \in 1 .. seen[c] : offered'[c][n] = offered[c][n]
  <2>1. PICK f \in Frame : offered' = [offered EXCEPT ![c] = Append(@, f)]
    BY OfferedFrames DEF Offer, TypeOK
  <2>2. \A n \in 1 .. Len(offered[c]) : offered'[c][n] = offered[c][n]
    BY <2>1, AppendProperties DEF TypeOK
  <2> QED BY <1>1, <2>2
<1>4. ASSUME NEW p, NEW k \in 0 .. seen[c]
      PROVE  Loose(c, p, k)' = Loose(c, p, k) /\ Gathered(c, p, k)' = Gathered(c, p, k)
  <2>1. ASSUME NEW n \in 1 .. k, NEW l \in 0 .. k PROVE Waits(c, p, n, l)' = Waits(c, p, n, l)
    <3>1. n \in 1 .. seen[c] /\ \A m \in n .. l : m \in 1 .. seen[c]
      BY <1>1
    <3> QED BY <1>3, <3>1, Zenon DEF Waits
  <2>2. k \in 1 .. seen[c] => k - 1 \in 0 .. k
    BY <1>1
  <2>3. k \in 0 .. k /\ (k = 0 => 1 .. k = {}) /\ (k # 0 => k \in 1 .. seen[c])
    BY <1>1
  <2> QED BY <2>1, <2>2, <2>3 DEF Loose, Gathered
<1>5. AllFit(c)'
  <2>1. ASSUME NEW page, PageFits(c, page) PROVE PageFits(c, page)'
    <3>1. page.at \in 1 .. seen[c] /\ page.at \in 0 .. seen[c]
      BY <1>1, <2>1 DEF PageFits
    <3> QED BY <1>2, <1>3, <1>4, <2>1, <3>1 DEF PageFits
  <2> QED BY <1>2, <2>1 DEF Assembling, AllFit
<1>6. Stored(c)'
  <2>1. seen[c] \in 0 .. seen[c]
    BY <1>1
  <2> QED BY <1>2, <1>4, <2>1 DEF Assembling, Stored
<1>7. EachYielded(c)'
  BY <1>2, <1>3 DEF Assembling, EachYielded
<1> QED BY <1>2, <1>5, <1>6, <1>7 DEF Assembling, NoOthers, InTurn

\* Counting one on.
LEMMA OneOn ==
  ASSUME NEW k \in Nat
  PROVE  \E i \in Nat \ {0} : i = k + 1 /\ i - 1 = k /\ 1 .. i = (1 .. k) \union {i}
<1>1. k + 1 \in Nat \ {0} /\ (k + 1) - 1 = k /\ 1 .. (k + 1) = (1 .. k) \union {k + 1}
  OBVIOUS
<1> QED BY <1>1

\* An earlier frame waits on unless the next one closes its page.
LEMMA WaitsOn ==
  ASSUME NEW c \in Call, NEW k \in Nat, NEW i, i = k + 1, NEW p, NEW n \in 1 .. k
  PROVE  Waits(c, p, n, i) <=> Waits(c, p, n, k) /\ ~(Closes(offered[c][i]) /\ offered[c][i].page = p)
<1>1. n .. i = (n .. k) \union {i}
  OBVIOUS
<1> QED BY <1>1, Zenon DEF Waits

\* The next one waits unless it closes its page itself.
LEMMA WaitsNew ==
  ASSUME NEW c \in Call, NEW k \in Nat, NEW i, i = k + 1, NEW p
  PROVE  /\ Waits(c, p, i, i) <=> offered[c][i].page = p /\ ~Closes(offered[c][i])
         /\ Waits(c, p, i, k) <=> offered[c][i].page = p
<1>1. i .. i = {i} /\ i .. k = {}
  OBVIOUS
<1> QED BY <1>1, Zenon DEF Waits

\* One more frame: what is in store for each page.
LEMMA FoldKeepsLoose ==
  ASSUME TypeOK, NEW c \in Call, seen[c] < Len(offered[c]), NEW p \in Page,
         \A q \in Page : pending[c][q] = Loose(c, q, seen[c])
  PROVE  Fold(c, offered[c][seen[c] + 1], seen[c] + 1)[p] = Loose(c, p, seen[c] + 1)
<1>1. PICK i \in Nat \ {0} : i = seen[c] + 1 /\ i - 1 = seen[c] /\ 1 .. i = (1 .. seen[c]) \union {i}
  BY OneOn DEF TypeOK
<1>2. PICK f \in Frame : f = offered[c][i]
  BY <1>1, NextFrame
<1>3. NoPage \notin Page /\ f.page \in Page \union {NoPage} /\ pending[c] \in [Page -> SUBSET Nat]
  BY StreamAssumption DEF Frame, TypeOK
<1>4. /\ \A n \in 1 .. seen[c] : Waits(c, p, n, i) <=> Waits(c, p, n, seen[c]) /\ ~(Closes(f) /\ f.page = p)
      /\ Waits(c, p, i, i) <=> f.page = p /\ ~Closes(f)
  <2>1. seen[c] \in Nat /\ i = seen[c] + 1
    BY <1>1 DEF TypeOK
  <2>2. ASSUME NEW n \in 1 .. seen[c]
        PROVE  Waits(c, p, n, i) <=> Waits(c, p, n, seen[c]) /\ ~(Closes(offered[c][i]) /\ offered[c][i].page = p)
    BY <2>1, WaitsOn
  <2>3. Waits(c, p, i, i) <=> offered[c][i].page = p /\ ~Closes(offered[c][i])
    BY <2>1, WaitsNew
  <2> QED BY <1>2, <2>2, <2>3
<1>5. Loose(c, p, i) = {n \in 1 .. seen[c] : Waits(c, p, n, i)} \union (IF Waits(c, p, i, i) THEN {i} ELSE {})
  BY <1>1 DEF Loose
<1>6. Loose(c, p, i) = IF f.page # p THEN pending[c][p]
                       ELSE IF Closes(f) THEN {} ELSE pending[c][p] \union {i}
  BY <1>4, <1>5 DEF Loose
<1>7. Fold(c, f, i)[p] = IF f.page # p THEN pending[c][p]
                         ELSE IF Closes(f) THEN {} ELSE pending[c][p] \union {i}
  BY <1>3 DEF Fold
<1> QED BY <1>1, <1>2, <1>6, <1>7

\* A terminal frame completes what is in store for its page.
LEMMA PageGathers ==
  ASSUME TypeOK, NEW c \in Call, seen[c] < Len(offered[c]),
         \A q \in Page : pending[c][q] = Loose(c, q, seen[c]),
         NEW f, f = offered[c][seen[c] + 1], Closes(f), f.is = "done"
  PROVE  PageOf(c, f, seen[c] + 1).parts = Gathered(c, f.page, seen[c] + 1)
<1>1. PICK i \in Nat \ {0} : i = seen[c] + 1 /\ i - 1 = seen[c] /\ 1 .. i = (1 .. seen[c]) \union {i}
  BY OneOn DEF TypeOK
<1>2. f \in Frame /\ f = offered[c][i]
  BY <1>1, NextFrame
<1>3. f.page \in Page
  BY <1>2 DEF Frame, Closes
<1>4. Waits(c, f.page, i, seen[c])
  <2>1. seen[c] \in Nat /\ i = seen[c] + 1
    BY <1>1 DEF TypeOK
  <2>2. Waits(c, f.page, i, seen[c]) <=> offered[c][i].page = f.page
    BY <2>1, WaitsNew
  <2> QED BY <1>2, <2>2
<1>5. Gathered(c, f.page, i) = Loose(c, f.page, seen[c]) \union {i}
  BY <1>1, <1>4 DEF Gathered, Loose
<1> QED BY <1>1, <1>3, <1>5 DEF PageOf

\* Receiving a frame keeps the assembly.
LEMMA ReceiveKeepsAssembly ==
  ASSUME TypeOK, NEW c \in Call, Assembling(c), Receive(c)
  PROVE  Assembling(c)'
<1>1. PICK i \in Nat \ {0} : i = seen[c] + 1 /\ i - 1 = seen[c] /\ 1 .. i = (1 .. seen[c]) \union {i}
  BY OneOn DEF TypeOK
<1>2. PICK f \in Frame : f = offered[c][i]
  BY <1>1, NextFrame DEF Receive
<1>3. seen'[c] = i /\ UNCHANGED <<kind, offered>> /\ seen[c] < Len(offered[c]) /\ seen[c] \in Nat
  BY <1>1 DEF Receive, TypeOK, serverVars
<1>4. \A p, k : Loose(c, p, k)' = Loose(c, p, k) /\ Gathered(c, p, k)' = Gathered(c, p, k)
  BY <1>3 DEF Loose, Gathered, Waits
<1>5. ASSUME NEW page, PageFits(c, page) PROVE PageFits(c, page)'
  BY <1>1, <1>3, <1>4, <1>5 DEF PageFits
<1>6. NoOthers(c)'
  BY <1>3 DEF Assembling, NoOthers, Receive
<1>7. Stored(c)'
  <2> SUFFICES ASSUME kind[c] = "pages", NEW p \in Page PROVE pending'[c][p] = Loose(c, p, i)
    BY <1>3, <1>4 DEF Stored
  <2>1. pending'[c] = Fold(c, offered[c][seen[c] + 1], seen[c] + 1)
    BY DEF Receive, TypeOK
  <2>2. \A q \in Page : pending[c][q] = Loose(c, q, seen[c])
    BY DEF Assembling, Stored
  <2> QED BY <1>1, <1>3, <2>1, <2>2, FoldKeepsLoose
<1>8. CASE pages'[c] = pages[c] /\ (kind[c] = "pages" => ~Closes(f))
  <2>1. AllFit(c)' /\ InTurn(c)'
    BY <1>5, <1>8 DEF Assembling, AllFit, InTurn
  <2>2. EachYielded(c)'
    BY <1>1, <1>2, <1>3, <1>8 DEF Assembling, EachYielded
  <2> QED BY <1>6, <1>7, <2>1, <2>2 DEF Assembling
<1>9. CASE kind[c] = "pages" /\ Closes(f) /\ pages'[c] = Append(pages[c], PageOf(c, f, i))
  <2>1. PICK new \in [page : Page, at : Nat, ok : BOOLEAN, parts : SUBSET Nat] : new = PageOf(c, f, i)
    BY <1>9, FoldTyped
  <2>2. new.at = i /\ new.page = f.page /\ new.ok = (f.is = "done")
    BY <2>1 DEF PageOf
  <2>3. PageFits(c, new)'
    <3>1. f.is = "done" => new.parts = Gathered(c, f.page, i)
      BY <1>1, <1>2, <1>3, <1>9, <2>1, PageGathers DEF Assembling, Stored
    <3>2. i \in 1 .. i
      OBVIOUS
    <3> QED BY <1>2, <1>3, <1>4, <1>9, <2>2, <3>1, <3>2 DEF PageFits
  <2>4. PICK k \in Nat : /\ k = Len(pages[c]) /\ Len(pages'[c]) = k + 1
                         /\ \A j \in 1 .. k : pages'[c][j] = pages[c][j]
                         /\ pages'[c][k + 1] = new
    <3>1. pages[c] \in Seq([page : Page, at : Nat, ok : BOOLEAN, parts : SUBSET Nat])
      BY DEF TypeOK
    <3>2. Len(pages[c]) \in Nat
      BY <3>1, LenProperties
    <3>3. /\ Len(pages'[c]) = Len(pages[c]) + 1 /\ pages'[c][Len(pages[c]) + 1] = new
          /\ \A j \in 1 .. Len(pages[c]) : pages'[c][j] = pages[c][j]
      BY <1>9, <2>1, <3>1, AppendProperties
    <3> QED BY <3>2, <3>3
  <2>5. 1 .. k + 1 = (1 .. k) \union {k + 1} /\ \A j \in 1 .. k + 1 : j > 1 => j - 1 \in 1 .. k
    OBVIOUS
  <2>6. AllFit(c)'
    BY <1>5, <2>3, <2>4, <2>5 DEF Assembling, AllFit
  <2>7. EachYielded(c)'
    <3> SUFFICES ASSUME NEW n \in 1 .. i, Closes(offered[c][n])
                 PROVE  \E j \in 1 .. k + 1 : pages'[c][j].at = n
      BY <1>3, <2>4 DEF EachYielded
    <3>1. CASE n = i
      BY <2>2, <2>4, <2>5, <3>1
    <3>2. CASE n \in 1 .. seen[c]
      <4>1. PICK j \in 1 .. k : pages[c][j].at = n
        BY <1>9, <2>4, <3>2 DEF Assembling, EachYielded
      <4> QED BY <2>4, <2>5, <4>1
    <3> QED BY <1>1, <3>1, <3>2
  <2>8. InTurn(c)'
    <3> SUFFICES ASSUME NEW j \in 1 .. k + 1, j > 1 PROVE pages'[c][j - 1].at < pages'[c][j].at
      BY <2>4 DEF InTurn
    <3>1. j - 1 \in 1 .. k /\ pages'[c][j - 1] = pages[c][j - 1]
      BY <2>4, <2>5
    <3>2. CASE j \in 1 .. k
      BY <2>4, <3>1, <3>2 DEF Assembling, InTurn
    <3>3. CASE j = k + 1
      <4>1. pages[c][j - 1].at \in 1 .. seen[c]
        BY <2>4, <3>1 DEF Assembling, AllFit, PageFits
      <4>2. pages'[c][j].at = i
        BY <2>2, <2>4, <3>3
      <4> QED BY <1>1, <1>3, <3>1, <4>1, <4>2
    <3> QED BY <2>5, <3>2, <3>3
  <2> QED BY <1>6, <1>7, <2>6, <2>7, <2>8 DEF Assembling
<1>10. \/ pages'[c] = pages[c] /\ (kind[c] = "pages" => ~Closes(f))
       \/ kind[c] = "pages" /\ Closes(f) /\ pages'[c] = Append(pages[c], PageOf(c, f, i))
  BY <1>1, <1>2 DEF Receive, TypeOK
<1> QED BY <1>8, <1>9, <1>10

\* Each page of a crawl is yielded once, whole, in the order of the terminal
\* frames, however many pages the frames of a crawl are spread over.
THEOREM PagesWhole == Spec => []EachPageOnceAndWhole
<1> DEFINE AInv == \A c \in Call : Assembling(c)
<1>1. Init => AInv
  <2> SUFFICES ASSUME Init, NEW c \in Call PROVE Assembling(c)
    OBVIOUS
  <2>1. pages[c] = <<>> /\ seen[c] = 0 /\ pending[c] = [p \in Page |-> {}]
    BY DEF Init
  <2>2. Len(pages[c]) = 0
    BY <2>1
  <2> QED BY <2>1, <2>2 DEF Assembling, NoOthers, Stored, EachYielded, AllFit, InTurn, Loose, Waits
<1>2. IInv /\ AInv /\ [Next]_vars => AInv'
  <2> SUFFICES ASSUME IInv, AInv, [Next]_vars, NEW c \in Call PROVE Assembling(c)'
    OBVIOUS
  <2>1. CASE AssemblyOf(c)' = AssemblyOf(c)
    <3>1. /\ kind'[c] = kind[c] /\ seen'[c] = seen[c] /\ pending'[c] = pending[c]
          /\ pages'[c] = pages[c] /\ offered'[c] = offered[c]
      BY <2>1 DEF AssemblyOf
    <3>2. \A p, k : Loose(c, p, k)' = Loose(c, p, k) /\ Gathered(c, p, k)' = Gathered(c, p, k)
      BY <3>1 DEF Loose, Gathered, Waits
    <3>3. \A page : PageFits(c, page)' <=> PageFits(c, page)
      BY <3>1, <3>2 DEF PageFits
    <3> QED BY <3>1, <3>2, <3>3 DEF Assembling, NoOthers, Stored, EachYielded, AllFit, InTurn
  <2>2. CASE UNCHANGED vars
    BY <2>1, <2>2 DEF vars, clientVars, serverVars, AssemblyOf
  <2>3. ASSUME NEW d \in Call, StepOf(d) PROVE Assembling(c)'
    <3>1. CASE c = d /\ Receive(c)
      BY <3>1, ReceiveKeepsAssembly DEF IInv
    <3>2. CASE c = d /\ Offer(c)
      BY <3>2, OfferKeepsAssembly DEF IInv, CallInv
    <3> QED BY <2>1, <2>3, <3>1, <3>2, AssemblySteps DEF IInv
  <2> QED BY <2>2, <2>3 DEF Next, StepOf
<1>3. IInv /\ AInv => EachPageOnceAndWhole
  <2> SUFFICES ASSUME IInv, AInv, NEW c \in Call
               PROVE  /\ kind[c] = "pages" =>
                           {n \in 1 .. seen[c] : Closes(offered[c][n])} = {pages[c][j].at : j \in DOMAIN pages[c]}
                      /\ \A j \in DOMAIN pages[c] :
                           /\ j > 1 => pages[c][j - 1].at < pages[c][j].at
                           /\ pages[c][j].ok => pages[c][j].parts = Gathered(c, pages[c][j].page, pages[c][j].at)
    BY DEF EachPageOnceAndWhole, Gathered, Waits
  <2>1. DOMAIN pages[c] = 1 .. Len(pages[c]) /\ Len(pages[c]) \in Nat
    BY LenProperties DEF IInv, TypeOK
  <2>2. Assembling(c)
    OBVIOUS
  <2>3. kind[c] = "pages" =>
          {n \in 1 .. seen[c] : Closes(offered[c][n])} = {pages[c][j].at : j \in 1 .. Len(pages[c])}
    BY <2>2 DEF Assembling, EachYielded, AllFit, PageFits
  <2>4. ASSUME NEW j \in 1 .. Len(pages[c])
        PROVE  /\ j > 1 => pages[c][j - 1].at < pages[c][j].at
               /\ pages[c][j].ok => pages[c][j].parts = Gathered(c, pages[c][j].page, pages[c][j].at)
    BY <2>2 DEF Assembling, AllFit, InTurn, PageFits
  <2> QED BY <2>1, <2>3, <2>4
<1> QED BY <1>1, <1>2, <1>3, Invariant, PTL DEF Spec
=============================================================================
