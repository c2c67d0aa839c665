-------------------------- MODULE GatedUploadProofs --------------------------
(***************************************************************************)
(* Proofs about GatedUpload, for any calls, any gate and any size of upload.   *)
(* Calls meet only at the gate, whose slots no property is about, so the        *)
(* invariant is about one call at a time: how a request that ended cleanly      *)
(* got there, and what is known of the server when a result is chosen.         *)
(***************************************************************************)
EXTENDS GatedUpload, TLAPS

\* A request that UploadCollect or Save ended cleanly is whole, unless the
\* server had ended the call before.
CleanIsWhole(c) ==
  CancelsItself(c) =>
    /\ request[c] = "clean" => sent[c] = Total \/ server[c] = "ended"
    /\ server[c] = "working" => sent[c] = Total

\* Only "collect" takes a slot, and no started call returns with it.
SlotBack(c) ==
  /\ style[c] # "collect" => slot[c] = "none"
  /\ pc[c] = "returned" /\ started[c] => slot[c] # "held"

\* A call turns to its responses with everything out or an error to report;
\* success is decided at the end of them, failures of Send likewise.
ResultFits(c) ==
  /\ pc[c] = "receiving" => sent[c] = Total \/ result[c] \in {"sendError", "readError"}
  /\ pc[c] \in {"idle", "sending"} => result[c] = "none"
  /\ pc[c] = "receiving" => result[c] # "ok"
  /\ status[c] # "none" => server[c] = "ended"
  /\ result[c] = "ok" => sent[c] = Total /\ status[c] = "ok" /\ fed[c] = responses[c]
  /\ pc[c] \in {"closing", "returned"} /\ result[c] = "sendError" /\ request[c] = "clean"
       => server[c] = "ended" /\ status[c] # "error"

\* The server answers nothing before the request has ended cleanly.
NoAnswerYet(c) ==
  pc[c] \in {"idle", "sending"} =>
    request[c] # "clean" /\ server[c] # "working" /\ responses[c] = 0 /\ fed[c] = 0

CallInv(c) == NoAnswerYet(c) /\ CleanIsWhole(c) /\ SlotBack(c) /\ ResultFits(c)
IInv == TypeOK /\ \A c \in Call : CallInv(c)

StateOf(c) ==
  <<style[c], pc[c], result[c], conn[c], slot[c], ctxDone[c], started[c], sent[c], request[c],
    fed[c], server[c], status[c], responses[c]>>

\* Leave and CloseAndReceive keep the types of what they set.
LEMMA LeaveTyped ==
  ASSUME TypeOK, NEW c \in Call, NEW how \in {"none", "sendError", "readError", "status", "frameError", "ok"}
  PROVE  /\ Leave(c, how) => /\ result' \in [Call -> {"none", "sendError", "readError", "status", "frameError", "ok"}]
                             /\ pc' \in [Call -> {"idle", "sending", "receiving", "closing", "returned"}]
         /\ CloseAndReceive(c, how) =>
              /\ result' \in [Call -> {"none", "sendError", "readError", "status", "frameError", "ok"}]
              /\ pc' \in [Call -> {"idle", "sending", "receiving", "closing", "returned"}]
              /\ request' \in [Call -> {"open", "clean", "reset"}]
              /\ started' \in [Call -> BOOLEAN]
<1> USE DEF TypeOK
<1>1. ASSUME Leave(c, how)
      PROVE  /\ result' \in [Call -> {"none", "sendError", "readError", "status", "frameError", "ok"}]
             /\ pc' \in [Call -> {"idle", "sending", "receiving", "closing", "returned"}]
  <2>1. PICK next \in {"closing", "returned"} : pc' = [pc EXCEPT ![c] = next]
    BY <1>1 DEF Leave
  <2> QED BY <1>1, <2>1 DEF Leave
<1>2. ASSUME CloseAndReceive(c, how)
      PROVE  /\ result' \in [Call -> {"none", "sendError", "readError", "status", "frameError", "ok"}]
             /\ pc' \in [Call -> {"idle", "sending", "receiving", "closing", "returned"}]
             /\ request' \in [Call -> {"open", "clean", "reset"}]
             /\ started' \in [Call -> BOOLEAN]
  <2>1. PICK r \in {"clean", "reset"} : request' = [request EXCEPT ![c] = r]
    BY <1>2 DEF CloseAndReceive
  <2> QED BY <1>2, <2>1 DEF CloseAndReceive
<1> QED BY <1>1, <1>2

\* Typing is kept by each step.
LEMMA TypingKept == TypeOK /\ [Next]_vars => TypeOK'
<1> SUFFICES ASSUME TypeOK, [Next]_vars PROVE TypeOK'
  OBVIOUS
<1> USE UploadAssumption DEF TypeOK, clientVars, serverVars, vars
<1>1. ASSUME NEW c \in Call, Open(c) \/ OpenRefused(c) PROVE TypeOK'
  BY <1>1 DEF Open, OpenRefused, TakeSlot
<1>2. ASSUME NEW c \in Call, Send(c) PROVE TypeOK'
  BY <1>2 DEF Send
<1>11. ASSUME NEW c \in Call, HalfClose(c) PROVE TypeOK'
  <2>1. PICK r \in {"clean", "reset"} : request' = [request EXCEPT ![c] = r]
    BY <1>11 DEF HalfClose
  <2> QED BY <1>11, <2>1 DEF HalfClose
<1>13. ASSUME NEW c \in Call, HalfCloseFails(c) PROVE TypeOK'
  BY <1>13, LeaveTyped DEF HalfCloseFails
<1>3. ASSUME NEW c \in Call, SendFails(c) PROVE TypeOK'
  <2>1. CASE Abandon(c, "sendError")
    BY <1>3, <2>1, LeaveTyped DEF SendFails, Abandon
  <2>2. CASE CloseAndReceive(c, "sendError")
    BY <1>3, <2>2, LeaveTyped DEF SendFails
  <2> QED BY <1>3, <2>1, <2>2 DEF SendFails
<1>4. ASSUME NEW c \in Call, ReadFails(c) PROVE TypeOK'
  <2>1. CASE Abandon(c, "readError")
    BY <1>4, <2>1, LeaveTyped DEF ReadFails, Abandon
  <2>2. CASE CloseAndReceive(c, "readError")
    BY <1>4, <2>2, LeaveTyped DEF ReadFails
  <2> QED BY <1>4, <2>1, <2>2 DEF ReadFails
<1>5. ASSUME NEW c \in Call, SendSeesEnd(c) PROVE TypeOK'
  <2>1. CASE Leave(c, EndedAs(c)) /\ request' = [request EXCEPT ![c] = "clean"] /\ started' = started
    BY <1>5, <2>1, LeaveTyped DEF SendSeesEnd, EndedAs
  <2>2. CASE CloseAndReceive(c, "sendError")
    BY <1>5, <2>2, LeaveTyped DEF SendSeesEnd
  <2> QED BY <1>5, <2>1, <2>2 DEF SendSeesEnd
<1>6. ASSUME NEW c \in Call, Receive(c) PROVE TypeOK'
  <2>1. fed' \in [Call -> 0 .. MaxResponses]
    BY <1>6 DEF Receive
  <2>2. pc' \in [Call -> {"idle", "sending", "receiving", "closing", "returned"}]
        /\ result' \in [Call -> {"none", "sendError", "readError", "status", "frameError", "ok"}]
    BY <1>6, LeaveTyped DEF Receive
  <2> QED BY <1>6, <2>1, <2>2 DEF Receive
<1>10. ASSUME NEW c \in Call, ReceiveEnd(c) PROVE TypeOK'
  <2>1. PICK seen \in {"ok", "status"} : Leave(c, Reported(c, seen))
    BY <1>10 DEF ReceiveEnd, Ending
  <2>2. Reported(c, seen) \in {"none", "sendError", "readError", "status", "frameError", "ok"}
    BY DEF Reported
  <2> QED BY <1>10, <2>1, <2>2, LeaveTyped DEF ReceiveEnd
<1>7. ASSUME NEW c \in Call, CloseResponse(c) PROVE TypeOK'
  <2>1. PICK r \in {"clean", "reset"} : request' = [request EXCEPT ![c] = r]
    BY <1>7 DEF CloseResponse
  <2>2. PICK h \in {"none", "held", "released"} : slot' = [slot EXCEPT ![c] = h]
    BY <1>7 DEF CloseResponse
  <2> QED BY <1>7, <2>1, <2>2 DEF CloseResponse
<1>12. ASSUME NEW c \in Call, EndContext(c) PROVE TypeOK'
  <2>1. PICK r \in {"open", "clean", "reset"} : request' = [request EXCEPT ![c] = r]
    BY <1>12 DEF EndContext
  <2> QED BY <1>12, <2>1 DEF EndContext
<1>8. ASSUME NEW c \in Call, Work(c) \/ Respond(c) \/ End(c) PROVE TypeOK'
  BY <1>8 DEF Work, Respond, End
<1>9. CASE UNCHANGED vars
  BY <1>9
<1> QED BY <1>1, <1>2, <1>3, <1>4, <1>5, <1>6, <1>7, <1>8, <1>9, <1>10,
           <1>11, <1>12, <1>13 DEF Next, ClientStep

\* A step of one call leaves the others as they are.
LEMMA OthersUntouched ==
  ASSUME TypeOK, NEW d \in Call, NEW c \in Call \ {d},
         Open(d) \/ OpenRefused(d) \/ ClientStep(d) \/ EndContext(d) \/ Work(d) \/ Respond(d) \/ End(d)
  PROVE  StateOf(c)' = StateOf(c)
<1> USE DEF TypeOK, StateOf, clientVars, serverVars
<1>1. CASE Open(d) \/ OpenRefused(d)
  BY <1>1 DEF Open, OpenRefused, TakeSlot
<1>2. CASE Send(d) \/ HalfClose(d) \/ CloseResponse(d) \/ EndContext(d)
  BY <1>2 DEF Send, HalfClose, CloseResponse, EndContext
<1>3. CASE SendFails(d) \/ ReadFails(d) \/ SendSeesEnd(d)
  BY <1>3 DEF SendFails, ReadFails, SendSeesEnd, Abandon, Leave, CloseAndReceive
<1>4. CASE HalfCloseFails(d) \/ Receive(d) \/ ReceiveEnd(d)
  BY <1>4 DEF HalfCloseFails, Receive, ReceiveEnd, Leave
<1>5. CASE Work(d) \/ Respond(d) \/ End(d)
  BY <1>5 DEF Work, Respond, End
<1> QED BY <1>1, <1>2, <1>3, <1>4, <1>5 DEF ClientStep

\* Each step of a call keeps that call's invariant.
LEMMA OwnStepKeeps ==
  ASSUME TypeOK, NEW c \in Call, CallInv(c),
         Open(c) \/ OpenRefused(c) \/ ClientStep(c) \/ EndContext(c) \/ Work(c) \/ Respond(c) \/ End(c)
  PROVE  CallInv(c)'
<1> USE UploadAssumption
    DEF TypeOK, CallInv, NoAnswerYet, CleanIsWhole, SlotBack, ResultFits, CancelsItself, clientVars, serverVars
<1>1. CASE Open(c) \/ OpenRefused(c)
  BY <1>1 DEF Open, OpenRefused, TakeSlot
<1>2. CASE Send(c)
  BY <1>2 DEF Send
<1>3. CASE SendFails(c)
  BY <1>3 DEF SendFails, Abandon, Leave, CloseAndReceive
<1>4. CASE SendSeesEnd(c)
  BY <1>4 DEF SendSeesEnd, EndedAs, Leave, CloseAndReceive
<1>5. CASE ReadFails(c)
  BY <1>5 DEF ReadFails, Abandon, Leave, CloseAndReceive
<1>6. CASE HalfClose(c)
  BY <1>6 DEF HalfClose
<1>12. CASE HalfCloseFails(c)
  BY <1>12 DEF HalfCloseFails, Leave
<1>7. CASE Receive(c)
  BY <1>7 DEF Receive, Leave
<1>8. CASE ReceiveEnd(c)
  BY <1>8 DEF ReceiveEnd, Leave, Reported, Ending
<1>9. CASE CloseResponse(c)
  BY <1>9 DEF CloseResponse
<1>10. CASE EndContext(c)
  BY <1>10 DEF EndContext
<1>11. CASE Work(c) \/ Respond(c) \/ End(c)
  BY <1>11 DEF Work, Respond, End
<1> QED BY <1>1, <1>2, <1>3, <1>4, <1>5, <1>6, <1>7, <1>8, <1>9, <1>10, <1>11, <1>12 DEF ClientStep

\* The invariant holds throughout.
LEMMA Invariant == Spec => []IInv
<1>1. Init => IInv
  BY UploadAssumption
     DEF Init, IInv, TypeOK, CallInv, NoAnswerYet, CleanIsWhole, SlotBack, ResultFits
<1>2. IInv /\ [Next]_vars => IInv'
  <2> SUFFICES ASSUME IInv, [Next]_vars PROVE IInv'
    OBVIOUS
  <2>1. TypeOK'
    BY TypingKept DEF IInv
  <2>2. ASSUME NEW c \in Call, NEW d \in Call,
               Open(d) \/ OpenRefused(d) \/ ClientStep(d) \/ EndContext(d)
                 \/ Work(d) \/ Respond(d) \/ End(d)
        PROVE  CallInv(c)'
    <3>1. CASE c = d
      BY <2>2, <3>1, OwnStepKeeps DEF IInv
    <3>2. CASE c # d
      <4>1. StateOf(c)' = StateOf(c)
        BY <2>2, <3>2, OthersUntouched DEF IInv
      <4> QED BY <4>1 DEF IInv, StateOf, CallInv, NoAnswerYet, CleanIsWhole, SlotBack, ResultFits, CancelsItself
    <3> QED BY <3>1, <3>2
  <2>3. CASE UNCHANGED vars
    BY <2>3 DEF IInv, vars, clientVars, serverVars, TypeOK, CallInv, NoAnswerYet, CleanIsWhole, SlotBack,
                ResultFits, CancelsItself
  <2> QED BY <2>1, <2>2, <2>3 DEF Next, IInv
<1> QED BY <1>1, <1>2, PTL DEF Spec

-----------------------------------------------------------------------------
\* Every variable keeps its type.
THEOREM TypeCorrect == Spec => []TypeOK
<1>1. IInv => TypeOK
  BY DEF IInv
<1> QED BY Invariant, <1>1, PTL

\* The server never works on an upload that UploadCollect or Save could not finish.
THEOREM NoTruncatedWork == Spec => []TruncatedNeverProcessed
<1>1. IInv => TruncatedNeverProcessed
  BY DEF IInv, CallInv, NoAnswerYet, CleanIsWhole, TruncatedNeverProcessed
<1> QED BY Invariant, <1>1, PTL

\* A call that started its request returns without a slot.
THEOREM SlotReturned == Spec => []StartedSlotComesBack
<1>1. IInv => StartedSlotComesBack
  BY DEF IInv, CallInv, SlotBack, StartedSlotComesBack
<1> QED BY Invariant, <1>1, PTL

\* The io.EOF of Send is never reported in the place of the server's status.
THEOREM StatusTold == Spec => []StatusIsReported
<1>1. IInv => StatusIsReported
  BY DEF IInv, CallInv, ResultFits, StatusIsReported
<1> QED BY Invariant, <1>1, PTL

\* Success is reported only of a whole upload, ended well, all of whose responses were taken.
THEOREM SuccessWhole == Spec => []SuccessIsWhole
<1>1. IInv => SuccessIsWhole
  BY DEF IInv, CallInv, ResultFits, SuccessIsWhole
<1> QED BY Invariant, <1>1, PTL
=============================================================================
