----------------------------- MODULE GatedUpload -----------------------------
(***************************************************************************)
(* Uploads: internal/streamio/upload.go over the stream wrappers of           *)
(* internal/transport/{auth,backpressure}.go, and the uploads that do not use *)
(* UploadCollect.  A call's style is                                          *)
(*   "collect"      UploadCollect, behind the gate (vectorops passes one);    *)
(*   "save"         voice.Save, on a context of its own like UploadCollect;   *)
(*   "clientStream" assetia.ProbeMedia and escriba.Transcribe;                *)
(*   "attachments"  completion.CompleteWithAttachments.                       *)
(*                                                                          *)
(* The gate is reduced to its slots (BackpressureGate has the rest).  What    *)
(* the code relies on in connect is modelled as its comments describe it: the *)
(* first Send or CloseRequest starts the request, CloseResponse of a request  *)
(* that never started blocks, Send on an ended call returns io.EOF.           *)
(***************************************************************************)
EXTENDS Naturals, FiniteSets

CONSTANTS
  Call,        \* upload calls
  Mixes,       \* bound: the styles the calls may have, a set of functions on Call
  Slots,       \* effective concurrency of the gate
  Total,       \* frames of a whole upload, the opening frame included
  MaxResponses \* bound: response frames the server sends for a call

ASSUME UploadAssumption ==
  /\ Mixes \subseteq [Call -> {"collect", "save", "clientStream", "attachments"}]
  /\ Slots \in Nat \ {0} /\ Total \in Nat \ {0} /\ MaxResponses \in Nat

VARIABLES
  style, pc, result, \* per call: its code, where it stands, what it returned
  conn,      \* "none", "live", or "failed" (failedStreamingClientConn)
  slot,      \* "none", "held", "released": the gated conn's once
  ctxDone,   \* the caller's context has ended
  started,   \* the request is on its way
  sent,      \* frames sent
  request,   \* how the request stream stands: "open", "clean" (half-closed), "reset"
  server,    \* "reading", "working" or "ended"
  status,    \* its status once ended: "ok", "error"
  responses, \* response frames it sent
  fed        \* response frames given to onFrame

clientVars == <<style, pc, result, conn, slot, ctxDone, started, sent, request, fed>>
serverVars == <<server, status, responses>>
vars == <<clientVars, serverVars>>

Init ==
  /\ style \in Mixes
  /\ pc = [c \in Call |-> "idle"]
  /\ result = [c \in Call |-> "none"]
  /\ conn = [c \in Call |-> "none"]
  /\ slot = [c \in Call |-> "none"]
  /\ ctxDone = [c \in Call |-> FALSE]
  /\ started = [c \in Call |-> FALSE]
  /\ sent = [c \in Call |-> 0]
  /\ request = [c \in Call |-> "open"]
  /\ server = [c \in Call |-> "reading"]
  /\ status = [c \in Call |-> "none"]
  /\ responses = [c \in Call |-> 0]
  /\ fed = [c \in Call |-> 0]

-----------------------------------------------------------------------------
(* Opening the stream: the gate first, then the token *)

\* Who opens the call on a context it owns, to be able to reset it.
CancelsItself(c) == style[c] \in {"collect", "save"}

\* Only services with a gate take a slot for the stream.
TakeSlot(c) ==
  IF style[c] = "collect"
  THEN /\ Cardinality({d \in Call : slot[d] = "held"}) < Slots
       /\ slot' = [slot EXCEPT ![c] = "held"]
  ELSE UNCHANGED slot

Open(c) ==
  /\ pc[c] = "idle"
  /\ TakeSlot(c)
  /\ \E token \in {"live", "failed"} : conn' = [conn EXCEPT ![c] = token]
  /\ pc' = [pc EXCEPT ![c] = "sending"]
  /\ UNCHANGED <<style, result, ctxDone, started, sent, request, fed, serverVars>>

\* acquire is cut short by the context: a stream that fails, without a slot.
OpenRefused(c) ==
  /\ pc[c] = "idle" /\ ctxDone[c] /\ style[c] = "collect"
  /\ conn' = [conn EXCEPT ![c] = "failed"]
  /\ pc' = [pc EXCEPT ![c] = "sending"]
  /\ UNCHANGED <<style, result, slot, ctxDone, started, sent, request, fed, serverVars>>

-----------------------------------------------------------------------------
(* How an upload ends *)

\* Mutants: the deferred close does not look at started; a failed upload does
\* not close the response at all.
LeaveClosing(c, how) ==
  /\ result' = [result EXCEPT ![c] = how]
  /\ pc' = [pc EXCEPT ![c] = "closing"]
LeaveWithoutClosing(c, how) ==
  /\ result' = [result EXCEPT ![c] = how]
  /\ pc' = [pc EXCEPT ![c] = IF how = "ok" THEN "closing" ELSE "returned"]

\* UploadCollect and Save return: a request that started is closed.
Leave(c, how) ==
  /\ result' = [result EXCEPT ![c] = how]
  /\ pc' = [pc EXCEPT ![c] = IF started[c] THEN "closing" ELSE "returned"]

\* Mutant: a failed upload is half-closed like a whole one.
AbandonCleanly(c, how) ==
  /\ Leave(c, how)
  /\ request' = [request EXCEPT ![c] = "clean"]
  /\ UNCHANGED started

\* cancel() resets the stream, if there is one.
Abandon(c, how) ==
  /\ Leave(c, how)
  /\ request' = [request EXCEPT ![c] = IF started[c] THEN "reset" ELSE "open"]
  /\ UNCHANGED started

\* CloseAndReceive: half-close, then wait for the answer and close.
CloseAndReceive(c, how) ==
  /\ result' = [result EXCEPT ![c] = how]
  /\ pc' = [pc EXCEPT ![c] = "receiving"]
  /\ request' = [request EXCEPT ![c] = IF ctxDone[c] THEN "reset" ELSE "clean"]
  /\ started' = [started EXCEPT ![c] = TRUE]

-----------------------------------------------------------------------------
(* The request frames *)

Send(c) ==
  /\ pc[c] = "sending" /\ sent[c] < Total
  /\ conn[c] = "live" /\ ~ctxDone[c] /\ server[c] # "ended"
  /\ sent' = [sent EXCEPT ![c] = @ + 1]
  /\ started' = [started EXCEPT ![c] = TRUE]
  /\ UNCHANGED <<style, pc, result, conn, slot, ctxDone, request, fed, serverVars>>

\* A frame never goes out: the stream is a failed one, the context ended, or
\* the message does not marshal.
SendFails(c) ==
  /\ pc[c] = "sending" /\ sent[c] < Total
  /\ IF CancelsItself(c) THEN Abandon(c, "sendError") ELSE CloseAndReceive(c, "sendError")
  /\ UNCHANGED <<style, conn, slot, ctxDone, sent, fed, serverVars>>

\* Mutant: io.EOF is reported as Send returned it.
ReportEOF(c) == "sendError"

\* What the receive side says once Send has returned io.EOF: the status, in
\* one Receive, which a response frame that is waiting would answer.
EndedAs(c) == IF status[c] = "error" /\ fed[c] = responses[c] THEN "status" ELSE "sendError"

\* Send returns io.EOF: the server has ended the call.
SendSeesEnd(c) ==
  /\ pc[c] = "sending" /\ sent[c] < Total
  /\ conn[c] = "live" /\ server[c] = "ended"
  /\ IF style[c] = "collect"
     THEN /\ Leave(c, EndedAs(c))
          /\ request' = [request EXCEPT ![c] = "clean"]
          /\ UNCHANGED started
     ELSE CloseAndReceive(c, "sendError")
  /\ UNCHANGED <<style, conn, slot, ctxDone, sent, fed, serverVars>>

\* The payload cannot be read any further, or exceeds MaxUploadBytes (which
\* attachments half-close for); only the client streams may open with a frame
\* that is read.
ReadFails(c) ==
  /\ pc[c] = "sending" /\ sent[c] < Total
  /\ sent[c] = 0 => style[c] = "clientStream"
  /\ \/ CancelsItself(c) /\ Abandon(c, "readError")
     \/ ~CancelsItself(c) /\ CloseAndReceive(c, "readError")
     \/ /\ style[c] = "attachments"
        /\ result' = [result EXCEPT ![c] = "readError"]
        /\ pc' = [pc EXCEPT ![c] = "returned"]
        /\ UNCHANGED <<request, started>>
  /\ UNCHANGED <<style, conn, slot, ctxDone, sent, fed, serverVars>>

\* Everything is out: half-close and turn to the responses.
HalfClose(c) ==
  /\ pc[c] = "sending" /\ sent[c] = Total
  /\ request' = [request EXCEPT ![c] = IF ctxDone[c] THEN "reset" ELSE "clean"]
  /\ pc' = [pc EXCEPT ![c] = "receiving"]
  /\ UNCHANGED <<style, result, conn, slot, ctxDone, started, sent, fed, serverVars>>

\* The half-close itself fails: the upload ends there, and closing the response
\* resets it.
HalfCloseFails(c) ==
  /\ pc[c] = "sending" /\ sent[c] = Total
  /\ Leave(c, "sendError")
  /\ UNCHANGED <<style, conn, slot, ctxDone, started, sent, request, fed, serverVars>>

-----------------------------------------------------------------------------
(* The response frames *)

Receive(c) ==
  /\ pc[c] = "receiving" /\ conn[c] = "live" /\ ~ctxDone[c]
  /\ fed[c] < responses[c]
  /\ fed' = [fed EXCEPT ![c] = @ + 1]
  /\ \/ UNCHANGED <<pc, result>>
     \/ Leave(c, "frameError")
  /\ UNCHANGED <<style, conn, slot, ctxDone, started, sent, request, serverVars>>

\* Mutant: whatever ended the responses was the end of the call.
AnyEnd(c) == "ok"

\* io.EOF is a clean end, any other error the status.
Ending(c) == IF status[c] = "ok" THEN "ok" ELSE "status"

\* An earlier read error stays what is reported, an earlier send error gives
\* way to the server's status.
Reported(c, seen) ==
  IF result[c] = "readError" \/ (result[c] = "sendError" /\ seen = "ok") THEN result[c] ELSE seen

\* Receive returns io.EOF, the status, or the failed stream's or context's error.
ReceiveEnd(c) ==
  /\ pc[c] = "receiving"
  /\ \/ server[c] = "ended" /\ fed[c] = responses[c]
     \/ conn[c] = "failed" \/ ctxDone[c]
  /\ Leave(c, Reported(c, IF conn[c] = "live" /\ ~ctxDone[c] THEN Ending(c) ELSE "status"))
  /\ UNCHANGED <<style, conn, slot, ctxDone, started, sent, request, fed, serverVars>>

\* CloseResponse: the gated stream gives its slot back, once.
CloseResponse(c) ==
  /\ pc[c] = "closing"
  /\ started[c]
  /\ slot' = [slot EXCEPT ![c] = IF @ = "held" THEN "released" ELSE @]
  /\ request' = [request EXCEPT ![c] = IF @ = "clean" THEN @ ELSE "reset"]
  /\ pc' = [pc EXCEPT ![c] = "returned"]
  /\ UNCHANGED <<style, result, conn, ctxDone, started, sent, fed, serverVars>>

-----------------------------------------------------------------------------
(* The caller and the server *)

\* The context ends; whatever was not half-closed yet is reset.
EndContext(c) ==
  /\ ~ctxDone[c]
  /\ ctxDone' = [ctxDone EXCEPT ![c] = TRUE]
  /\ request' = [request EXCEPT ![c] = IF @ = "open" /\ started[c] THEN "reset" ELSE @]
  /\ UNCHANGED <<style, pc, result, conn, slot, started, sent, fed, serverVars>>

\* The server works on what it has once the request ended cleanly.
Work(c) ==
  /\ server[c] = "reading" /\ request[c] = "clean"
  /\ server' = [server EXCEPT ![c] = "working"]
  /\ UNCHANGED <<status, responses, clientVars>>

Respond(c) ==
  /\ server[c] = "working" /\ responses[c] < MaxResponses
  /\ responses' = [responses EXCEPT ![c] = @ + 1]
  /\ UNCHANGED <<server, status, clientVars>>

\* It ends the call: any time with an error, cleanly only after its work.
End(c) ==
  /\ started[c] /\ server[c] # "ended"
  /\ \E st \in {"ok", "error"} :
       /\ st = "ok" => server[c] = "working"
       /\ status' = [status EXCEPT ![c] = st]
  /\ server' = [server EXCEPT ![c] = "ended"]
  /\ UNCHANGED <<responses, clientVars>>

-----------------------------------------------------------------------------
ClientStep(c) ==
  \/ Send(c) \/ SendFails(c) \/ SendSeesEnd(c) \/ ReadFails(c) \/ HalfClose(c)
  \/ HalfCloseFails(c) \/ Receive(c) \/ ReceiveEnd(c) \/ CloseResponse(c)

Next == \E c \in Call :
  \/ Open(c) \/ OpenRefused(c) \/ ClientStep(c) \/ EndContext(c)
  \/ Work(c) \/ Respond(c) \/ End(c)

Spec == Init /\ [][Next]_vars

\* A call that got its stream runs on, and the server ends what it received.
FairSpec == Spec /\ \A c \in Call :
  WF_vars(ClientStep(c)) /\ WF_vars(Work(c)) /\ WF_vars(request[c] # "open" /\ End(c))

-----------------------------------------------------------------------------
(* Properties *)

TypeOK ==
  /\ style \in Mixes
  /\ pc \in [Call -> {"idle", "sending", "receiving", "closing", "returned"}]
  /\ result \in [Call -> {"none", "sendError", "readError", "status", "frameError", "ok"}]
  /\ conn \in [Call -> {"none", "live", "failed"}]
  /\ slot \in [Call -> {"none", "held", "released"}]
  /\ ctxDone \in [Call -> BOOLEAN] /\ started \in [Call -> BOOLEAN]
  /\ sent \in [Call -> 0 .. Total]
  /\ request \in [Call -> {"open", "clean", "reset"}]
  /\ server \in [Call -> {"reading", "working", "ended"}]
  /\ status \in [Call -> {"none", "ok", "error"}]
  /\ responses \in [Call -> 0 .. MaxResponses] /\ fed \in [Call -> 0 .. MaxResponses]

\* The server never works on an upload that UploadCollect or voice.Save could
\* not finish: a request that fails part-way is not ended cleanly (upload.go
\* 24-27, voice/client.go 153-155 and 237-242).
TruncatedNeverProcessed ==
  \A c \in Call : CancelsItself(c) /\ server[c] = "working" => sent[c] = Total

\* A call that put anything on the wire has given its slot back when it
\* returns, whichever way it went (upload.go 44-49, backpressure.go 165-180).
StartedSlotComesBack ==
  \A c \in Call : pc[c] = "returned" /\ started[c] => slot[c] # "held"

\* An upload whose server failed it is reported with the server's status, not
\* with the io.EOF that Send saw, unless the caller's side failed on its own.
StatusIsReported ==
  \A c \in Call : pc[c] = "returned" /\ result[c] = "sendError" /\ request[c] = "clean"
    => status[c] # "error"

\* Success means the server had the whole upload, ended cleanly, and every
\* response frame was handed over (upload.go 86-103).
SuccessIsWhole ==
  \A c \in Call : result[c] = "ok" =>
    sent[c] = Total /\ status[c] = "ok" /\ fed[c] = responses[c]

\* A call that has its stream returns, however it fails: in particular it does
\* not close the response of a request that never started.
UploadReturns == \A c \in Call : pc[c] = "sending" ~> pc[c] = "returned"

\* What the comment on the gate's stream wrapper says (backpressure.go
\* 130-131): the helpers always CloseResponse, which releases the slot.
SlotAlwaysReleased == \A c \in Call : pc[c] = "returned" => slot[c] # "held"
=============================================================================
