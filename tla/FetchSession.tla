---------------------------- MODULE FetchSession ----------------------------
(***************************************************************************)
(* webcontent/session.go: one ScrapeService/FetchSession stream shared by    *)
(* concurrent Fetch/FetchEvents calls.  A single receive loop routes every   *)
(* response frame to the call registered under its correlation id, through   *)
(* a bounded channel; Close half-closes and waits for that loop.             *)
(*                                                                          *)
(* A call is its own correlation id (8 random bytes, taken to be unique).    *)
(* The map s.calls is the set of calls between register and unregister, and  *)
(* call.gone is closed exactly when unregister has run, so both follow from  *)
(* pc.  The server side is the one of rootpullertest/scrape.go: one goroutine *)
(* per instruction, frames of different instructions interleaved.           *)
(***************************************************************************)
EXTENDS Naturals, Sequences

CONSTANTS
  Call,         \* the FetchEvents calls made on the session
  BufferSize,   \* capacity of sessionCall.frames (16 in the code)
  WireSize,     \* frames the transport holds before the server's Send blocks
  MaxFrames     \* bound: frames the server sends for one instruction

ASSUME BoundsAssumption ==
  BufferSize \in Nat \ {0} /\ WireSize \in Nat \ {0} /\ MaxFrames \in Nat \ {0}

VARIABLES
  pc,         \* where each call stands
  frames,     \* sessionCall.frames, the routed frames not yet taken
  got,        \* what each call's iterator has yielded
  result,     \* how each call ended
  sessErr,    \* s.err; s.closed is closed as soon as it is set
  recv,       \* "receive", "route" or "done" (recvDone is closed)
  held,       \* the frame the receive loop is routing
  closer,     \* Close: "open", "closing", "closed"
  halfClosed, \* CloseRequest has been called
  job,        \* server: "none", "sent", "running" or "answered" per instruction
  emitted,    \* server: frames sent per instruction
  wire,       \* frames in flight to the client
  ended       \* how the server's side ended: "no", "eof", "error"

clientVars == <<pc, frames, got, result, sessErr, recv, held, closer, halfClosed>>
serverVars == <<job, emitted, wire, ended>>
vars == <<clientVars, serverVars>>

NoFrame == [id |-> "none", n |-> 0, terminal |-> FALSE]
Frame == [id : Call, n : 1 .. MaxFrames, terminal : BOOLEAN]

Live == {"sending", "ready", "ranging", "draining"}
EndedBy == {"none", "refused", "sendFailed", "terminal", "break", "session", "cancelled"}

\* Mutant: a call is registered by its iterator, not before the send.
RegisteredWhenRanged(c) == pc[c] \in {"ranging", "draining"}

\* c is in s.calls / c's gone channel is closed.
Registered(c) == pc[c] \in Live
Gone(c) == pc[c] = "done"

Init ==
  /\ pc = [c \in Call |-> "idle"]
  /\ frames = [c \in Call |-> <<>>]
  /\ got = [c \in Call |-> <<>>]
  /\ result = [c \in Call |-> "none"]
  /\ sessErr = "none"
  /\ recv = "receive"
  /\ held = NoFrame
  /\ closer = "open"
  /\ halfClosed = FALSE
  /\ job = [c \in Call |-> "none"]
  /\ emitted = [c \in Call |-> 0]
  /\ wire = <<>>
  /\ ended = "no"

-----------------------------------------------------------------------------
(* FetchEvents *)

\* c's iterator (or FetchEvents itself) is over: unregister, once registered.
Finish(c, how) ==
  /\ pc' = [pc EXCEPT ![c] = "done"]
  /\ result' = [result EXCEPT ![c] = how]

\* The session has already failed: FetchEvents returns its error.
Refuse(c) ==
  /\ pc[c] = "idle"
  /\ sessErr # "none"
  /\ Finish(c, "refused")
  /\ UNCHANGED <<frames, got, sessErr, recv, held, closer, halfClosed, serverVars>>

\* The session looks healthy: register under a fresh correlation id.
Register(c) ==
  /\ pc[c] = "idle"
  /\ sessErr = "none"
  /\ pc' = [pc EXCEPT ![c] = "sending"]
  /\ UNCHANGED <<frames, got, result, sessErr, recv, held, closer, halfClosed, serverVars>>

\* The instruction goes out under sendMu; the iterator is returned.
Send(c) ==
  /\ pc[c] = "sending"
  /\ ~halfClosed /\ ended = "no"
  /\ pc' = [pc EXCEPT ![c] = "ready"]
  /\ job' = [job EXCEPT ![c] = "sent"]
  /\ UNCHANGED <<frames, got, result, sessErr, recv, held, closer, halfClosed, emitted, wire, ended>>

\* Send fails with io.EOF (half-closed or ended) or the stream's error.
SendFails(c) ==
  /\ pc[c] = "sending"
  /\ halfClosed \/ ended # "no"
  /\ Finish(c, "sendFailed")
  /\ UNCHANGED <<frames, got, sessErr, recv, held, closer, halfClosed, serverVars>>

\* The caller starts ranging over the iterator.
RangeOver(c) ==
  /\ pc[c] = "ready"
  /\ pc' = [pc EXCEPT ![c] = "ranging"]
  /\ UNCHANGED <<frames, got, result, sessErr, recv, held, closer, halfClosed, serverVars>>

\* Mutant: once the session is closed its error is yielded at once.
DrainNothing(c) == TRUE

\* yieldAfterClose yields the error only when nothing is buffered any more.
Drained(c) == frames[c] = <<>>

\* A routed frame is yielded; the iterator ends with a terminal frame, and
\* whenever the consumer breaks out of its loop.
Take(c) ==
  /\ pc[c] \in {"ranging", "draining"}
  /\ frames[c] # <<>>
  /\ frames' = [frames EXCEPT ![c] = Tail(@)]
  /\ got' = [got EXCEPT ![c] = Append(@, Head(frames[c]))]
  /\ \/ Head(frames[c]).terminal /\ Finish(c, "terminal")
     \/ ~Head(frames[c]).terminal /\ UNCHANGED <<pc, result>>
     \/ ~Head(frames[c]).terminal /\ Finish(c, "break")
  /\ UNCHANGED <<sessErr, recv, held, closer, halfClosed, serverVars>>

\* The select picks s.closed: drain what was routed before the failure.
SeeClosed(c) ==
  /\ pc[c] = "ranging"
  /\ sessErr # "none"
  /\ pc' = [pc EXCEPT ![c] = "draining"]
  /\ UNCHANGED <<frames, got, result, sessErr, recv, held, closer, halfClosed, serverVars>>

YieldSessionError(c) ==
  /\ pc[c] = "draining"
  /\ Drained(c)
  /\ Finish(c, "session")
  /\ UNCHANGED <<frames, got, sessErr, recv, held, closer, halfClosed, serverVars>>

\* The fetch's own context ends.
Cancelled(c) ==
  /\ pc[c] = "ranging"
  /\ Finish(c, "cancelled")
  /\ UNCHANGED <<frames, got, sessErr, recv, held, closer, halfClosed, serverVars>>

-----------------------------------------------------------------------------
(* recvLoop *)

\* A frame arrives and its call is looked up; unknown ids are dropped.
Receive ==
  /\ recv = "receive"
  /\ wire # <<>>
  /\ wire' = Tail(wire)
  /\ IF Registered(Head(wire).id)
     THEN recv' = "route" /\ held' = Head(wire)
     ELSE UNCHANGED <<recv, held>>
  /\ UNCHANGED <<pc, frames, got, result, sessErr, closer, halfClosed, job, emitted, ended>>

\* Mutants: a full buffer loses the frame; the loop waits for a caller that has
\* gone.
RouteOrDrop ==
  /\ recv = "route"
  /\ frames' = IF Len(frames[held.id]) < BufferSize
               THEN [frames EXCEPT ![held.id] = Append(@, held)] ELSE frames
  /\ recv' = "receive"
  /\ held' = NoFrame
  /\ UNCHANGED <<pc, got, result, sessErr, closer, halfClosed, serverVars>>
RouteToNobody == FALSE

\* The select's first arm: the channel has room.
Route ==
  /\ recv = "route"
  /\ Len(frames[held.id]) < BufferSize
  /\ frames' = [frames EXCEPT ![held.id] = Append(@, held)]
  /\ recv' = "receive"
  /\ held' = NoFrame
  /\ UNCHANGED <<pc, got, result, sessErr, closer, halfClosed, serverVars>>

\* The second arm: the caller stopped listening.
RouteGone ==
  /\ recv = "route"
  /\ Gone(held.id)
  /\ recv' = "receive"
  /\ held' = NoFrame
  /\ UNCHANGED <<pc, frames, got, result, sessErr, closer, halfClosed, serverVars>>

\* Mutant: a clean end of the stream is not taken for a failure.
FailOnErrorOnly == sessErr' = IF ended = "eof" THEN sessErr ELSE "failed"

\* fail: the stream's end becomes the session's error and closes s.closed.
Fail == sessErr' = IF ended = "eof" THEN "closed" ELSE "failed"

\* Receive returns io.EOF or an error: the loop is over.
ReceiveEnd ==
  /\ recv = "receive"
  /\ wire = <<>>
  /\ ended # "no"
  /\ Fail
  /\ recv' = "done"
  /\ UNCHANGED <<pc, frames, got, result, held, closer, halfClosed, serverVars>>

-----------------------------------------------------------------------------
(* Close *)

HalfClose ==
  /\ closer = "open"
  /\ closer' = "closing"
  /\ halfClosed' = TRUE
  /\ UNCHANGED <<pc, frames, got, result, sessErr, recv, held, serverVars>>

CloseDone ==
  /\ closer = "closing"
  /\ recv = "done"
  /\ closer' = "closed"
  /\ UNCHANGED <<pc, frames, got, result, sessErr, recv, held, halfClosed, serverVars>>

-----------------------------------------------------------------------------
(* The server *)

\* An instruction is received: a goroutine of its own answers it.
StartJob(c) ==
  /\ ended = "no"
  /\ job[c] = "sent"
  /\ job' = [job EXCEPT ![c] = "running"]
  /\ UNCHANGED <<emitted, wire, ended, clientVars>>

\* It sends its next frame; the last one is terminal.
Emit(c) ==
  /\ ended = "no"
  /\ job[c] = "running"
  /\ Len(wire) < WireSize
  /\ emitted' = [emitted EXCEPT ![c] = @ + 1]
  /\ \E last \in {l \in BOOLEAN : emitted[c] + 1 = MaxFrames => l} :
       /\ wire' = Append(wire, [id |-> c, n |-> emitted[c] + 1, terminal |-> last])
       /\ job' = [job EXCEPT ![c] = IF last THEN "answered" ELSE "running"]
  /\ UNCHANGED <<ended, clientVars>>

\* The half-close was received after every instruction before it, and every
\* goroutine is done: the stream ends.
EndStream ==
  /\ ended = "no"
  /\ halfClosed
  /\ \A c \in Call : job[c] \notin {"sent", "running"}
  /\ ended' = "eof"
  /\ UNCHANGED <<job, emitted, wire, clientVars>>

\* The idle timeout: the server ends the stream with nothing running.
IdleOut ==
  /\ ended = "no"
  /\ \A c \in Call : job[c] # "running"
  /\ ended' = "eof"
  /\ UNCHANGED <<job, emitted, wire, clientVars>>

\* The stream breaks; frames in flight may be lost with it.
Break ==
  /\ ended = "no"
  /\ ended' = "error"
  /\ \E k \in 0 .. Len(wire) : wire' = SubSeq(wire, 1, k)
  /\ UNCHANGED <<job, emitted, clientVars>>

-----------------------------------------------------------------------------
FetchStep(c) == Refuse(c) \/ Register(c) \/ Send(c) \/ SendFails(c)
RangeStep(c) == RangeOver(c) \/ Take(c) \/ SeeClosed(c) \/ YieldSessionError(c)
RecvStep == Receive \/ Route \/ RouteGone \/ ReceiveEnd

Next ==
  \/ \E c \in Call : FetchStep(c) \/ RangeStep(c) \/ Cancelled(c) \/ StartJob(c) \/ Emit(c)
  \/ RecvStep \/ HalfClose \/ CloseDone \/ EndStream \/ IdleOut \/ Break

Spec == Init /\ [][Next]_vars

\* Goroutines that can run do, and the server answers what it received.  Idle
\* timeouts, failures, cancellations and calling Close are up to others.
Progress ==
  /\ WF_vars(RecvStep) /\ WF_vars(CloseDone) /\ WF_vars(EndStream)
  /\ \A c \in Call : /\ WF_vars(Send(c) \/ SendFails(c))
                     /\ WF_vars(StartJob(c)) /\ SF_vars(Emit(c))

\* Callers range over the iterators they asked for, and keep going.
Ranging == \A c \in Call : WF_vars(RangeStep(c))

FairSpec == Spec /\ Progress /\ Ranging

\* Callers that may drop an iterator, but not in the middle of a step.
LazySpec == Spec /\ Progress

-----------------------------------------------------------------------------
(* Properties *)

TypeOK ==
  /\ pc \in [Call -> {"idle", "done"} \union Live]
  /\ frames \in [Call -> Seq(Frame)] /\ \A c \in Call : Len(frames[c]) <= BufferSize
  /\ got \in [Call -> Seq(Frame)]
  /\ result \in [Call -> EndedBy]
  /\ sessErr \in {"none", "closed", "failed"}
  /\ recv \in {"receive", "route", "done"}
  /\ held \in Frame \union {NoFrame}
  /\ closer \in {"open", "closing", "closed"}
  /\ halfClosed \in BOOLEAN
  /\ job \in [Call -> {"none", "sent", "running", "answered"}]
  /\ emitted \in [Call -> 0 .. MaxFrames]
  /\ wire \in Seq(Frame) /\ Len(wire) <= WireSize
  /\ ended \in {"no", "eof", "error"}

\* Every call sees its own frames only, all of them in the order the server
\* sent them, and none after the terminal one (recvLoop 253-286).
OwnFramesInOrder ==
  \A c \in Call : \A i \in DOMAIN got[c] :
    /\ got[c][i].id = c /\ got[c][i].n = i
    /\ got[c][i].terminal => i = Len(got[c]) /\ result[c] = "terminal"

\* A call is told that the session is gone only after everything that was
\* routed to it before (yieldAfterClose 320-340).
SessionErrorComesLast ==
  \A c \in Call : result[c] = "session" =>
    frames[c] = <<>> /\ \A i \in DOMAIN got[c] : ~got[c][i].terminal

\* On a session that ended cleanly no answer gets lost: a call whose
\* instruction was answered does not come back with the session's error
\* (register 300-311 before Send, routing before fail).
CleanEndLosesNothing ==
  \A c \in Call : ended = "eof" /\ job[c] = "answered" => result[c] # "session"

\* Close comes back when callers range over their iterators, even if they stop
\* early: the receive loop is never stuck on a call that is gone (281-284).
CloseReturns == closer = "closing" ~> closer = "closed"

\* Every fetch ends, whatever the others do and however the stream ends.
EveryFetchEnds == \A c \in Call : pc[c] \in Live ~> pc[c] = "done"
=============================================================================
