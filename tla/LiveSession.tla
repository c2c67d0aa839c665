----------------------------- MODULE LiveSession -----------------------------
(***************************************************************************)
(* escriba/live.go: one full-duplex transcription stream.  Speakers call      *)
(* Send under sendMu, a receive loop turns response frames into events on a   *)
(* bounded channel, one consumer ranges over Events, and any goroutine may    *)
(* Close.  The stream to the server holds a bounded number of frames each     *)
(* way, so a Send blocks, holding sendMu, while the server does not read.     *)
(*                                                                          *)
(* The server is one goroutine (rootpullertest/escriba.go): it reads audio,   *)
(* and does not read while its own Send is blocked.  It may answer before     *)
(* the half-close, end the stream without Complete, or fail.                  *)
(***************************************************************************)
EXTENDS Naturals, Sequences

CONSTANTS
  Speaker,     \* goroutines that call Send
  Closer,      \* goroutines that call Close
  EventBuffer, \* capacity of l.events (32 in the code)
  UpSize,      \* request frames the transport holds
  WireSize,    \* response frames the transport holds
  MaxAudio,    \* bound: frames one speaker sends
  MaxEvents    \* bound: frames the server sends before Complete

ASSUME LiveAssumption ==
  /\ EventBuffer \in Nat \ {0} /\ UpSize \in Nat \ {0} /\ WireSize \in Nat \ {0}
  /\ MaxAudio \in Nat /\ MaxEvents \in Nat
  /\ Speaker \intersect Closer = {} /\ "free" \notin Speaker \union Closer

VARIABLES
  session,    \* OpenLive: "new", "open" or "refused"
  sendMu,     \* who holds it: a speaker, a closer or "free"
  audio,      \* frames each speaker has handed to Send
  closer,     \* Close of each closer: "idle", "closing", "waiting", "returned"
  halfClosed, \* sendClose has run CloseRequest
  recv,       \* recvLoop: "receive", "push", "exit", "closed" (events), "done" (recvDone)
  held,       \* the frame recvLoop is pushing
  events,     \* l.events
  result,     \* l.result # nil
  err,        \* l.err
  consumer,   \* "idle" or "ranging" over Events
  finish,     \* how the last range ended
  got,        \* the frames Events has yielded, over all ranges
  up,         \* request frames the server has not read
  wire,       \* response frames recvLoop has not received
  server,     \* "config", "reading", "sending", "eof" or "error"
  emitted,    \* response frames sent
  decodable   \* those of them eventFromProto understands

sendVars == <<session, sendMu, audio, closer, halfClosed>>
recvVars == <<recv, held, events, result, err>>
consumerVars == <<consumer, finish, got>>
serverVars == <<up, wire, server, emitted, decodable>>
vars == <<sendVars, recvVars, consumerVars, serverVars>>

Frame == [n : 0 .. MaxEvents + 1, kind : {"event", "complete", "unknown", "error"}]
NoFrame == [n |-> 0, kind |-> "none"]
Told(s) == \E i \in DOMAIN s : s[i].kind \in {"complete", "error"}
StreamEnded == server \in {"eof", "error"}
RecvDone == recv = "done"

Init ==
  /\ session = "new" /\ sendMu = "free" /\ audio = [s \in Speaker |-> 0]
  /\ closer = [c \in Closer |-> "idle"] /\ halfClosed = FALSE
  /\ recv = "receive" /\ held = NoFrame /\ events = <<>> /\ result = FALSE /\ err = "none"
  /\ consumer = "idle" /\ finish = "none" /\ got = <<>>
  /\ up = 0 /\ wire = <<>> /\ server = "config" /\ emitted = 0 /\ decodable = 0

-----------------------------------------------------------------------------
(* OpenLive *)

\* The config frame goes out and the receive loop starts.
OpenLive ==
  /\ session = "new"
  /\ server # "error"
  /\ session' = "open"
  /\ up' = 1
  /\ UNCHANGED <<sendMu, audio, closer, halfClosed, recvVars, consumerVars,
                 wire, server, emitted, decodable>>

\* The config cannot be sent: both directions are closed, no session.
OpenFails ==
  /\ session = "new"
  /\ server = "error"
  /\ session' = "refused"
  /\ halfClosed' = TRUE
  /\ UNCHANGED <<sendMu, audio, closer, recvVars, consumerVars, serverVars>>

-----------------------------------------------------------------------------
(* Send *)

SendLock(s) ==
  /\ session = "open" /\ audio[s] < MaxAudio
  /\ sendMu = "free"
  /\ sendMu' = s
  /\ UNCHANGED <<session, audio, closer, halfClosed, recvVars, consumerVars, serverVars>>

\* stream.Send returns: the frame is out, or (io.EOF, or the stream's error)
\* the request is closed or the stream over.
SendReturns(s) ==
  /\ sendMu = s
  /\ \/ ~halfClosed /\ ~StreamEnded /\ up < UpSize /\ up' = up + 1
     \/ (halfClosed \/ StreamEnded) /\ up' = up
  /\ sendMu' = "free"
  /\ audio' = [audio EXCEPT ![s] = @ + 1]
  /\ UNCHANGED <<session, closer, halfClosed, recvVars, consumerVars,
                 wire, server, emitted, decodable>>

-----------------------------------------------------------------------------
(* CloseSend and Close *)

\* The speaker has finished: CloseRequest, once.
CloseSend ==
  /\ session = "open" /\ ~halfClosed
  /\ sendMu = "free"
  /\ halfClosed' = TRUE
  /\ UNCHANGED <<session, sendMu, audio, closer, recvVars, consumerVars, serverVars>>

CloseLock(c) ==
  /\ session = "open" /\ closer[c] = "idle"
  /\ sendMu = "free"
  /\ sendMu' = c
  /\ closer' = [closer EXCEPT ![c] = "closing"]
  /\ UNCHANGED <<session, audio, halfClosed, recvVars, consumerVars, serverVars>>

CloseHalf(c) ==
  /\ closer[c] = "closing"
  /\ halfClosed' = TRUE
  /\ sendMu' = "free"
  /\ closer' = [closer EXCEPT ![c] = "waiting"]
  /\ UNCHANGED <<session, audio, recvVars, consumerVars, serverVars>>

CloseReturn(c) ==
  /\ closer[c] = "waiting"
  /\ RecvDone
  /\ closer' = [closer EXCEPT ![c] = "returned"]
  /\ UNCHANGED <<session, sendMu, audio, halfClosed, recvVars, consumerVars, serverVars>>

-----------------------------------------------------------------------------
(* recvLoop *)

\* Mutant: the terminal transcript is not kept for Result.
ForgetComplete(f) == UNCHANGED result

KeepComplete(f) == result' = (result \/ f.kind = "complete")

\* A frame arrives; one that is not understood is skipped.
Receive ==
  /\ session = "open" /\ recv = "receive"
  /\ wire # <<>>
  /\ wire' = Tail(wire)
  /\ IF Head(wire).kind = "unknown"
     THEN UNCHANGED <<recv, held, result>>
     ELSE recv' = "push" /\ held' = Head(wire) /\ KeepComplete(Head(wire))
  /\ UNCHANGED <<events, err, sendVars, consumerVars, up, server, emitted, decodable>>

\* Mutant: a failure is recorded for Err but not put on the channel.
FailQuietly(why) ==
  /\ err' = why
  /\ recv' = "exit"
  /\ UNCHANGED held

Fail(why) ==
  /\ err' = why
  /\ recv' = "push"
  /\ held' = [n |-> 0, kind |-> "error"]

\* io.EOF is a clean end only when Complete was received before it.
ReceiveEnd ==
  /\ session = "open" /\ recv = "receive"
  /\ wire = <<>> /\ StreamEnded
  /\ IF server = "eof" /\ result
     THEN recv' = "exit" /\ UNCHANGED <<held, err>>
     ELSE Fail(IF server = "eof" THEN "missingTerminal" ELSE "failed")
  /\ UNCHANGED <<events, result, sendVars, consumerVars, serverVars>>

\* Mutant: a full channel does not block the loop, the frame is dropped.
PushOrDrop ==
  /\ recv = "push"
  /\ events' = IF Len(events) < EventBuffer THEN Append(events, held) ELSE events
  /\ recv' = IF held.kind = "event" THEN "receive" ELSE "exit"
  /\ held' = NoFrame
  /\ UNCHANGED <<result, err, sendVars, consumerVars, serverVars>>

\* Mutant: the push goes to a channel that was never made.
PushToNobody == FALSE

\* The frame is pushed when there is room; after a terminal one the loop ends.
Push ==
  /\ recv = "push"
  /\ Len(events) < EventBuffer
  /\ events' = Append(events, held)
  /\ recv' = IF held.kind = "event" THEN "receive" ELSE "exit"
  /\ held' = NoFrame
  /\ UNCHANGED <<result, err, sendVars, consumerVars, serverVars>>

\* Mutant: recvDone is not closed.
LoopLeaves ==
  /\ recv = "exit" /\ recv' = "closed"
  /\ UNCHANGED <<held, events, result, err, sendVars, consumerVars, serverVars>>

\* The deferred close(l.events), then close(l.recvDone).
LoopReturns ==
  /\ \/ recv = "exit" /\ recv' = "closed"
     \/ recv = "closed" /\ recv' = "done"
  /\ UNCHANGED <<held, events, result, err, sendVars, consumerVars, serverVars>>

-----------------------------------------------------------------------------
(* Events *)

RangeOver ==
  /\ session = "open" /\ consumer = "idle"
  /\ consumer' = "ranging"
  /\ finish' = "none"
  /\ UNCHANGED <<got, sendVars, recvVars, serverVars>>

\* An event is yielded; Complete and errors end the range, and so may the
\* caller, by breaking out of its loop.
Take ==
  /\ consumer = "ranging"
  /\ events # <<>>
  /\ events' = Tail(events)
  /\ got' = Append(got, Head(events))
  /\ \/ Head(events).kind = "event" /\ UNCHANGED <<consumer, finish>>
     \/ consumer' = "idle"
        /\ finish' = IF Head(events).kind = "event" THEN "break" ELSE Head(events).kind
  /\ UNCHANGED <<recv, held, result, err, sendVars, serverVars>>

\* The channel is closed and drained.
SeeClosed ==
  /\ consumer = "ranging"
  /\ events = <<>> /\ recv \in {"closed", "done"}
  /\ consumer' = "idle"
  /\ finish' = "closed"
  /\ UNCHANGED <<got, sendVars, recvVars, serverVars>>

\* The context passed to Events ends.
Cancelled ==
  /\ consumer = "ranging"
  /\ consumer' = "idle"
  /\ finish' = "cancelled"
  /\ UNCHANGED <<got, sendVars, recvVars, serverVars>>

-----------------------------------------------------------------------------
(* The server *)

\* The config frame is read and accepted, or rejected with a status.
ReadConfig ==
  /\ server = "config" /\ up > 0
  /\ up' = up - 1
  /\ server' \in {"reading", "error"}
  /\ UNCHANGED <<wire, emitted, decodable, sendVars, recvVars, consumerVars>>

ReadAudio ==
  /\ server = "reading" /\ up > 0
  /\ up' = up - 1
  /\ UNCHANGED <<wire, server, emitted, decodable, sendVars, recvVars, consumerVars>>

\* It has something to say: no reading until that is sent.
StartSend ==
  /\ server = "reading"
  /\ server' = "sending"
  /\ UNCHANGED <<up, wire, emitted, decodable, sendVars, recvVars, consumerVars>>

\* An event, or Complete, which ends the stream.
Emit ==
  /\ server = "sending"
  /\ Len(wire) < WireSize
  /\ \E kind \in {"event", "unknown", "complete"} :
       /\ emitted = MaxEvents => kind = "complete"
       /\ emitted' = emitted + 1
       /\ decodable' = IF kind = "unknown" THEN decodable ELSE decodable + 1
       /\ wire' = Append(wire, [n |-> decodable', kind |-> kind])
       /\ server' = IF kind = "complete" THEN "eof" ELSE "reading"
  /\ UNCHANGED <<up, sendVars, recvVars, consumerVars>>

\* The stream ends without Complete.
EndEarly ==
  /\ server = "reading"
  /\ server' = "eof"
  /\ UNCHANGED <<up, wire, emitted, decodable, sendVars, recvVars, consumerVars>>

\* The stream breaks; frames in flight may be lost with it.
Break ==
  /\ ~StreamEnded
  /\ server' = "error"
  /\ \E k \in 0 .. Len(wire) : wire' = SubSeq(wire, 1, k)
  /\ UNCHANGED <<up, emitted, decodable, sendVars, recvVars, consumerVars>>

-----------------------------------------------------------------------------
SendStep(s) == SendLock(s) \/ SendReturns(s)
CloseStep(c) == CloseHalf(c) \/ CloseReturn(c)
RecvStep == Receive \/ ReceiveEnd \/ Push \/ LoopReturns
ConsumerStep == Take \/ SeeClosed
ServerStep == ReadConfig \/ ReadAudio \/ Emit

Next ==
  \/ OpenLive \/ OpenFails \/ CloseSend
  \/ \E s \in Speaker : SendStep(s)
  \/ \E c \in Closer : CloseLock(c) \/ CloseStep(c)
  \/ RecvStep \/ RangeOver \/ ConsumerStep \/ Cancelled
  \/ ServerStep \/ StartSend \/ EndEarly \/ Break

Spec == Init /\ [][Next]_vars

\* Goroutines that can run do, sendMu is fair, and the server works on what it
\* received and answers a half-closed request.
Progress ==
  /\ WF_vars(RecvStep) /\ WF_vars(ServerStep)
  /\ WF_vars(halfClosed /\ up = 0 /\ StartSend)
  /\ \A s \in Speaker : WF_vars(SendReturns(s))
  /\ \A c \in Closer : WF_vars(CloseStep(c))

\* A consumer that keeps coming back to Events.
KeepsRanging == WF_vars(RangeOver) /\ SF_vars(ConsumerStep)

FairSpec == Spec /\ Progress /\ KeepsRanging

\* A consumer that ranges over Events and may break out of it for good.
BreakingSpec == Spec /\ Progress /\ SF_vars(ConsumerStep) /\ WF_vars(finish = "none" /\ RangeOver)

-----------------------------------------------------------------------------
(* Properties *)

TypeOK ==
  /\ session \in {"new", "open", "refused"}
  /\ sendMu \in Speaker \union Closer \union {"free"}
  /\ audio \in [Speaker -> 0 .. MaxAudio]
  /\ closer \in [Closer -> {"idle", "closing", "waiting", "returned"}]
  /\ halfClosed \in BOOLEAN
  /\ recv \in {"receive", "push", "exit", "closed", "done"}
  /\ held \in Frame \union {NoFrame}
  /\ events \in Seq(Frame) /\ Len(events) <= EventBuffer
  /\ result \in BOOLEAN
  /\ err \in {"none", "missingTerminal", "failed"}
  /\ consumer \in {"idle", "ranging"}
  /\ finish \in {"none", "break", "complete", "error", "closed", "cancelled"}
  /\ got \in Seq(Frame)
  /\ up \in 0 .. UpSize
  /\ wire \in Seq(Frame) /\ Len(wire) <= WireSize
  /\ server \in {"config", "reading", "sending", "eof", "error"}
  /\ emitted \in 0 .. MaxEvents + 1 /\ decodable \in 0 .. emitted

\* Over any number of ranges, broken off or cancelled, the consumer sees every
\* event once and in order, and nothing after the one that ended the session
\* (Events 157-187, recvLoop 240-256).
EventsInOrder ==
  \A i \in DOMAIN got :
    /\ got[i].kind # "error" => got[i].n = i
    /\ got[i].kind # "event" => i = Len(got)

\* A range that ends because the channel is closed has nothing left to tell:
\* Complete or the failure was yielded before (217-236).
NoSilentEnd == finish = "closed" => Told(got)

\* Once Complete has been yielded Result returns it and Err is nil; once an
\* error has, Err returns it and Result reports none (189-195, 211-216).
OutcomeIsKept ==
  \A i \in DOMAIN got :
    /\ got[i].kind = "complete" => result /\ err = "none"
    /\ got[i].kind = "error" => ~result /\ err # "none"

\* A session is over for every Close that was called.
CloseReturns == \A c \in Closer : closer[c] = "waiting" ~> closer[c] = "returned"

\* A speaker is not left blocked in Send, and with it sendMu (104-127).
SendNeverSticks == \A s \in Speaker : sendMu = s ~> sendMu # s

\* Events always terminates (218-219) when the speaker has finished.
EventsTerminates == halfClosed /\ session = "open" ~> Told(got)
=============================================================================
