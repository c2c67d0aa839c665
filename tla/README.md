# TLA+ models of rootpuller-sdk

This directory holds TLA+ models of the Go SDK for rootpuller-api, the TLC
configurations that check them on small instances, and TLAPS proofs of what
holds for every instance. Paths below are relative to the repository (`src/`).

Contents: [the system](#the-system), [modules](#modules-and-the-code-they-model),
[runs](#runs), [fairness](#fairness), [proofs](#proofs),
[divergences](#where-code-and-documentation-part), [what is left out](#not-modelled),
[plan](#plan).

## The system

The SDK is a client library: one `Client` (`rootpuller.go`) with a connect-go
transport, and a dozen and a half service packages on top. Most of a call is
conversion between Go structs and protobuf messages; what can go wrong in ways a
unit test hardly reaches is in the parts that calls *share*, in those that last longer
than a function call, and in the agreement of two sides that are written apart.

| Component | State it keeps | Operations | Interacts with | What makes it correct |
|---|---|---|---|---|
| Backpressure gate, `internal/transport/backpressure.go` | advertised limit, effective concurrency, slots in use, success count, last decrease, end of the shed pause, shed streak; a mutex and a condition variable | `acquire`, `release`, `observe`, `shed`, `clearSheds`; an interceptor that wraps unary calls and streams | every call of the services that share it; the server through trailers and `RESOURCE_EXHAUSTED` | slots are counted exactly; never more admissions than the capacity in force; no lost wakeups; concurrency between 1 and the ceiling; a burst of sheds counts once; pauses only grow, and end; cancelled callers get out |
| Retry interceptor, `internal/transport/retry.go` | attempt, interval, last error, elapsed time | the loop around one unary call | wraps whatever comes after it in the chain; server hints | the budget is kept, a retry backs off, the last failure is reported, cancellation ends a wait |
| Auth interceptor, `internal/transport/auth.go` | none | fetch a token per call; fail the stream when there is none | sits outside the service's gate | a failed token must not look like a healthy stream |
| Headers, `internal/transport/headers.go`, `context.go` | context values | pick the value of each metadata header | every call | an explicit context value wins over a service default |
| HTTP/2 transport and CONNECT tunnel, `internal/transport/{h2c,proxy}.go` | the connection being set up, a watcher goroutine | `Dial`, `ConnectTunnel` | net/http, the proxy | a tunnel handed over is open and loses no byte read ahead; a cancelled dial returns |
| Chunked upload, `internal/streamio/upload.go` | the stream, whether it was started, frames sent; files being reassembled | `UploadCollect`, `FileChunkFrames`, `Frames`, `FileCollector` | the gate through `CloseResponse`; a dozen services | a partial upload is reset and not processed; the server's status is reported; a started stream gives its slot back |
| Server-stream iterator, `internal/streamio/eventseq.go` | whether a terminal frame was seen | `EventSeq` | five services | a stream without its terminal frame is an error; the stream gets closed |
| Fetch session, `webcontent/session.go` | map of calls by correlation id, session error, a bounded channel per call, a receive goroutine, `sendMu` | `OpenSession`, `FetchEvents`, `Fetch`, `Close`, `recvLoop` | concurrent callers; one bidirectional stream | each call gets its own frames in order, the session's error last; every call ends; `Close` returns |
| Live transcription, `escriba/live.go` | bounded event channel, result, error, close-once, `sendMu`, a receive goroutine | `OpenLive`, `Send`, `CloseSend`, `Events`, `Result`, `Err`, `Close` | a speaker, a consumer, closers; one full-duplex stream | events once and in order, one outcome, no silent end, no goroutine stuck |
| Crawl, extract, fetch, `webcontent/{scrape,client}.go` | pages under assembly by page id | `Crawl`, `CrawlPages`, `MapURLs`, `ExtractContent`, `Fetch` | `EventSeq`, `UploadCollect` | a page is yielded once, when it is complete |
| Uploading services: assetia, bgremover, facefixer, unshakaler, painter, montage, video, composer, voice, vectorops, escriba recordings, completion attachments | the answer under assembly | one call each | `UploadCollect`, or a connect client stream of their own | the request arrives as it was meant; a truncated answer is an error |
| Unary services: chef, chunker, decision, rerank, search, embedding | none | one call each | the interceptor chain | validation before the call |
| Error model, `internal/apierr`, `internal/transport/errors.go` | none | `WrapError`, `IsTransient` | all of the above | classification, the retry hint |
| Test doubles, `rootpullertest` | what the fake received | one handler per method, strict about the wire protocol | the clients above | they refuse what the server would refuse |
| Generated code, `internal/gen` | | | | |

The interceptors are chained headers, auth, retry, otel, the user's own, and last the service's
gate (a service appends it to the client's options). So a retried attempt acquires the
gate again; and since a stream is built from the inside out, the gate has
admitted it by the time the token is fetched.

The hard behaviours: goroutines around a mutex, a condition variable and
`context.AfterFunc`; feedback applied in several critical sections after the
slot was given back; cancellation in every one of those places; streams that
fail half-way in either direction; bounded channels between a receive goroutine
and consumers that may leave; iterators that are broken off, or never ranged over; time-outs, retries
and their budget. `PROJECT.json` lists them one by one, at their lines, with the properties that cover them.

## Modules and the code they model

`map` in `PROJECT.json` names the lines of each definition. Operators whose
comment calls them a *mutant* belong to no specification: each is a
plausible bug, there to show that a property notices it. The modules `MC...` hold
the definitions that the configurations need.

| Layer | Modules | Abstract specification | Proofs |
|---|---|---|---|
| shared by calls | `BackpressureGate` | `AdmissionGate` | `BackpressureGateProofs` |
| one unary call | `Retry`, composed in `CallChain` | `CallChain` refines `Retry` | `RetryProofs` |
| one connection | `Tunnel` | | `TunnelProofs` |
| uploads | `GatedUpload` | | `GatedUploadProofs` |
| server streams | `ServerStream` | `Delivery` | `ServerStreamProofs` |
| long-lived sessions | `FetchSession`, `LiveSession` | | `FetchSessionProofs`, `LiveSessionProofs` |
| client against server | `Requests` with `Framing`, `Handlers`, composed in `Transfer` | | `TransferProofs` |

### `BackpressureGate`

A set of concurrent `Call`s over the shared gate. One action is one critical section
of `g.mu`, or one unlocked step others can observe; `pc[c]` is where the call's
goroutine is in between.

| `pc` | code | actions |
|---|---|---|
| `idle` | outside the interceptor | `Begin` |
| `check`, `sleep` | `acquire`'s pause loop, `sleepCtx` | `CheckPause`, `SleepOver`, `SleepCancelled` |
| `enter`, `woken`, `wait` | `acquire`'s slot loop: first pass, after a broadcast, in `notFull.Wait` | `Admit`, `Block`, `AcquireFails`, `Cancel`, `AfterFunc` |
| `call` | `next`, or an open stream | `ReleaseUnary`, `ReleaseStream` |
| `observe`, `clear` | `observe`, `clearSheds` | `Observe` (with `Decrease`, `CountSuccess`, `Grow`), `ClearSheds` |
| `shed`, `delay`, `pause` | the three critical sections of `shed` | `ShedDecrease`, `ShedDelay`, `PauseUntil` (with `Trip`) |

`notFull.Broadcast` makes every `wait` call `woken`; a woken call looks at the
condition again. `Tick` moves time for the pause, the cooldown and sleepers.
Two data abstractions, both exact, are explained at the top of the module: the
fractional concurrency is its integer part, and times are relative to now.

`AdmissionGate` is the promise: a resizable counting semaphore. The gate
implements it with `held` the calls in `call` and `capacity` the effective concurrency.

### `Retry` and `CallChain`

`Retry` is the loop around one unary call. `FailTransiently`, `FailForGood` and `Succeed` are
the three ways `next` returns; `Panic`, `GiveUp` and `StartWait` are the jitter, the
budget check and the select; `Fire` and `Cancelled` are its two arms. Durations
wrap at `MaxInt` as int64 does, so the doubling of the interval and the sum of the jitter are
checked at their limits; the clock and the lateness of a timer are explicit.

`CallChain` composes it as `rootpuller.go` does: the token once and outside (`FetchToken`), then the
loop, and for every attempt the service's gate around the transport. `acquire` keeps its steps: the pause is looked at
and slept out (`Sleep`, `PassPause`), and not looked at again while the call waits for a slot (`Wait`, `Admit`,
`AcquireFails`). An attempt ends in `Succeeds`, `Fails` or `Shed`; a shed moves the gate's pause out
(`ShedDelays`, `Extend`) and may carry a hint, which the loop knows of only if it came in the error's details. The gate is
reduced to its capacity and its pause, other calls to the slots they hold and the pauses they cause.

- `ShedHintWaitedOut`: whatever the loop's jitter makes of a hint, the attempt is not repeated before the hint is over. It takes
  the loop, the gate's pause and other calls' sheds together to keep that.
- `CancelledCallReturns`: a call whose context ends returns from wherever it waits but the token source, which `bearer` asks
  without the context (`auth.go:56-57`).
- `ChainKeepsLoop` is the refinement: the chain takes no step that the loop does not take.

### `Tunnel`

One dial through a proxy: the dialling goroutine (`pc`), the goroutine that watches the
dial's context (`watcher`, whose select takes either arm when both are ready), the proxy, and
the bytes behind its answer, which the buffered reader may take in and
`bufferedConn.Read` hands out first.

### `GatedUpload`

Uploads that compete for the slots of a gate. `style` chooses the code: `collect`
is `UploadCollect`, `save` is `voice.Save`, `clientStream` is `assetia.ProbeMedia` and `escriba.Transcribe`,
`attachments` is `completion.CompleteWithAttachments`. `Open` is the gate's admission and
the token together; `Send`, `SendFails`, `SendSeesEnd`, `ReadFails` are the
outcomes of one frame, `HalfClose` and `HalfCloseFails` those of the half-close; `Leave`, `Abandon` and `CloseAndReceive` the ways out; the
server works on a request once it has been ended cleanly. What connect does (starting
the request with the first send, blocking in `CloseResponse` of a request that
never started, `io.EOF` for an ended call) is taken from how `src/` uses it.

### `ServerStream` and `Delivery`

`EventSeq` and what hands it out: `FetchURL`, `Crawl`, `CrawlPages`, `MapURLs`, `EmbedStream`, by the `kind` of a
call. `Open` is the call itself (a gated stream takes its slot there), `RangeOver` starts the
loop, `Receive`, `ReceiveBad` and `ReceiveEnd` are the ways round it, `Resume` and `Break` the caller's
body, `Close` the deferred close, `Drop` a caller that never ranges. For `CrawlPages`, `Fold` and
`PageOf` are the pages under assembly and the page yielded at its terminal frame.

`Delivery` is the promise: frames in order and each once, then one verdict, and the answer is taken for
whole only if the server ended well, nothing is left, and the terminal frame that is owed came.

### `FetchSession`

Concurrent `FetchEvents` calls over one stream. A call is registered (`Register`),
its instruction sent (`Send`), its iterator ranged over (`RangeOver`, `Take`,
`SeeClosed`, `YieldSessionError`, `Cancelled`) and unregistered (`Finish`). `Receive`,
`Route`, `RouteGone` and `ReceiveEnd` are the receive loop: the lookup under the lock and the
push after it are separate steps, and the push blocks when the channel is full.
The server (after `rootpullertest/scrape.go`) answers instructions concurrently and
may time out idle sessions or break.

### `LiveSession`

One full-duplex transcription: speakers and closers compete for `sendMu`,
which is held while a `Send` blocks on a full stream; the receive loop pushes
into a bounded event channel; a consumer ranges, breaks off, is cancelled, comes
back. The server (after `rootpullertest/escriba.go`) does not read while it sends.

### `Requests`, `Handlers`, `Transfer`

`Requests` is a table of the 29 client methods that move files or matrices: the parts of
their request in order, how many files each part takes, what is refused
locally (`Passes`), how an answer is read; and the frame at each place of the request (`FrameAt`: `HeadFrame` or a
`ChunkFrame`, with the look-ahead of `extractFrames` in `SaysLast`). `Handlers` is the table of what the test doubles' handlers
accept, written from *their*
source: which arm must come after or before which, how chunks are folded into files, what must be there at the
end. `Transfer` is one call: any method, anything a caller may pass, a
server that drains the request before it works, answers, and ends; and the client's `FileCollector`
(`Add`, `AsLongAsDeclared`) with each method's own test of the whole (`HasFile` to `HasAsCounted`). Data is
abstracted to which chunk of which file a frame carries. The doubles stand for the real server, whose
protocol they claim to enforce; the server itself is in another repository.

The code makes frames one at a time, from Go iterators on one side and from loops over files on the other. So the model holds no
queues of frames but places in their order: `Framing` says which place comes `After` which, over the sections of a stream
(the sequences that `Frames` chains), the files of a section and the chunks of a file. `sent` and `taken` are where the client and the handler
are in the request, `given` and `read` where the handler and the client are in the answer; what lies between is in flight.

## Runs

| Run | Question | Distinct states |
|---|---|---|
| `gate_safety` | three calls: slot accounting, wakeups, refinement of `AdmissionGate` | 1.15 M |
| `gate_timing` | two calls and longer delays: ceiling, breaker, one cut per cooldown; pauses end, cancelled calls get out, the gate keeps serving | 216 k |
| `chain` | token, retry loop with wrapping durations, and gate, beside other calls that shed and hold slots | 1.41 M |
| `upload` | two uploads, one gated and one of any style, over one slot | 114 k |
| `upload_slot_doc` | *violation*: a stream whose first send fails keeps its slot | |
| `session` | two fetches on a session, with `Close` and failures | 83 k |
| `session_lazy` | *violation*: an iterator nobody ranges over blocks `Close` | |
| `live` | a speaker, two closers, a consumer that comes and goes | 67 k |
| `live_break` | *violation*: a consumer that broke off blocks `Close` | |
| `stream` | each kind of server stream by itself, and two gated ones over one slot | 411 k |
| `tunnel` | a dial, its watcher, and a proxy that does anything | 173 |
| `transfer` | every method that moves files, against its handler | 58 k |

Why the bounds are enough for what the properties ask:

- *Gate.* Three calls are the least with one in, one waiting and one releasing or cancelled at
  the same time, and with a seed of 2 and an advertised limit of 1 the ceiling shrinks
  under held slots. `gate_timing` gives the delays different lengths (cooldown <
  holdoff, pause cap) and an advertised limit below the seed; a streak of two trips the
  breaker. Calls are symmetric in the safety run; the one with liveness uses no symmetry. The streak saturates where no comparison can tell
  (`StreakCap`).
- *Chain.* `MaxInt = 7` puts the wrap at the third doubling, within five attempts; the hints are none, one below and one at the
  limit of 3/2; `MaxTime` lies beyond the budget plus the lateness, so that a late retry happens. The cap on a shed's delay (`MaxShedDelay`) lies
  between the two hints, the gate's own delay (`Pauses`) below it and the breaker's above, so that a later shed may ask for less than an earlier one. Two slots let other calls hold
  none, one or all of what is left.
- *Upload.* One slot and two calls make a lost slot visible to somebody; two frames
  are an opening frame and one payload frame, so a truncated upload exists; one response frame suffices for a
  stream that fails before or after it.
- *Sessions.* Buffers and wires one deep fill at once, which is what the 16- and
  32-deep channels do after that many frames; three frames per
  instruction (two events before Complete) overfill buffer, wire and the loop's hand together. Two calls interleave
  in the routing.
- *Streams.* Calls share nothing but the gate, so the others are checked one at a time. Two pages and four
  frames are the least in which pages interleave and an id comes back after its terminal frame.
- *Tunnel.* Three bytes can be split between the reader and the connection in every way, with one that comes later.
- *Transfer.* Files of no, one and two chunks; up to two files where many are allowed, with the
  same name, with different ones and with none, which is what the folds tell apart; ids that match the
  files, miss one or add one. Any number of frames
  may be in flight, so a refusal can overtake frames under way.

Deadlock is checked in the gate's runs, because calls can always begin again, and in `transfer`, where a call that is
over may only stutter. In the other modules every call ends and the system then legitimately stops, hence
`CHECK_DEADLOCK FALSE`; that nobody is stuck before that is what their liveness properties say.

## Fairness

- *Gate* (`Fairness`): weak fairness for the steps of a goroutine in the gate, for `AfterFunc`s and for
  time; strong fairness for the context arm of `sleepCtx`, whose guard goes
  off and on again as the caller re-checks the pause. None for `Begin`,
  `Cancel` or the end of a call. So `GateServes` assumes that someone keeps
  asking, and that callers stop giving up.
- *Chain*: the call's own goroutine in `acquire` and between attempts, and a transport that
  returns once its context is done. Not the token source, which takes no context and may hang; not the other calls, not the clock.
- *Upload*: the client's own steps, and a server that ends every request that was half-closed or reset. Not
  admission, so `UploadReturns` starts at a call that has its stream.
- *Sessions* (`Progress`): runnable goroutines run; the server works on what it received. `FairSpec` also
  has consumers that range: in a fetch session they range over every iterator they asked for, in
  a live session they keep coming back to `Events`. The violation runs drop just that (`LazySpec`, `BreakingSpec`): both
  the comments and the API allow it, and `Close` is then stuck.
- *Streams*: callers range over what they asked for and their loops go on, servers end what they began; strong
  fairness for `Open`, since the free slot may be taken by another call first. `EveryCallReturns` excludes
  a dropped `EmbedStream`, which keeps its slot.
- *Tunnel*: the two goroutines. The proxy may stay silent for ever, and the context need not end.
- *Transfer*: none; it has safety properties only.

## Proofs

All proofs hold for any values of the constants that the modules' `ASSUME`s allow: any set of calls (finite for the
gate), any buffer sizes, any numbers the server sends. Each module's type
invariant is a theorem (`TypeCorrect`) instead of a run's invariant.

`BackpressureGateProofs`, with timing constants for which `Cooldown <= GrowHoldoff` as in the code:

- `SlotsAccounted`: `inFlight` is the number of holders. Inductive with typing; the step
  that needs care is a release, whose guard against going below zero is shown never to apply.
- `OverloadDrains`: only `Admit` adds a slot, and its guard says there is room; one lemma (`SlotSteps`) sorts every step into an entry, a departure or neither.
- `EffectiveBounded`: `1 <= effective <= Ceiling`, where the ceiling itself moves. Needs
  that an adopted limit is positive.
- `WakeupsNotLost` and `CancelHeard`: inductive with typing; the first needs that every step that frees or
  adds a slot broadcasts, the clamp included, in which the broadcast may not be skipped when the integer part shrinks.
- `OneCut`: within a cooldown of the last halving the concurrency falls only to a lower advertised ceiling or by the breaker. An action
  property; it needs `Cooldown <= GrowHoldoff`, so that in a cooldown nothing else moves the value either (`CooldownHolds`).
- `BreakerHolds`: inductive with typing. The exemption of calls between two critical sections is what
  makes it so: every call that can leave it violated is still one of them (`ApplyingSteps`).
- `PausesBounded`: the shared pause and every sleep in `acquire` stay below `MaxShedDelay` with its jitter or `BreakerCooldown`, whichever is
  longer. The invariant needs both the pause and the sleepers' timers, since a sleeper copies the pause.
- `GateKeepsPromise`: the refinement of `AdmissionGate`. Each step maps to `Enter`, `Leave`,
  `Resize` or a stutter, with `SlotsAccounted` to turn the guard on the counter into one on the set.

`RetryProofs`: `LastFailureTold` and `PanicExplained` hold for any configuration, by the invariant
`IInv` that ties the reported error to the current attempt. `NoPanic`, `BudgetKept` and `BackoffKept`
assume `DelaysFit`: no hint, and no delay that the attempts can double to, exceeds
two thirds of the largest duration. That assumption is needed: the `chain` run reaches the panic without it,
and the code does too, after some thirty-five doublings of a short interval whose
waits are kept short by hints. (The run's constants let the schedule wrap, but not the sum of the jitter, which past two thirds of the
largest duration would make a wait negative: there neither `BudgetKept` nor `BackoffKept` is claimed.) `BudgetKept` and `BackoffKept` rest on an invariant about the timer that is armed: it is due no earlier than half its
delay after the failure, and no later than the budget. `ChainKeepsLoop` shows that every step of `CallChain` is a
step of the loop or leaves it alone, which carries those results over to the chain (`ChainTellsLastFailure`, `ChainKeepsBudget`);
`HintWaitedOut` follows from `HintKept`: as long as the call has not passed the gate's pause, the pause ends no earlier than the hint; from then
on the clock has passed it. It needs that a shed's delay is at least the hint or its cap (`ShedDelayBounds`) and that the pause only ever
moves out (`ExtendMovesOut`), and holds whether or not the delays fit.

`TunnelProofs`: `BytesInOrder` needs that nothing was read ahead before the hand-over (`NothingAheadYet`);
`ClosedWithCause` that a connection is closed by the watcher or after a failure (`ClosedBy`).

`GatedUploadProofs`: one invariant per call (`CallInv`) ties `pc`, the result, what was sent, the request's end and the slot.
`NoTruncatedWork`, `SlotReturned`, `StatusTold` and `SuccessWhole` follow; calls touch each
other only through the admission, so each step is looked at for one call.

`ServerStreamProofs`: the invariant is that the stream of a loop is open while it is used (`OpenWhileUsed`) and that a verdict fits
what was seen (`VerdictFits`). `PromiseKept` maps each step to one of `Delivery` or a stutter. `PagesWhole` is about the pages of a crawl: the invariant `Assembling` says what `CrawlPages`
keeps between two frames. What is in store for a page are its frames since its last terminal one (`Stored`), each terminal frame so far gave a
page (`EachYielded`) that has what was gathered for it (`AllFit`), and pages follow the order of those frames (`InTurn`).

`FetchSessionProofs`: the frames of a call are numbered, and the invariant says that what its iterator yielded, its channel, the loop's
hand, the wire and the server's next number are consecutive. `InOrder` follows; `ErrorLast` and `NothingLost` add how a
session ends: what has been routed by then, and what a clean end leaves behind.

`LiveSessionProofs`: what was yielded and what is buffered are a prefix of what the server sent (`Delivered`), the loop holds the next one
(`Held`), the wire what follows (`Coming`), and the server goes on from there (`Speaking`). `EventsOnceInOrder`, `EndIsTold` and `OutcomeKept` follow.

`TransferProofs`, for any names, any number of files and chunks, and all 29 methods:

- *Places.* `After` walks the places of a shape in order and reaches every one; how much of a section lies before a place
  (`Reached`) grows by one chunk, one item, or not at all. These lemmas replace an induction over lists of frames: the state says where
  a side is, and each step of a proof looks at the one frame at that place.
- `AnswerWhole` rests on `AnswerInv` (`Answering`). The client reads behind the server (`ReadBehind`); what it counted is what the server meant to
  send (`Counted`); and what it collected of the files is what it has read (`FilesHeld`): one entry for each name that has come
  (`OneToAName`), with the length that a file of the name declares (`EachDeclared`); and where there are as many entries as files have begun,
  each of them is that file as far as it was read (`EachAsReceived`). So the test of the declared length fails a file that was cut short, and
  the tests of the number (`HasOne`, `HasAsListed`) fail one that never came or ran into another.
- `RequestArrives` rests on `RequestInv`. What the handler has received is exactly what was sent up to the place `taken` (`PartsTaken`: `Arrived` gives the
  files of a part at that place), for each of the four ways a handler folds chunks into files. That no frame is refused (`NoneRefused`) and that the drained request is
  found complete (`FoundComplete`) follows from what the two tables have to agree on, `Agree`: every part has an arm whose fold tells apart
  what the client's names tell apart (`ArmsFit`); what a handler wants before an arm is an earlier part (`OrderFits`); what it needs in the end the
  client insists on (`EndFits`). That they do is proved method by method (`TablesAgree`).

Model-checked only: everything about liveness (`PauseEnds`, `CancelledAcquireReturns`, `GateServes`,
`CancelledCallReturns`, `UploadReturns`, `CloseReturns`, `EveryFetchEnds`, `SendNeverSticks`, `EventsTerminates`, `EveryCallReturns`,
`CancelledDialReturns`, `WatcherGoes`), which is out of the prover's
reach here, and the violation runs. Every other property of a run is a theorem.

## Where code and documentation part

Shown by runs (`findings` in `PROJECT.json`):

1. `upload_slot_doc`: a gated stream whose first `Send` fails keeps its slot for good.
2. `session_lazy`: a `FetchEvents` iterator that is never ranged over keeps `Session.Close` from returning.
3. `live_break`: breaking out of `Events` can keep `LiveSession.Close` from returning.

Seen while modelling, without a run of their own:

- A pause holds back only calls that have not passed the check yet: it is read once, before the slot loop, so a call on the
  condition variable is admitted in the middle of a pause, where the field's comment (`backpressure.go:64-66`) has admissions held.
- A pause may exceed `maxShedDelay`, which "caps any pause" (`backpressure.go:36-37`): the jitter of up to a fifth is added after the cap (208-212).
  `PausesBounded` states the bound that holds.
- A stream that ends in any error but `RESOURCE_EXHAUSTED` clears the shed streak (`backpressure.go:172-177`), which
  the field's comment (46-47) ties to successes.
- `assetia.ProbeMedia`, `escriba.Transcribe` and an attachment over the limit half-close an incomplete upload, which the server may then
  process; `upload.go:27-30` says that an upload that fails part-way must never end the request cleanly. They do not use that helper, and
  `TruncatedNeverProcessed` is about those that do, and `voice.Save`.
- `completion.checkAttachments` compares sets of ids: an id passed twice goes through and the server appends the second
  attachment to the first (`completion/client.go:287-319`). `RequestArrivesAsMeant` excludes it.
- `painter.buildResult` knows no number of images: an answer that ends early but cleanly between two files is
  returned with fewer. `AnswerIsWhole` asks less of painter calls.
- `FetchEvents` racing `Close` may return a wrapped `io.EOF` from the send (`session.go:202`) where the docs name
  `ErrSessionClosed` (45-46). Ranging over its iterator twice closes a channel twice.
- A retry waits between a half and three halves of the server's hint (`retry.go:55`), though the interceptor is said to honor it (28-29).
  Behind a gate the hint of a shed is waited out all the same, up to `maxShedDelay` (`ShedHintWaitedOut`); services without a gate come back early.
  The budget is looked at between attempts only, so the gate's pause counts towards it but does not end with it.
- A rejected `OpenLive` surfaces through `Events`, not as its error (`live.go:57-58`, 79). The branch for a stream that ends without an error
  when there is a result already is unreachable: the loop has returned by then.
- `bearer` calls `Token()` without the context (`auth.go:56-57`): a token source that hangs keeps a call whose context has ended.
- A context that ends in a retry's wait or in `acquire` comes back as an error whose code is unknown.
- `EmbedStream` opens its stream eagerly and closes it only if it is ranged over (`embedding/client.go:143-152`).
- A tunnel may be closed right after it was handed over, when the dial's context ends just as the response arrives: the watcher's
  select may take either arm. net/http then sees a connection that fails.

## Not modelled

- *Generated code* (`internal/gen`): accessors, descriptors and stubs, about two thirds of the repository's lines and so the
  reason why the mapped share of all lines is small. It has no behaviour of its own.
- *Conversions* between Go and protobuf values, option structs, validation of single options, error texts: no state, nothing for a
  property to relate.
- *Headers and context values*: a pure function of the context and a default.
- *Error model*: a classification; the models carry the classes it tells apart.
- *Unary services*: they add nothing to the chain that `CallChain` models.
- *connect, net/http, otel*: only as the modules above describe how the SDK uses them.
- *The fakes of unary services* in `rootpullertest`.

`PROJECT.json` has the status of every part.

## Plan

Done: the gate, the retry loop and the chain around it, the uploads, the server streams with the crawl, both sessions, the tunnel, the
requests and answers of the services that move files; refinements for the gate, the chain and the streams; proofs of every safety
property the runs check.

Worth doing next, in this order:

1. The bound of a call's wait through `CallChain`: how long all pauses and waits of one call can add up to.
2. `Framing` under `GatedUpload`, so that what a server may process of an upload that failed half-way is said in files instead of frames.
3. A table of the capability calls.
