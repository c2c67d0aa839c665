------------------------------- MODULE Transfer -------------------------------
(***************************************************************************)
(* One call that moves files: the client sends the frames of its request, the    *)
(* server drains them before it works, answers, and ends; the client collects.   *)
(* Client methods and server handlers are tables written from two different      *)
(* sides of the code, and the call is where they have to agree.                *)
(*                                                                         *)
(* Either side makes its frames as it sends them, and the stream keeps their      *)
(* order: the frames in flight are those between the place where the sender is    *)
(* and the place where the receiver is.                                        *)
(*                                                                         *)
(* The server may end its answer early with a clean status, and either side may  *)
(* fail at any time.  What a failing upload does to its stream is the matter of  *)
(* GatedUpload; here such a call simply fails.                                *)
(***************************************************************************)
EXTENDS Requests

CONSTANT AnswerNames \* names the server gives the files of an answer

ASSUME TransferAssumption == AnswerNames # {}

Fake == INSTANCE Handlers

VARIABLES
  method,  \* the call's method
  ask,     \* what the caller passed; forgotten once the server works
  outcome, \* "new", "refused", "calling", "ok" or "error"
  sent,    \* where the client is in its request
  closed,  \* the request was half-closed
  taken,   \* where the server is in it
  got,     \* what the server received
  server,  \* "receiving", "accepted", "answering" or "ended"
  status,  \* "open", "ok", "invalid" or "error"
  meant,   \* the files of the whole answer
  given,   \* where the server is in its answer
  read,    \* where the client is in it
  held     \* what the client collected

vars == <<method, ask, outcome, sent, closed, taken, got, server, status, meant, given,
          read, held>>

clientVars == <<outcome, sent, closed, read, held>>
serverVars == <<taken, got, server, status, meant, given>>

Nothing == [files |-> <<>>, alternative |-> FALSE, ids |-> {}]

handler == Fake!HandlerTable[method]
kind == MethodTable[method].answer
request == RequestShape(method, ask)

------------------------------------------------------------------------------
(* Folding the request. *)

Received(h) ==
  [head |-> ~h.head, alternative |-> FALSE, ids |-> {}, last |-> FALSE,
   files |-> [a \in DOMAIN h.arms |-> <<>>]]

Sent(h, g, a) ==
  IF h.bytes THEN \E i \in DOMAIN g.files[a] : g.files[a][i].data # <<>> ELSE g.files[a] # <<>>

\* montage: a chunk that starts an asset carries an id of the timeline, a new one.
StartsAsset(g, f) ==
  /\ f.name[2] \in g.ids \ {NoName}
  /\ \A i \in DOMAIN g.files.asset : g.files.asset[i].name # f.name

\* The file the frame goes on with, or one after the last.
FileIndex(fold, files, f) ==
  LET n == Len(files) IN
  CASE fold = "single" -> 1
    [] fold = "byName" -> IF n > 0 /\ files[n].name = f.name THEN n ELSE n + 1
    [] fold = "byId" ->
         IF n > 0 /\ (f.name[2] = NoName \/ files[n].name = f.name) THEN n ELSE n + 1
    [] fold = "keyed" ->
         IF \E i \in 1 .. n : files[i].name = f.name
         THEN CHOOSE i \in 1 .. n : files[i].name = f.name
         ELSE n + 1

AppendChunk(files, i, f) ==
  IF i > Len(files) THEN Append(files, [name |-> f.name, data |-> f.data])
  ELSE [files EXCEPT ![i].data = @ \o f.data]

\* A frame the handler refuses.
Refused(h, g, f) ==
  IF f.arm = "head" THEN g.head
  ELSE \/ ~g.head
       \/ \E a \in h.arms[f.arm].after : ~Sent(h, g, a)
       \/ \E a \in h.arms[f.arm].before : Sent(h, g, a)
       \/ /\ h.arms[f.arm].fold = "byId"
          /\ FileIndex("byId", g.files[f.arm], f) > Len(g.files[f.arm])
          /\ ~StartsAsset(g, f)

Take(h, g, f) ==
  IF f.arm = "head"
  THEN [g EXCEPT !.head = TRUE, !.alternative = ask.alternative, !.ids = ask.ids]
  ELSE LET files == g.files[f.arm]
       IN [g EXCEPT !.last = @ \/ f.last,
                    !.files[f.arm] =
                       AppendChunk(files, FileIndex(h.arms[f.arm].fold, files, f), f)]

\* What the handler checks once the request is drained.
Complete(h, g) ==
  /\ g.head
  /\ \A a \in h.needs : g.files[a] # <<>>
  /\ \A a \in h.full : \A i \in DOMAIN g.files[a] : g.files[a][i].data # <<>>
  /\ \A a \in h.either : g.alternative \/ Sent(h, g, a)
  /\ \A a \in h.either : h.bytes /\ g.alternative => ~Sent(h, g, a)
  /\ h.ids => g.ids \subseteq {g.files.asset[i].name[2] : i \in DOMAIN g.files.asset}
  /\ h.last => g.last

------------------------------------------------------------------------------
(* The answer. *)

\* What comes in an answer: progress, metadata, files or rows, a result.
Stages(k) ==
  CASE k \in {"file", "images", "one", "listed"} -> <<"progress", "metadata", "file">>
    [] k = "result" -> <<"progress", "result">>
    [] k = "rows" -> <<"progress", "metadata", "row">>
    [] k = "counted" -> <<"progress", "row", "result">>
    [] k = "ended" -> <<"progress", "file", "result">>

AnswerShape(k, files) ==
  [s \in DOMAIN Stages(k) |->
     CASE Stages(k)[s] = "file" -> [i \in DOMAIN files |-> FramesIn(files[i].size)]
       [] Stages(k)[s] = "row" -> [i \in DOMAIN files |-> 1]
       [] OTHER -> <<1>>]

Frame(stage, name, size, count) ==
  [stage |-> stage, name |-> name, size |-> size, count |-> count]

\* Chunks repeat the file's name and its whole length; an empty file is one chunk.
\* Metadata and results say how many there are, where a method asks for it.
AnswerFrame(k, files, at) ==
  LET stage == Stages(k)[at.section]
      file == files[at.item]
  IN IF stage = "file"
     THEN Frame(stage, file.name, IF file.size = 0 THEN 0 ELSE 1, file.size)
     ELSE Frame(stage, NoName, 0, Len(files))

answer == AnswerShape(kind, meant)

AnswerFiles == [name : AnswerNames, size : 0 .. MaxChunks]

\* How many files an answer has, and that artifacts are kept apart by their kind.
Answers(k) ==
  CASE k \in {"file", "one"} -> [{1} -> AnswerFiles]
    [] k \in {"images", "listed"} -> BoundedSeq(AnswerFiles, MaxFiles)
    [] k = "result" -> {<<>>}
    [] k \in {"rows", "counted"} ->
         {[i \in 1 .. n |-> [name |-> NoName, size |-> 1]] : n \in 1 .. MaxChunks}
    [] k = "ended" ->
         {s \in BoundedSeq(AnswerFiles, MaxFiles) :
            \A i, j \in DOMAIN s : i # j => s[i].name # s[j].name}

------------------------------------------------------------------------------
(* Collecting. *)

NothingHeld ==
  [metadata |-> FALSE, count |-> 0, done |-> FALSE, rows |-> 0, wanted |-> 0, files |-> <<>>]

\* The rows of the matrix the caller passed: one to a slice.
RowsAsked ==
  IF "points" \in PartArms(method) /\ ask.files.points # <<>>
  THEN ask.files.points[1].chunks ELSE 0

\* FileCollector.Add: chunks are sorted by name, the first length declared counts.
Add(files, f) ==
  LET same == {i \in DOMAIN files : files[i].name = f.name} IN
  IF same = {} THEN Append(files, [name |-> f.name, expected |-> f.count, size |-> f.size])
  ELSE LET i == CHOOSE i \in same : TRUE
       IN [files EXCEPT ![i].size = @ + f.size,
                        ![i].expected = IF @ = 0 THEN f.count ELSE @]

Collect(h, f) ==
  CASE f.stage = "progress" -> h
    [] f.stage = "metadata" -> [h EXCEPT !.metadata = TRUE, !.count = f.count]
    [] f.stage = "result" -> [h EXCEPT !.done = TRUE, !.count = f.count]
    [] f.stage = "row" -> [h EXCEPT !.rows = @ + 1]
    [] f.stage = "file" -> [h EXCEPT !.files = Add(@, f)]

\* Mutant: what a file declared is not looked at.
NotChecked(h) == TRUE

\* FileCollector.Files: a file is as long as its chunks declared.
AsLongAsDeclared(h) ==
  \A i \in DOMAIN h.files : h.files[i].expected > 0 => h.files[i].size = h.files[i].expected

\* When each kind of method takes what it holds for an answer.
HasFile(h) == AsLongAsDeclared(h) /\ h.files # <<>>
HasImages(h) == AsLongAsDeclared(h)
HasOne(h) == AsLongAsDeclared(h) /\ h.metadata /\ Len(h.files) = 1
HasAsListed(h) == h.metadata /\ AsLongAsDeclared(h) /\ Len(h.files) = h.count
HasResult(h) == h.done
\* The rows of the embedding the metadata declared, or one label per point.
HasRows(h) ==
  h.metadata /\ h.rows = IF method = "ProjectUmap" THEN h.count ELSE h.wanted
HasAsCounted(h) == h.done /\ h.rows = h.count

Answered(h) ==
  CASE kind = "file" -> HasFile(h)
    [] kind = "images" -> HasImages(h)
    [] kind = "one" -> HasOne(h)
    [] kind = "listed" -> HasAsListed(h)
    [] kind \in {"result", "ended"} -> HasResult(h)
    [] kind = "rows" -> HasRows(h)
    [] kind = "counted" -> HasAsCounted(h)

------------------------------------------------------------------------------
\* Every answer begins with progress.
AnswerStart == [section |-> 1, item |-> 1, chunk |-> 1]

Init ==
  /\ method \in Methods
  /\ ask \in Asks(method)
  /\ outcome = "new" /\ closed = FALSE
  /\ sent = Start(request) /\ taken = Start(request)
  /\ got = Received(handler) /\ server = "receiving" /\ status = "open"
  /\ meant = <<>> /\ given = AnswerStart /\ read = AnswerStart /\ held = NothingHeld

(* The client. *)

\* What the local checks refuse never reaches the wire.
Begin ==
  /\ outcome = "new"
  /\ IF Passes(method, ask)
     THEN outcome' = "calling" /\ held' = [held EXCEPT !.wanted = RowsAsked]
     ELSE outcome' = "refused" /\ UNCHANGED held
  /\ UNCHANGED <<method, ask, sent, closed, read, serverVars>>

Sending == outcome = "calling" /\ ~closed /\ ~AtEnd(request, sent)

Send ==
  /\ Sending /\ status = "open"
  /\ sent' = After(request, sent)
  /\ UNCHANGED <<method, ask, outcome, closed, read, held, serverVars>>

\* Sending to a call the server ended fails, and with it the call.
SendSeesEnd ==
  /\ Sending /\ status # "open"
  /\ closed' = TRUE /\ outcome' = "error"
  /\ UNCHANGED <<method, ask, sent, read, held, serverVars>>

HalfClose ==
  /\ outcome = "calling" /\ ~closed /\ AtEnd(request, sent)
  /\ closed' = TRUE
  /\ UNCHANGED <<method, ask, outcome, sent, read, held, serverVars>>

ReceiveAnswer ==
  /\ outcome = "calling" /\ closed /\ read # given
  /\ read' = After(answer, read)
  /\ held' = Collect(held, AnswerFrame(kind, meant, read))
  /\ UNCHANGED <<method, ask, outcome, sent, closed, serverVars>>

\* The stream ended: the status decides, then what was collected.
ReceiveEnd ==
  /\ outcome = "calling" /\ closed /\ read = given /\ status # "open"
  /\ outcome' = IF status = "ok" /\ Answered(held) THEN "ok" ELSE "error"
  /\ UNCHANGED <<method, ask, sent, closed, read, held, serverVars>>

------------------------------------------------------------------------------
(* The server. *)

Receive ==
  /\ server = "receiving" /\ taken # sent /\ status = "open"
  /\ LET f == FrameAt(method, ask, taken) IN
     IF Refused(handler, got, f)
     THEN server' = "ended" /\ status' = "invalid" /\ UNCHANGED <<taken, got>>
     ELSE /\ got' = Take(handler, got, f) /\ taken' = After(request, taken)
          /\ UNCHANGED <<server, status>>
  /\ UNCHANGED <<method, ask, clientVars, meant, given>>

\* No work starts before the request was half-closed and found complete.
Drained ==
  /\ server = "receiving" /\ taken = sent /\ closed /\ status = "open"
  /\ IF Complete(handler, got)
     THEN server' = "accepted" /\ UNCHANGED status
     ELSE server' = "ended" /\ status' = "invalid"
  /\ UNCHANGED <<method, ask, clientVars, taken, got, meant, given>>

Respond ==
  /\ server = "accepted" /\ status = "open"
  /\ \E files \in Answers(kind) :
       /\ kind = "rows" => Len(files) = RowsAsked
       /\ meant' = files
  /\ server' = "answering"
  /\ ask' = Nothing /\ got' = Received(handler)
  /\ UNCHANGED <<method, clientVars, taken, status, given>>

Answer ==
  /\ server = "answering" /\ ~AtEnd(answer, given) /\ status = "open"
  /\ given' = After(answer, given)
  /\ UNCHANGED <<method, ask, clientVars, taken, got, server, status, meant>>

\* The handler returns when it has sent everything; a stream may also end early,
\* cleanly or not.
EndWhole ==
  /\ server = "answering" /\ AtEnd(answer, given) /\ status = "open"
  /\ server' = "ended" /\ status' = "ok"
  /\ UNCHANGED <<method, ask, clientVars, taken, got, meant, given>>

EndEarly ==
  /\ server = "answering" /\ ~AtEnd(answer, given) /\ status = "open"
  /\ server' = "ended" /\ status' = "ok"
  /\ UNCHANGED <<method, ask, clientVars, taken, got, meant, given>>

Fail ==
  /\ outcome = "calling" /\ status = "open"
  /\ server' = "ended" /\ status' = "error"
  /\ UNCHANGED <<method, ask, clientVars, taken, got, meant, given>>

Done == outcome \in {"refused", "ok", "error"} /\ UNCHANGED vars

Next ==
  \/ Begin \/ Send \/ SendSeesEnd \/ HalfClose \/ ReceiveAnswer \/ ReceiveEnd
  \/ Receive \/ Drained \/ Respond \/ Answer \/ EndWhole \/ EndEarly \/ Fail
  \/ Done

Spec == Init /\ [][Next]_vars

------------------------------------------------------------------------------
(* Properties. *)

\* Attachments are told apart by their ids alone.
IdsDistinct ==
  method = "CompleteWithAttachments" =>
    \A i, j \in DOMAIN ask.files.attachment :
      i # j => ask.files.attachment[i].name # ask.files.attachment[j].name

\* A request that passed the local checks reaches the handler as the caller meant
\* it: each file is there, whole, in its place, and none is run into another,
\* whatever their names and sizes; and the handler refuses it only for a file the
\* caller left empty where data is needed, never for the order, the names or the
\* number of the frames.
RequestArrivesAsMeant ==
  /\ server = "accepted" /\ IdsDistinct =>
       \A a \in PartArms(method) :
         [i \in DOMAIN got.files[a] |-> got.files[a][i].data] =
           [i \in DOMAIN ask.files[a] |-> [k \in 1 .. ask.files[a][i].chunks |-> <<i, k>>]]
  /\ status = "invalid" =>
       \/ \E a \in (handler.full \cup handler.either) \cap PartArms(method) :
            \E i \in DOMAIN ask.files[a] : ask.files[a][i].chunks = 0
       \/ "points" \in PartArms(method) /\ ask.files.points = <<>>

\* A call that succeeds hands over exactly what the server meant to answer, in the
\* order it sent it: no file cut short, lost, or run into one of the same name.
\* A painter call only promises that every image it returns is one of them, whole.
AnswerIsWhole ==
  outcome = "ok" =>
    LET returned == [i \in DOMAIN held.files |->
                       [name |-> held.files[i].name, size |-> held.files[i].size]]
    IN CASE kind = "images" -> \A i \in DOMAIN returned : \E j \in DOMAIN meant : returned[i] = meant[j]
         [] kind \in {"rows", "counted"} -> held.rows = Len(meant)
         [] OTHER -> returned = meant
=============================================================================
