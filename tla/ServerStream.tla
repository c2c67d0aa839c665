----------------------------- MODULE ServerStream -----------------------------
(***************************************************************************)
(* Server streams as iterators: internal/streamio/eventseq.go and the calls    *)
(* that hand it out.  A call's kind is                                        *)
(*   "fetch"  webcontent.FetchURL (and Fetch, which ranges over it);           *)
(*   "crawl"  webcontent.Crawl;                                               *)
(*   "pages"  webcontent.CrawlPages, which ranges over Crawl and buffers;      *)
(*   "map"    webcontent.MapURLs, which ranges by itself;                     *)
(*   "embed"  embedding.EmbedStream, the one that goes through a gate.         *)
(* All but "pages" open their stream when they are called; only ranging over   *)
(* the iterator closes it.  Of the gate only its slots are left.              *)
(***************************************************************************)
EXTENDS Naturals, Sequences, FiniteSets

CONSTANTS
  Call,     \* calls
  Mixes,    \* which calls are made together, each with its kind
  Page,     \* page ids of a crawl
  NoPage,   \* the page of a frame that is about none
  Slots,    \* effective concurrency of the gate
  MaxFrames \* bound, per kind: frames the server sends for a call

Eager == {"fetch", "crawl", "map", "embed"}
Crawls == {"crawl", "pages"}
AllKinds == Eager \union Crawls

ASSUME StreamAssumption ==
  /\ \A mix \in Mixes : \E made \in SUBSET Call : mix \in [made -> AllKinds]
  /\ NoPage \notin Page
  /\ Slots \in Nat \ {0} /\ MaxFrames \in [AllKinds -> Nat]

VARIABLES
  kind,
  pc,       \* "idle", "opened" (the iterator exists), "ranging", "yielding"
            \* (in the caller's loop body), "closing", "returned", "dropped"
  open,     \* the stream is open
  slot,     \* "none", "held" or "released"
  ctxDone,  \* the caller's context has ended
  seen,     \* frames received
  terminal, \* sawTerminal
  verdict,  \* how the iteration ended
  pending,  \* CrawlPages: per page, the frames folded into its result so far
  pages,    \* CrawlPages: the pages yielded
  offered,  \* the frames the server sent
  status    \* how it ended: "open", "ok" or "error"

clientVars == <<kind, pc, open, slot, ctxDone, seen, terminal, verdict, pending, pages>>
serverVars == <<offered, status>>
vars == <<clientVars, serverVars>>

-----------------------------------------------------------------------------
Frame == [page : Page \union {NoPage}, is : {"event", "done", "error", "unknown"}]

\* The arms of each response, by what the client makes of them.  "event" of no
\* page is a progress, metadata, artifact, batch or result frame.
FetchUrlFrames == [page : {NoPage}, is : {"event", "done", "error", "unknown"}]
CrawlFrames == [page : Page, is : {"event", "done", "error"}]
                 \union [page : {NoPage}, is : {"event", "unknown"}]
MapFrames == [page : {NoPage}, is : {"event", "done", "unknown"}]
EmbedFrames == [page : {NoPage}, is : {"event"}]
FramesOf(k) ==
  IF k = "fetch" THEN FetchUrlFrames
  ELSE IF k \in Crawls THEN CrawlFrames
  ELSE IF k = "map" THEN MapFrames ELSE EmbedFrames

\* The calls that pass ErrMissingTerminal.
OwesTerminal(k) == k \in {"fetch", "map"}
IsTerminal(k, f) == OwesTerminal(k) /\ f.is = "done"

\* convert fails: an unknown arm, or the error frame of a fetch.
ConvertFails(k, f) == f.is = "unknown" \/ (k = "fetch" /\ f.is = "error")

Closes(f) == f.page # NoPage /\ f.is \in {"done", "error"}

\* A call that is not made counts as returned.
Init ==
  /\ \E mix \in Mixes :
       /\ kind = [c \in Call |-> IF c \in DOMAIN mix THEN mix[c] ELSE "map"]
       /\ pc = [c \in Call |-> IF c \in DOMAIN mix THEN "idle" ELSE "returned"]
  /\ open = [c \in Call |-> FALSE]
  /\ slot = [c \in Call |-> "none"]
  /\ ctxDone = [c \in Call |-> FALSE]
  /\ seen = [c \in Call |-> 0]
  /\ terminal = [c \in Call |-> FALSE]
  /\ verdict = [c \in Call |-> "none"]
  /\ pending = [c \in Call |-> [p \in Page |-> {}]]
  /\ pages = [c \in Call |-> <<>>]
  /\ offered = [c \in Call |-> <<>>]
  /\ status = [c \in Call |-> "open"]

-----------------------------------------------------------------------------
(* Opening *)

Free == Cardinality({d \in Call : slot[d] = "held"}) < Slots

\* The stream is opened by the call itself; a gated one waits for a slot.
Open(c) ==
  /\ pc[c] = "idle" /\ kind[c] \in Eager
  /\ kind[c] = "embed" => Free
  /\ slot' = [slot EXCEPT ![c] = IF kind[c] = "embed" THEN "held" ELSE @]
  /\ open' = [open EXCEPT ![c] = TRUE]
  /\ pc' = [pc EXCEPT ![c] = IF kind[c] = "map" THEN "ranging" ELSE "opened"]
  /\ UNCHANGED <<kind, ctxDone, seen, terminal, verdict, pending, pages, serverVars>>

\* It cannot be opened: the context ended, or the token could not be fetched
\* (connect then closes the stream, which gives the slot back).
OpenFails(c) ==
  /\ \/ pc[c] = "idle" /\ kind[c] \in Eager
     \/ pc[c] = "opened" /\ kind[c] = "pages"
  /\ verdict' = [verdict EXCEPT ![c] = "failed"]
  /\ pc' = [pc EXCEPT ![c] = "returned"]
  /\ UNCHANGED <<kind, open, slot, ctxDone, seen, terminal, pending, pages, serverVars>>

\* CrawlPages opens nothing until it is ranged over.
Ask(c) ==
  /\ pc[c] = "idle" /\ kind[c] = "pages"
  /\ pc' = [pc EXCEPT ![c] = "opened"]
  /\ UNCHANGED <<kind, open, slot, ctxDone, seen, terminal, verdict, pending, pages, serverVars>>

RangeOver(c) ==
  /\ pc[c] = "opened"
  /\ pc' = [pc EXCEPT ![c] = "ranging"]
  /\ open' = [open EXCEPT ![c] = TRUE]
  /\ UNCHANGED <<kind, slot, ctxDone, seen, terminal, verdict, pending, pages, serverVars>>

\* The caller never looks at the iterator: whatever was opened stays open.
Drop(c) ==
  /\ pc[c] = "opened"
  /\ pc' = [pc EXCEPT ![c] = "dropped"]
  /\ UNCHANGED <<kind, open, slot, ctxDone, seen, terminal, verdict, pending, pages, serverVars>>

-----------------------------------------------------------------------------
(* The loop *)

\* Mutant: a loop that is broken off returns without closing.
EndUnclosed(c, v) ==
  /\ verdict' = [verdict EXCEPT ![c] = v]
  /\ pc' = [pc EXCEPT ![c] = IF v = "left" THEN "returned" ELSE "closing"]

\* The loop is left; the deferred Close comes next.
End(c, v) ==
  /\ verdict' = [verdict EXCEPT ![c] = v]
  /\ pc' = [pc EXCEPT ![c] = "closing"]

\* Mutant: the result of a page is not taken out when the page is yielded.
FoldKeeping(c, f, i) ==
  IF f.page = NoPage THEN pending[c]
  ELSE IF f.is = "error" THEN [pending[c] EXCEPT ![f.page] = {}]
  ELSE [pending[c] EXCEPT ![f.page] = @ \union {i}]

\* CrawlPages' body: a page frame is folded into the page's result, and a
\* terminal one takes the result out; a failed page's is dropped.
Fold(c, f, i) ==
  IF f.page = NoPage THEN pending[c]
  ELSE IF Closes(f) THEN [pending[c] EXCEPT ![f.page] = {}]
  ELSE [pending[c] EXCEPT ![f.page] = @ \union {i}]

PageOf(c, f, i) ==
  [page |-> f.page, at |-> i, ok |-> f.is = "done",
   parts |-> IF f.is = "done" THEN pending[c][f.page] \union {i} ELSE {}]

\* What is yielded to the caller: every frame, the finished pages of
\* CrawlPages, nothing in MapURLs.
Yields(c, f) == CASE kind[c] = "pages" -> Closes(f)
                  [] kind[c] = "map" -> FALSE
                  [] OTHER -> TRUE

Receive(c) ==
  LET i == seen[c] + 1
      f == offered[c][i] IN
  /\ pc[c] = "ranging" /\ seen[c] < Len(offered[c])
  /\ ~ConvertFails(kind[c], f)
  /\ seen' = [seen EXCEPT ![c] = i]
  /\ terminal' = [terminal EXCEPT ![c] = @ \/ IsTerminal(kind[c], f)]
  /\ pc' = [pc EXCEPT ![c] = IF Yields(c, f) THEN "yielding" ELSE "ranging"]
  /\ IF kind[c] = "pages"
     THEN /\ pending' = [pending EXCEPT ![c] = Fold(c, f, i)]
          /\ pages' = [pages EXCEPT ![c] = IF Closes(f) THEN Append(@, PageOf(c, f, i)) ELSE @]
     ELSE UNCHANGED <<pending, pages>>
  /\ UNCHANGED <<kind, open, slot, ctxDone, verdict, serverVars>>

\* convert fails: its error is the last thing yielded.
ReceiveBad(c) ==
  /\ pc[c] = "ranging" /\ seen[c] < Len(offered[c])
  /\ ConvertFails(kind[c], offered[c][seen[c] + 1])
  /\ End(c, "content")
  /\ UNCHANGED <<kind, open, slot, ctxDone, seen, terminal, pending, pages, serverVars>>

\* Mutant: the iterator stops at its terminal frame without asking how the
\* stream ended.
EndsWhenSealed(c) == terminal[c] \/ status[c] = "ok"

\* stream.Err() is nil.
EndsWell(c) == status[c] = "ok"

\* The stream is over: with an error (the context's, at any time), without its
\* terminal frame, or whole.
ReceiveEnd(c) ==
  /\ pc[c] = "ranging"
  /\ \/ ctxDone[c] /\ End(c, "failed")
     \/ /\ seen[c] = Len(offered[c]) /\ status[c] # "open"
        /\ End(c, IF ~EndsWell(c) THEN "failed"
                  ELSE IF OwesTerminal(kind[c]) /\ ~terminal[c] THEN "missing" ELSE "whole")
  /\ UNCHANGED <<kind, open, slot, ctxDone, seen, terminal, pending, pages, serverVars>>

\* The caller's loop body ends: it asks for more, or breaks out.
Resume(c) ==
  /\ pc[c] = "yielding"
  /\ pc' = [pc EXCEPT ![c] = "ranging"]
  /\ UNCHANGED <<kind, open, slot, ctxDone, seen, terminal, verdict, pending, pages, serverVars>>

Break(c) ==
  /\ pc[c] = "yielding"
  /\ End(c, "left")
  /\ UNCHANGED <<kind, open, slot, ctxDone, seen, terminal, pending, pages, serverVars>>

\* The deferred stream.Close: the slot of a gated stream comes back.
Close(c) ==
  /\ pc[c] = "closing"
  /\ open' = [open EXCEPT ![c] = FALSE]
  /\ slot' = [slot EXCEPT ![c] = IF @ = "held" THEN "released" ELSE @]
  /\ pc' = [pc EXCEPT ![c] = "returned"]
  /\ UNCHANGED <<kind, ctxDone, seen, terminal, verdict, pending, pages, serverVars>>

-----------------------------------------------------------------------------
(* The caller's context and the server *)

EndContext(c) ==
  /\ open[c] /\ ~ctxDone[c]
  /\ ctxDone' = [ctxDone EXCEPT ![c] = TRUE]
  /\ UNCHANGED <<kind, pc, open, slot, seen, terminal, verdict, pending, pages, serverVars>>

Offer(c) ==
  /\ open[c] /\ status[c] = "open" /\ Len(offered[c]) < MaxFrames[kind[c]]
  /\ \E f \in FramesOf(kind[c]) : offered' = [offered EXCEPT ![c] = Append(@, f)]
  /\ UNCHANGED <<status, clientVars>>

\* The server ends the call, whether or not it sent all it should have.
Seal(c) ==
  /\ open[c] /\ status[c] = "open"
  /\ \E s \in {"ok", "error"} : status' = [status EXCEPT ![c] = s]
  /\ UNCHANGED <<offered, clientVars>>

-----------------------------------------------------------------------------
LoopStep(c) ==
  \/ Receive(c) \/ ReceiveBad(c) \/ ReceiveEnd(c) \/ Resume(c) \/ Break(c) \/ Close(c)

Next == \E c \in Call :
  \/ Open(c) \/ OpenFails(c) \/ Ask(c) \/ RangeOver(c) \/ Drop(c) \/ LoopStep(c)
  \/ EndContext(c) \/ Offer(c) \/ Seal(c)

Spec == Init /\ [][Next]_vars

\* Callers range over what they asked for and their loops go on, calls are
\* admitted when there is room, servers end what they began.
FairSpec == Spec /\ \A c \in Call :
  /\ SF_vars(Open(c)) /\ WF_vars(Ask(c)) /\ WF_vars(RangeOver(c)) /\ WF_vars(LoopStep(c))
  /\ WF_vars(Seal(c))

-----------------------------------------------------------------------------
(* Properties *)

TypeOK ==
  /\ kind \in [Call -> AllKinds]
  /\ pc \in [Call -> {"idle", "opened", "ranging", "yielding", "closing", "returned", "dropped"}]
  /\ open \in [Call -> BOOLEAN]
  /\ slot \in [Call -> {"none", "held", "released"}]
  /\ ctxDone \in [Call -> BOOLEAN]
  /\ seen \in [Call -> Nat]
  /\ terminal \in [Call -> BOOLEAN]
  /\ verdict \in [Call -> {"none", "whole", "missing", "failed", "content", "left"}]
  /\ pending \in [Call -> [Page -> SUBSET Nat]]
  /\ pages \in [Call -> Seq([page : Page, at : Nat, ok : BOOLEAN, parts : SUBSET Nat])]
  /\ offered \in [Call -> Seq(Frame)]
  /\ status \in [Call -> {"open", "ok", "error"}]

\* A reader gets the frames in order and each once, and takes the stream for
\* whole only if the server ended it well, nothing was left, and the terminal
\* frame of a protocol that has one came (eventseq.go 16-22).
Promise == INSTANCE Delivery WITH
  Frames <- Frame,
  Terminal <- {f \in Frame : f.is = "done"},
  owed <- {c \in Call : kind[c] \in {"fetch", "map"}},
  taken <- seen,
  verdict <- [c \in Call |-> IF verdict[c] \in {"none", "whole"} THEN verdict[c] ELSE "partial"]
KeepsPromise == Promise!Spec

\* A call that was ranged over has closed its stream and holds no slot when it
\* returns, whichever way the loop was left (eventseq.go 30, 22).
ReturnedIsClosed ==
  \A c \in Call : pc[c] = "returned" => ~open[c] /\ slot[c] # "held"

\* CrawlPages yields a page once for each terminal frame, in their order, with
\* the frames of that page since its last terminal frame and no other page's,
\* however they are interleaved (scrape.go 270-274).
EachPageOnceAndWhole ==
  \A c \in Call :
    /\ kind[c] = "pages" =>
         {n \in 1 .. seen[c] : Closes(offered[c][n])} = {pages[c][j].at : j \in DOMAIN pages[c]}
    /\ \A j \in DOMAIN pages[c] : LET page == pages[c][j] IN
         /\ j > 1 => pages[c][j - 1].at < page.at
         /\ page.ok => page.parts =
              {n \in 1 .. page.at :
                 /\ offered[c][n].page = page.page
                 /\ \A m \in n .. page.at - 1 : ~(Closes(offered[c][m]) /\ offered[c][m].page = page.page)}

\* Unless an iterator over a gated stream is dropped, every call gets its turn
\* at the gate and comes back, however many loops before it were left early
\* (EmbedStream, client.go 133-152).
EveryCallReturns ==
  [](\A c \in Call : ~(pc[c] = "dropped" /\ kind[c] = "embed"))
    => \A c \in Call : pc[c] = "idle" ~> pc[c] \in {"returned", "dropped"}
=============================================================================
