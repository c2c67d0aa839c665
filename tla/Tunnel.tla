-------------------------------- MODULE Tunnel --------------------------------
(***************************************************************************)
(* internal/transport/proxy.go: H2CDialer.Dial through a proxy.  The dialling  *)
(* goroutine connects, shakes hands when the proxy speaks TLS, writes the       *)
(* CONNECT and parses the answer through a buffered reader; a second goroutine *)
(* watches the dial's context, because only closing the connection gets the    *)
(* first out of a blocking read or write.  The tunnel's user then reads what    *)
(* the reader had read ahead before what is still on the connection.           *)
(*                                                                          *)
(* Tunnel bytes are the numbers 1, 2, ... in the order the proxy sends them.   *)
(***************************************************************************)
EXTENDS Naturals, Sequences

CONSTANTS MaxBytes  \* bound: tunnel bytes the proxy sends

ASSUME TunnelAssumption == MaxBytes \in Nat

VARIABLES
  pc,       \* the dialler: "dial", "handshake", "connect" (CONNECT goes out),
            \* "answer" (waits for the response), "failing" (an error
            \* is on its way through Dial), "failed", "tunnel"
  conn,     \* the connection: "none", "open" or "closed" (by this side)
  watcher,  \* the watching goroutine: "none", "watching" or "gone"
  done,     \* watchDone is closed
  ctxDone,  \* the dial's context has ended
  killed,   \* the watcher closed the connection
  proxy,    \* the proxy: "silent", "accepted", "refused" or "hungup"
  wire,     \* tunnel bytes on the connection
  ahead,    \* bufferedConn's reader: bytes it read ahead
  got,      \* bytes the tunnel's user has read
  sent      \* bytes the proxy has sent

dialVars == <<pc, conn, watcher, done, ctxDone, killed>>
byteVars == <<proxy, wire, ahead, got, sent>>
vars == <<dialVars, byteVars>>

Init ==
  /\ pc = "dial" /\ conn = "none" /\ watcher = "none"
  /\ done = FALSE /\ ctxDone = FALSE /\ killed = FALSE
  /\ proxy = "silent" /\ wire = <<>> /\ ahead = <<>> /\ got = <<>> /\ sent = 0

-----------------------------------------------------------------------------
(* Dial and ConnectTunnel *)

\* The proxy is resolved and dialled, under the context.
DialProxy ==
  /\ pc = "dial" /\ conn' = "open"
  /\ \/ pc' = "handshake" /\ UNCHANGED watcher
     \/ pc' = "connect" /\ watcher' = "watching"
  /\ UNCHANGED <<done, ctxDone, killed, byteVars>>

DialFails ==
  /\ pc = "dial"
  /\ pc' = "failed"
  /\ UNCHANGED <<conn, watcher, done, ctxDone, killed, byteVars>>

\* HandshakeContext heeds the context by itself; the watcher starts after it.
Handshake ==
  /\ pc = "handshake"
  /\ pc' = "connect" /\ watcher' = "watching"
  /\ UNCHANGED <<conn, done, ctxDone, killed, byteVars>>

\* It fails, or the scheme is not one of a proxy: no watcher yet.
HandshakeFails ==
  /\ pc = "handshake"
  /\ pc' = "failing"
  /\ UNCHANGED <<conn, watcher, done, ctxDone, killed, byteVars>>

WriteConnect ==
  /\ pc = "connect" /\ conn = "open" /\ proxy # "hungup"
  /\ pc' = "answer"
  /\ UNCHANGED <<conn, watcher, done, ctxDone, killed, byteVars>>

\* Mutant: an error return leaves the watcher waiting.
LeaveWatched == UNCHANGED done

\* ConnectTunnel's deferred close(watchDone).
Leave == done' = TRUE

\* req.Write or http.ReadResponse fails: the watcher or the proxy closed the
\* connection under it.
ExchangeFails ==
  /\ pc \in {"connect", "answer"} /\ (conn = "closed" \/ proxy = "hungup")
  /\ pc' = "failing"
  /\ Leave
  /\ UNCHANGED <<conn, watcher, ctxDone, killed, byteVars>>

\* Mutant: what the reader has read ahead is thrown away with it.
ReadPast(n) ==
  /\ ahead' = <<>>
  /\ wire' = SubSeq(wire, n + 1, Len(wire))

\* The reader takes in what comes with the response, the tunnel's first bytes
\* among it.
ReadAhead(n) ==
  /\ ahead' = SubSeq(wire, 1, n)
  /\ wire' = SubSeq(wire, n + 1, Len(wire))

ParseResponse ==
  /\ pc = "answer" /\ conn = "open" /\ proxy = "accepted"
  /\ \E n \in 0 .. Len(wire) : ReadAhead(n)
  /\ pc' = "tunnel"
  /\ Leave
  /\ UNCHANGED <<conn, watcher, ctxDone, killed, proxy, got, sent>>

\* Any other status.
Refused ==
  /\ pc = "answer" /\ conn = "open" /\ proxy = "refused"
  /\ pc' = "failing"
  /\ Leave
  /\ UNCHANGED <<conn, watcher, ctxDone, killed, byteVars>>

\* Dial closes the connection on any error of ConnectTunnel.
CloseConn == conn' = "closed"

DialReturnsError ==
  /\ pc = "failing"
  /\ CloseConn
  /\ pc' = "failed"
  /\ UNCHANGED <<watcher, done, ctxDone, killed, byteVars>>

-----------------------------------------------------------------------------
(* The watcher: select takes either arm when both are ready *)

\* Mutants: the watcher closes the connection whatever woke it; nobody watches.
AnyWakeup == ctxDone \/ done
NoWakeup == FALSE

ContextArm == ctxDone

WatcherCloses ==
  /\ watcher = "watching" /\ ContextArm
  /\ conn' = "closed" /\ killed' = TRUE
  /\ watcher' = "gone"
  /\ UNCHANGED <<pc, done, ctxDone, byteVars>>

WatcherLeaves ==
  /\ watcher = "watching" /\ done
  /\ watcher' = "gone"
  /\ UNCHANGED <<pc, conn, done, ctxDone, killed, byteVars>>

EndContext ==
  /\ ~ctxDone
  /\ ctxDone' = TRUE
  /\ UNCHANGED <<pc, conn, watcher, done, killed, byteVars>>

-----------------------------------------------------------------------------
(* bufferedConn.Read, and the proxy *)

\* The reader's bytes first; the reader is dropped once it is empty.
TakeByte ==
  \/ /\ ahead # <<>>
     /\ got' = Append(got, Head(ahead)) /\ ahead' = Tail(ahead)
     /\ UNCHANGED wire
  \/ /\ ahead = <<>> /\ wire # <<>> /\ conn = "open"
     /\ got' = Append(got, Head(wire)) /\ wire' = Tail(wire)
     /\ UNCHANGED ahead

Read ==
  /\ pc = "tunnel"
  /\ TakeByte
  /\ UNCHANGED <<dialVars, proxy, sent>>

\* The proxy answers a CONNECT or gives up the connection.
ProxyAnswers ==
  /\ pc = "answer" /\ proxy = "silent"
  /\ proxy' \in {"accepted", "refused", "hungup"}
  /\ UNCHANGED <<dialVars, wire, ahead, got, sent>>

ProxyHangsUp ==
  /\ conn # "none" /\ proxy = "silent"
  /\ proxy' = "hungup"
  /\ UNCHANGED <<dialVars, wire, ahead, got, sent>>

\* Tunnel bytes may follow right behind the response.
ProxySends ==
  /\ proxy = "accepted" /\ sent < MaxBytes
  /\ sent' = sent + 1 /\ wire' = Append(wire, sent + 1)
  /\ UNCHANGED <<dialVars, proxy, ahead, got>>

-----------------------------------------------------------------------------
DialStep ==
  \/ WriteConnect \/ ExchangeFails \/ ParseResponse \/ Refused \/ DialReturnsError

WatcherStep == WatcherCloses \/ WatcherLeaves

Next ==
  \/ DialProxy \/ DialFails \/ Handshake \/ HandshakeFails \/ DialStep
  \/ WatcherStep \/ EndContext
  \/ Read \/ ProxyAnswers \/ ProxyHangsUp \/ ProxySends

\* Both goroutines run; neither the proxy nor the context owes anything.
Spec == Init /\ [][Next]_vars /\ WF_vars(DialStep) /\ WF_vars(WatcherStep)

-----------------------------------------------------------------------------
(* Properties *)

TypeOK ==
  /\ pc \in {"dial", "handshake", "connect", "answer", "failing", "failed", "tunnel"}
  /\ conn \in {"none", "open", "closed"}
  /\ watcher \in {"none", "watching", "gone"}
  /\ done \in BOOLEAN /\ ctxDone \in BOOLEAN /\ killed \in BOOLEAN
  /\ proxy \in {"silent", "accepted", "refused", "hungup"}
  /\ wire \in Seq(Nat) /\ ahead \in Seq(Nat) /\ got \in Seq(Nat) /\ sent \in Nat

\* What the user has read, what the reader holds and what is on the connection
\* are together the bytes the proxy sent: none is lost in the hand-over from
\* the response's reader, and none overtakes another (proxy.go 149-177).
TunnelBytesInOrder == got \o ahead \o wire = [i \in 1 .. sent |-> i]

\* A dial that failed has closed whatever it opened (proxy.go 64-69), and a
\* tunnel that was handed over is closed under its user only if the dial's
\* context ended.
ClosedForAReason ==
  /\ pc = "failed" => conn # "open"
  /\ pc = "tunnel" /\ conn = "closed" => killed /\ ctxDone

\* A dial whose context ends does not stay in the exchange with a proxy that
\* says nothing (proxy.go 105-117).
CancelledDialReturns ==
  ctxDone /\ pc \in {"connect", "answer"} ~> pc \in {"failed", "tunnel"}

\* No dial leaves its watcher behind, whichever way it ends.
WatcherGoes == pc \in {"failed", "tunnel"} ~> watcher # "watching"
=============================================================================
