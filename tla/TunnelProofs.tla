---------------------------- MODULE TunnelProofs ----------------------------
(***************************************************************************)
(* Proofs about Tunnel, for any number of tunnel bytes.  The bytes are in order  *)
(* because every step moves them from the front of one holder to the end of the   *)
(* one before it; a connection is never left open by a dial that failed because   *)
(* only "failing" leads there from an open one.                                *)
(***************************************************************************)
EXTENDS Tunnel, SequenceTheorems, TLAPS

\* Nothing was read ahead before the response was parsed.
NothingAheadYet == pc # "tunnel" => ahead = <<>>

\* Who closed a connection: the watcher, woken by the context, or Dial's error return.
ClosedBy ==
  /\ killed => ctxDone
  /\ conn = "closed" /\ pc # "failed" => killed
  /\ pc = "dial" => conn = "none"
  /\ pc \notin {"dial", "failed"} => conn # "none"
  /\ watcher # "none" => conn # "none"

IInv == TypeOK /\ NothingAheadYet /\ TunnelBytesInOrder /\ ClosedBy /\ ClosedForAReason

\* A sequence is its first element and the rest.
LEMMA FirstAndRest ==
  ASSUME NEW s \in Seq(Nat), s # <<>>
  PROVE  s = <<Head(s)>> \o Tail(s) /\ Head(s) \in Nat /\ Tail(s) \in Seq(Nat)
<1>1. Len(s) \in Nat \ {0}
  BY EmptySeq
<1>2. SubSeq(s, 1, Len(s)) = <<s[1]>> \o SubSeq(s, 2, Len(s))
  BY <1>1, SubSeqRecursiveFirst
<1>3. Tail(s) = SubSeq(s, 2, Len(s)) /\ SubSeq(s, 1, Len(s)) = s
  BY TailIsSubSeq, SubSeqFull
<1>4. Head(s) = s[1] /\ Head(s) \in Nat /\ Tail(s) \in Seq(Nat)
  BY <1>1
<1> QED BY <1>2, <1>3, <1>4

\* Concatenation can be regrouped.
LEMMA Regroup ==
  \A a, b, c \in Seq(Nat) : (a \o b) \o c = a \o (b \o c)
<1> SUFFICES ASSUME NEW a \in Seq(Nat), NEW b \in Seq(Nat), NEW c \in Seq(Nat)
             PROVE  (a \o b) \o c = a \o (b \o c)
  OBVIOUS
<1> QED BY ConcatAssociative

\* Moving the first element of the second part to the end of the first.
LEMMA MoveOne ==
  ASSUME NEW s \in Seq(Nat), NEW t \in Seq(Nat), t # <<>>
  PROVE  Append(s, Head(t)) \o Tail(t) = s \o t /\ Append(s, Head(t)) \in Seq(Nat)
<1>1. t = <<Head(t)>> \o Tail(t) /\ Head(t) \in Nat /\ Tail(t) \in Seq(Nat)
  BY FirstAndRest
<1>2. Append(s, Head(t)) = s \o <<Head(t)>> /\ Append(s, Head(t)) \in Seq(Nat)
  BY <1>1, AppendIsConcat
<1>3. <<Head(t)>> \in Seq(Nat)
  BY <1>1
<1>4. (s \o <<Head(t)>>) \o Tail(t) = s \o (<<Head(t)>> \o Tail(t))
  BY <1>1, <1>3, ConcatAssociative
<1> QED BY <1>1, <1>2, <1>4

\* A sequence cut in two.
LEMMA CutInTwo ==
  ASSUME NEW s \in Seq(Nat), NEW n \in 0 .. Len(s)
  PROVE  /\ SubSeq(s, 1, n) \o SubSeq(s, n + 1, Len(s)) = s
         /\ SubSeq(s, 1, n) \in Seq(Nat) /\ SubSeq(s, n + 1, Len(s)) \in Seq(Nat)
<1>1. Len(s) \in Nat /\ 1 \in 1 .. Len(s) + 1 /\ n \in 1 - 1 .. Len(s) /\ Len(s) \in n .. Len(s)
  BY LenProperties
<1>2. SubSeq(s, 1, n) \o SubSeq(s, n + 1, Len(s)) = SubSeq(s, 1, Len(s))
  BY <1>1, ConcatAdjacentSubSeq
<1>3. SubSeq(s, 1, Len(s)) = s
  BY SubSeqFull
<1>4. SubSeq(s, 1, n) \in Seq(Nat) /\ SubSeq(s, n + 1, Len(s)) \in Seq(Nat)
  BY <1>1
<1> QED BY <1>2, <1>3, <1>4

\* The bytes sent so far, and one more.
LEMMA OneMore ==
  ASSUME NEW n \in Nat
  PROVE  [i \in 1 .. n + 1 |-> i] = [i \in 1 .. n |-> i] \o <<n + 1>>
<1>1. [i \in 1 .. n |-> i] \in Seq(Nat) /\ Len([i \in 1 .. n |-> i]) = n
  OBVIOUS
<1>2. <<n + 1>> \in Seq(Nat) /\ [i \in 1 .. n + 1 |-> i] \in Seq(Nat)
  OBVIOUS
<1> QED BY <1>1, <1>2

\* The initial state satisfies the invariant.
LEMMA InitHolds == Init => IInv
<1> SUFFICES ASSUME Init PROVE IInv
  OBVIOUS
<1> USE DEF Init, IInv
<1>1. TypeOK
  <2>1. <<>> \in Seq(Nat)
    BY EmptySeq
  <2> QED BY <2>1 DEF TypeOK
<1>2. TunnelBytesInOrder
  BY DEF TunnelBytesInOrder
<1> QED BY <1>1, <1>2 DEF NothingAheadYet, ClosedBy, ClosedForAReason

\* Typing is preserved.
LEMMA TypingKept == TypeOK /\ [Next]_vars => TypeOK'
<1> SUFFICES ASSUME TypeOK, [Next]_vars PROVE TypeOK'
  OBVIOUS
<1> USE DEF TypeOK, dialVars, byteVars
<1>1. CASE DialProxy \/ DialFails \/ Handshake \/ HandshakeFails
  BY <1>1 DEF DialProxy, DialFails, Handshake, HandshakeFails
<1>2. CASE WriteConnect \/ ExchangeFails \/ Refused \/ DialReturnsError
  BY <1>2 DEF WriteConnect, ExchangeFails, Refused, DialReturnsError, Leave, CloseConn
<1>3. CASE ParseResponse
  BY <1>3, CutInTwo DEF ParseResponse, ReadAhead, Leave
<1>4. CASE WatcherStep \/ EndContext
  BY <1>4 DEF WatcherStep, WatcherCloses, WatcherLeaves, EndContext
<1>5. CASE Read
  BY <1>5, MoveOne, FirstAndRest DEF Read, TakeByte
<1>6. CASE ProxyAnswers \/ ProxyHangsUp
  BY <1>6 DEF ProxyAnswers, ProxyHangsUp
<1>7. CASE ProxySends
  <2>1. sent + 1 \in Nat /\ Append(wire, sent + 1) \in Seq(Nat)
    BY AppendProperties
  <2> QED BY <1>7, <2>1 DEF ProxySends
<1>8. CASE UNCHANGED vars
  BY <1>8 DEF vars
<1> QED BY <1>1, <1>2, <1>3, <1>4, <1>5, <1>6, <1>7, <1>8 DEF Next, DialStep

\* The bytes stay in order.
LEMMA OrderKept ==
  TypeOK /\ NothingAheadYet /\ TunnelBytesInOrder /\ [Next]_vars
    => NothingAheadYet' /\ TunnelBytesInOrder'
<1> SUFFICES ASSUME TypeOK, NothingAheadYet, TunnelBytesInOrder, [Next]_vars
             PROVE  NothingAheadYet' /\ TunnelBytesInOrder'
  OBVIOUS
<1>0. wire \in Seq(Nat) /\ ahead \in Seq(Nat) /\ got \in Seq(Nat) /\ sent \in Nat
  BY DEF TypeOK
<1>1. CASE ParseResponse
  <2>1. PICK n \in 0 .. Len(wire) : ReadAhead(n)
    BY <1>1 DEF ParseResponse
  <2>2. ahead' \o wire' = wire /\ ahead' \in Seq(Nat) /\ wire' \in Seq(Nat)
    BY <1>0, <2>1, CutInTwo DEF ReadAhead
  <2>3. ahead = <<>> /\ got' = got /\ sent' = sent /\ pc' = "tunnel"
    BY <1>1 DEF ParseResponse, NothingAheadYet
  <2>4. (got \o ahead') \o wire' = got \o (ahead' \o wire')
    <3>1. got \in Seq(Nat) /\ ahead' \in Seq(Nat) /\ wire' \in Seq(Nat)
      BY <1>0, <2>2
    <3> QED BY <3>1, Regroup
  <2>5. (got \o ahead) \o wire = got \o wire
    BY <1>0, <2>3, ConcatEmptySeq
  <2> QED BY <2>2, <2>3, <2>4, <2>5 DEF NothingAheadYet, TunnelBytesInOrder
<1>2. CASE Read
  <2>1. pc' = pc /\ pc = "tunnel" /\ sent' = sent
    BY <1>2 DEF Read, dialVars
  <2>2. CASE ahead # <<>>
    <3>1. got' = Append(got, Head(ahead)) /\ ahead' = Tail(ahead) /\ wire' = wire
      BY <1>2, <2>2 DEF Read, TakeByte
    <3>2. got' \o ahead' = got \o ahead
      BY <1>0, <2>2, <3>1, MoveOne
    <3> QED BY <2>1, <3>1, <3>2 DEF NothingAheadYet, TunnelBytesInOrder
  <2>3. CASE ahead = <<>>
    <3>1. got' = Append(got, Head(wire)) /\ wire' = Tail(wire) /\ ahead' = ahead /\ wire # <<>>
      BY <1>2, <2>3 DEF Read, TakeByte
    <3>2. got' \o wire' = got \o wire /\ got' \in Seq(Nat)
      BY <1>0, <3>1, MoveOne
    <3>3. got' \o ahead' = got' /\ got \o ahead = got
      BY <1>0, <2>3, <3>1, <3>2, ConcatEmptySeq
    <3> QED BY <2>1, <3>1, <3>2, <3>3 DEF NothingAheadYet, TunnelBytesInOrder
  <2> QED BY <2>2, <2>3
<1>3. CASE ProxySends
  <2>1. wire' = Append(wire, sent + 1) /\ sent' = sent + 1 /\ ahead' = ahead /\ got' = got /\ pc' = pc
    BY <1>3 DEF ProxySends, dialVars
  <2>2. wire' = wire \o <<sent + 1>> /\ <<sent + 1>> \in Seq(Nat)
    BY <1>0, <2>1, AppendIsConcat
  <2>3. got \o ahead \in Seq(Nat)
    BY <1>0, ConcatProperties
  <2>4. (got \o ahead) \o (wire \o <<sent + 1>>) = ((got \o ahead) \o wire) \o <<sent + 1>>
    BY <1>0, <2>2, <2>3, ConcatAssociative
  <2> QED BY <1>0, <2>1, <2>2, <2>4, OneMore DEF NothingAheadYet, TunnelBytesInOrder
<1>4. ASSUME pc' \in {pc, "dial", "handshake", "connect", "answer", "failing", "failed"},
             pc = "tunnel" => pc' = "tunnel",
             UNCHANGED <<wire, ahead, got, sent>>
      PROVE  NothingAheadYet' /\ TunnelBytesInOrder'
  BY <1>4 DEF NothingAheadYet, TunnelBytesInOrder
<1>5. CASE DialProxy \/ DialFails \/ Handshake \/ HandshakeFails
  BY <1>4, <1>5 DEF DialProxy, DialFails, Handshake, HandshakeFails, byteVars
<1>6. CASE WriteConnect \/ ExchangeFails \/ Refused \/ DialReturnsError
  BY <1>4, <1>6 DEF WriteConnect, ExchangeFails, Refused, DialReturnsError, byteVars
<1>7. CASE WatcherStep \/ EndContext
  BY <1>4, <1>7 DEF WatcherStep, WatcherCloses, WatcherLeaves, EndContext, byteVars
<1>8. CASE ProxyAnswers \/ ProxyHangsUp
  BY <1>4, <1>8 DEF ProxyAnswers, ProxyHangsUp, dialVars
<1>9. CASE UNCHANGED vars
  BY <1>4, <1>9 DEF vars, dialVars, byteVars
<1> QED BY <1>1, <1>2, <1>3, <1>5, <1>6, <1>7, <1>8, <1>9 DEF Next, DialStep

\* Who closed the connection stays known.
LEMMA CauseKept ==
  TypeOK /\ ClosedBy /\ ClosedForAReason /\ [Next]_vars => ClosedBy' /\ ClosedForAReason'
<1> SUFFICES ASSUME TypeOK, ClosedBy, ClosedForAReason, [Next]_vars
             PROVE  ClosedBy' /\ ClosedForAReason'
  OBVIOUS
<1> USE DEF TypeOK, ClosedBy, ClosedForAReason, dialVars, byteVars
<1>1. CASE DialProxy \/ DialFails \/ Handshake \/ HandshakeFails
  BY <1>1 DEF DialProxy, DialFails, Handshake, HandshakeFails
<1>2. CASE WriteConnect \/ ExchangeFails \/ Refused \/ DialReturnsError
  BY <1>2 DEF WriteConnect, ExchangeFails, Refused, DialReturnsError, CloseConn
<1>3. CASE ParseResponse
  BY <1>3 DEF ParseResponse
<1>4. CASE WatcherStep \/ EndContext
  BY <1>4 DEF WatcherStep, WatcherCloses, WatcherLeaves, EndContext, ContextArm
<1>5. CASE Read \/ ProxyAnswers \/ ProxyHangsUp \/ ProxySends
  BY <1>5 DEF Read, ProxyAnswers, ProxyHangsUp, ProxySends
<1>6. CASE UNCHANGED vars
  BY <1>6 DEF vars
<1> QED BY <1>1, <1>2, <1>3, <1>4, <1>5, <1>6 DEF Next, DialStep

\* The invariant holds throughout.
LEMMA Invariant == Spec => []IInv
<1>1. IInv /\ [Next]_vars => IInv'
  BY TypingKept, OrderKept, CauseKept DEF IInv
<1> QED BY InitHolds, <1>1, PTL DEF Spec

\* What the user has read, what the reader holds and what is on the connection are
\* always the bytes the proxy sent, in order, for any number of them.
THEOREM BytesInOrder == Spec => []TunnelBytesInOrder
<1>1. IInv => TunnelBytesInOrder
  BY DEF IInv
<1> QED BY Invariant, <1>1, PTL

\* A failed dial leaves nothing open, and a tunnel is closed under its user only
\* after the dial's context ended.
THEOREM ClosedWithCause == Spec => []ClosedForAReason
<1>1. IInv => ClosedForAReason
  BY DEF IInv
<1> QED BY Invariant, <1>1, PTL

\* Every variable keeps its type.
THEOREM TypeCorrect == Spec => []TypeOK
<1>1. IInv => TypeOK
  BY DEF IInv
<1> QED BY Invariant, <1>1, PTL
=============================================================================
