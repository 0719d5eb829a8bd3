--------------------------- MODULE PeerLinkProofs ---------------------------
(* Theorems of PeerLink for every value of its constants. *)
EXTENDS PeerLink, SequenceTheorems, FiniteSetTheorems, TLAPS

(***************************************************************************)
(* The part of the type invariant the connection records need.             *)
(***************************************************************************)
LinkType ==
    /\ dialer \in [Conns -> {0} \cup Nodes]
    /\ sock \in [Conns -> [Nodes -> {"none", "dialing", "backlog", "open", "closed"}]]
    /\ closing \in [Conns -> [Nodes -> BOOLEAN]]
    /\ pending \in [Nodes -> [Conns -> {"none", "anon", "known"}]]
    /\ entry \in [Nodes -> Conns \cup {NoConn}]
    /\ pendRead \in [Conns -> [Nodes -> BOOLEAN]]
    /\ peerRead \in [Conns -> [Nodes -> BOOLEAN]]

LEMMA OtherIsNode == \A n \in Nodes : Other(n) \in Nodes /\ Other(n) # n
BY DEF Nodes, Other

\* Updating one end of one connection keeps the type of a per-end function.
LEMMA PerEndUpdate ==
    ASSUME NEW S, NEW f \in [Conns -> [Nodes -> S]],
           NEW c \in Conns, NEW n \in Nodes, NEW v \in S
    PROVE  [f EXCEPT ![c][n] = v] \in [Conns -> [Nodes -> S]]
OBVIOUS

\* The same for the two ends of one connection at once.
LEMMA ConnUpdate ==
    ASSUME NEW S, NEW f \in [Conns -> [Nodes -> S]],
           NEW c \in Conns, NEW g \in [Nodes -> S]
    PROVE  [f EXCEPT ![c] = g] \in [Conns -> [Nodes -> S]]
OBVIOUS

\* What the two updates leave at each end.
LEMMA PerEndValue ==
    ASSUME NEW A, NEW B, NEW S, NEW f \in [A -> [B -> S]],
           NEW c \in A, NEW n \in B, NEW v, NEW d \in A, NEW m \in B
    PROVE  [f EXCEPT ![c][n] = v][d][m] = IF d = c /\ m = n THEN v ELSE f[d][m]
OBVIOUS

LEMMA ConnValue ==
    ASSUME NEW S, NEW f \in [Conns -> [Nodes -> S]], NEW c \in Conns, NEW g,
           NEW d \in Conns, NEW m \in Nodes
    PROVE  [f EXCEPT ![c] = g][d][m] = IF d = c THEN g[m] ELSE f[d][m]
OBVIOUS

\* startAsyncRead keeps the reads well-typed.
LEMMA ReadOnType ==
    ASSUME LinkType, NEW c \in Conns, NEW n \in Nodes, Served(c, n) \in Conns, ReadOn(c, n)
    PROVE  /\ peerRead' \in [Conns -> [Nodes -> BOOLEAN]]
           /\ pendRead' \in [Conns -> [Nodes -> BOOLEAN]]
BY DEF LinkType, ReadOn

\* So does a scheduled close.
LEMMA CloseLaterType ==
    ASSUME LinkType, NEW c \in Conns, NEW n \in Nodes, CloseLater(c, n)
    PROVE  closing' \in [Conns -> [Nodes -> BOOLEAN]]
<1> DEFINE v == Open(c, n) \/ closing[c][n]
<1>1. v \in BOOLEAN
  BY DEF Open
<1>2. closing' = [closing EXCEPT ![c][n] = v]
  BY DEF CloseLater
<1> HIDE DEF v
<1>. QED BY <1>1, <1>2, PerEndUpdate DEF LinkType

LEMMA LinkTypeInit == Init => LinkType
BY BoundsAssumption DEF Init, LinkType, PerEnd, Nodes

LEMMA LinkTypeStep == LinkType /\ [Next]_vars => LinkType'
<1> SUFFICES ASSUME LinkType, [Next]_vars PROVE LinkType'
  OBVIOUS
<1> USE BoundsAssumption, OtherIsNode DEF LinkType
<1>1. ASSUME NEW n \in Nodes,
             UserActs(n) \/ TimerFires(n) \/ CancelledTimerRuns(n) \/ FirstPing(n)
               \/ PingTick(n) \/ RunSendFrame(n) \/ AcceptDuplicate(n) \/ AnswerTooLate(n)
      PROVE LinkType'
  BY <1>1 DEF UserActs, ConnectToPeer, SendFrame, TimerFires, CancelledTimerRuns, FirstPing,
     PingTick, RunSendFrame, AcceptDuplicate, AnswerTooLate, tcpVars, mapVars
<1>2. ASSUME NEW n \in Nodes, StartDial(n) PROVE LinkType'
  <2>1. CASE AlreadyConnected(n)
    BY <1>2, <2>1 DEF StartDial, tcpVars, mapVars
  <2>2. CASE ~AlreadyConnected(n)
    <3>1. PICK c \in Conns : /\ dialer' = [dialer EXCEPT ![c] = n]
                            /\ sock' = [sock EXCEPT ![c][n] = "dialing"]
      BY <1>2, <2>2 DEF StartDial
    <3>2. UNCHANGED <<closing, mapVars>>
      BY <1>2, <2>2 DEF StartDial
    <3>. QED BY <3>1, <3>2, PerEndUpdate DEF mapVars
  <2>. QED BY <2>1, <2>2
<1>3. ASSUME NEW n \in Nodes, AcceptIncoming(n) PROVE LinkType'
  BY <1>3 DEF AcceptIncoming
<1>4. ASSUME NEW n \in Nodes, RejectIncoming(n) PROVE LinkType'
  <2>1. PICK c \in Conns : /\ pending' = [pending EXCEPT ![n][c] = "none"]
                          /\ CloseLater(c, n)
    BY <1>4 DEF RejectIncoming
  <2>2. UNCHANGED <<dialer, sock, entry, pendRead, peerRead>>
    BY <1>4 DEF RejectIncoming
  <2>3. closing' \in [Conns -> [Nodes -> BOOLEAN]]
    BY <2>1, CloseLaterType
  <2>. QED BY <2>1, <2>2, <2>3
<1>5. ASSUME NEW n \in Nodes, Restart(n) PROVE LinkType'
  BY <1>5 DEF Restart
<1>6. ASSUME NEW n \in Nodes, PongTimeout(n) PROVE LinkType'
  BY <1>6 DEF PongTimeout, Close, mapVars
<1>7. ASSUME NEW c \in Conns, NEW n \in Nodes,
             DialFails(c, n) \/ DialDuplicate(c, n) \/ DialSucceeds(c, n)
               \/ LateDialTimeout(c, n) \/ Accept(c, n)
      PROVE LinkType'
  <2>1. CASE DialFails(c, n)
    BY <2>1, PerEndUpdate DEF DialFails, mapVars
  <2>5. CASE LateDialTimeout(c, n)
    BY <2>5 DEF LateDialTimeout, mapVars
  <2>2. CASE DialDuplicate(c, n)
    BY <2>2, ConnUpdate DEF DialDuplicate, mapVars
  <2>3. CASE DialSucceeds(c, n)
    BY <2>3, ConnUpdate, PerEndUpdate DEF DialSucceeds
  <2>4. CASE Accept(c, n)
    BY <2>4, PerEndUpdate DEF Accept
  <2>. QED BY <1>7, <2>1, <2>2, <2>3, <2>4, <2>5
<1>8. ASSUME NEW c \in Conns, NEW n \in Nodes, Receive(c, n) PROVE LinkType'
  <2>1. CASE StaleRead(c, n)
    BY <2>1, PerEndUpdate DEF StaleRead
  <2>2. CASE OnHandshake(c, n)
    <3>1. Served(c, n) \in Conns /\ ReadOn(c, n)
      BY <2>2 DEF OnHandshake, Arrives, CanRead, Served
    <3>2. closing' \in [Conns -> [Nodes -> BOOLEAN]]
      <4>1. CASE TieBreak(n)
        BY <2>2, <3>1, <4>1, CloseLaterType DEF OnHandshake
      <4>2. CASE ~TieBreak(n)
        BY <2>2, <4>2 DEF OnHandshake
      <4>. QED BY <4>1, <4>2
    <3>3. pending' \in [Nodes -> [Conns -> {"none", "anon", "known"}]]
      BY <2>2 DEF OnHandshake
    <3>4. UNCHANGED <<dialer, sock, entry>>
      BY <2>2 DEF OnHandshake
    <3>. QED BY <3>1, <3>2, <3>3, <3>4, ReadOnType
  <2>3. CASE OnAckNo(c, n)
    <3>1. Served(c, n) \in Conns /\ ReadOn(c, n)
      BY <2>3 DEF OnAckNo, Arrives, CanRead, Served
    <3>. QED BY <2>3, <3>1, ReadOnType, PerEndUpdate DEF OnAckNo, Close
  <2>4. CASE Answer(c, n) \/ OnAckYes(c, n) \/ OnPong(c, n) \/ OnMessage(c, n)
    <3>1. ReadOn(c, n) /\ UNCHANGED <<dialer, sock, closing, pending, entry>>
      BY <2>4 DEF Answer, OnAckYes, OnPong, OnMessage
    <3>2. Served(c, n) \in Conns
      BY <2>4 DEF Answer, OnAckYes, OnPong, OnMessage, Arrives, CanRead, Served
    <3>. QED BY <3>1, <3>2, ReadOnType
  <2>. QED BY <1>8, <2>1, <2>2, <2>3, <2>4 DEF Receive
<1>9. ASSUME NEW c \in Conns, NEW n \in Nodes,
             BufferOverflow(c, n) \/ PendingReadFails(c, n) \/ RunClose(c, n)
      PROVE LinkType'
  <2>1. CASE BufferOverflow(c, n)
    BY <2>1, PerEndUpdate DEF BufferOverflow, Close
  <2>2. CASE PendingReadFails(c, n)
    <3>1. sock' \in [Conns -> [Nodes -> {"none", "dialing", "backlog", "open", "closed"}]]
      <4>1. CASE pending[n][c] = "none"
        BY <2>2, <4>1 DEF PendingReadFails
      <4>2. CASE pending[n][c] # "none"
        <5>1. sock' = [sock EXCEPT ![c][n] = "closed"]
          BY <2>2, <4>2 DEF PendingReadFails, Close
        <5>. QED BY <5>1, PerEndUpdate
      <4>. QED BY <4>1, <4>2
    <3>2. pendRead' \in [Conns -> [Nodes -> BOOLEAN]]
      BY <2>2, PerEndUpdate DEF PendingReadFails
    <3>3. pending' \in [Nodes -> [Conns -> {"none", "anon", "known"}]]
      BY <2>2 DEF PendingReadFails
    <3>. QED BY <2>2, <3>1, <3>2, <3>3 DEF PendingReadFails
  <2>3. CASE RunClose(c, n)
    BY <2>3, PerEndUpdate DEF RunClose, Close, mapVars
  <2>. QED BY <1>9, <2>1, <2>2, <2>3
<1>10. ASSUME NEW c \in Conns, NEW n \in Nodes, PeerReadFails(c, n) PROVE LinkType'
  BY <1>10 DEF PeerReadFails, HandleDisconnect, Close
<1>11. ASSUME NEW c \in Conns, Break(c) \/ Recycle(c) PROVE LinkType'
  <2>1. CASE Break(c)
    BY <2>1 DEF Break, mapVars
  <2>2. CASE Recycle(c)
    BY <2>2, ConnUpdate DEF Recycle, mapVars
  <2>. QED BY <1>11, <2>1, <2>2
<1>12. CASE UNCHANGED vars
  BY <1>12 DEF vars, tcpVars, mapVars
<1>. QED
  BY <1>1, <1>2, <1>3, <1>4, <1>5, <1>6, <1>7, <1>8, <1>9, <1>10, <1>11, <1>12
     DEF Next, UserAnswers

-----------------------------------------------------------------------------
(***************************************************************************)
(* A read of an established connection is always on the socket of the      *)
(* entry, and every open socket has an owner.                              *)
(***************************************************************************)

LEMMA ReadOnKeepsOwnSocket ==
    ASSUME LinkType, DisconnectHitsOwnSocket, NEW c \in Conns, NEW n \in Nodes,
           pendRead[c][n] \/ entry[n] \in Conns, ReadOn(c, n), UNCHANGED entry
    PROVE  DisconnectHitsOwnSocket'
<1>1. CASE pendRead[c][n]
  BY <1>1 DEF ReadOn, DisconnectHitsOwnSocket
<1>2. CASE ~pendRead[c][n]
  <2>1. Served(c, n) = entry[n] /\ entry[n] \in Conns
    BY <1>2 DEF Served
  <2> SUFFICES ASSUME NEW d \in Conns, NEW m \in Nodes, peerRead'[d][m]
               PROVE  entry[m] = d
    BY DEF DisconnectHitsOwnSocket
  <2>2. CASE m = n /\ d = entry[n]
    BY <2>2
  <2>3. CASE m # n \/ d # entry[n]
    <3>1. peerRead[d][m]
      BY <1>2, <2>1, <2>3 DEF ReadOn, LinkType
    <3>. QED BY <3>1 DEF DisconnectHitsOwnSocket
  <2>. QED BY <2>2, <2>3
<1>. QED BY <1>1, <1>2

LEMMA OwnSocketStep ==
    LinkType /\ DisconnectHitsOwnSocket /\ [Next]_vars => DisconnectHitsOwnSocket'
<1> SUFFICES ASSUME LinkType, DisconnectHitsOwnSocket, [Next]_vars
             PROVE  DisconnectHitsOwnSocket'
  OBVIOUS
<1> USE BoundsAssumption
<1>1. CASE UNCHANGED <<entry, peerRead>>
  BY <1>1 DEF DisconnectHitsOwnSocket
<1>2. ASSUME NEW c \in Conns, NEW n \in Nodes, ~AlreadyConnected(n),
             entry' = [entry EXCEPT ![n] = c],
             peerRead' = [peerRead EXCEPT ![c][n] = TRUE]
      PROVE  DisconnectHitsOwnSocket'
  BY <1>2 DEF DisconnectHitsOwnSocket, AlreadyConnected, LinkType
<1>3. ASSUME NEW n \in Nodes, AcceptIncoming(n) PROVE DisconnectHitsOwnSocket'
  BY <1>2, <1>3 DEF AcceptIncoming
<1>4. ASSUME NEW n \in Nodes, Restart(n) PROVE DisconnectHitsOwnSocket'
  BY <1>4 DEF Restart, DisconnectHitsOwnSocket, LinkType
<1>5. ASSUME NEW c \in Conns, NEW n \in Nodes, DialSucceeds(c, n)
      PROVE  DisconnectHitsOwnSocket'
  BY <1>2, <1>5 DEF DialSucceeds
<1>6. ASSUME NEW c \in Conns, NEW n \in Nodes, Receive(c, n), ~StaleRead(c, n)
      PROVE  DisconnectHitsOwnSocket'
  <2>1. ReadOn(c, n) /\ UNCHANGED entry /\ CanRead(c, n)
    BY <1>6 DEF Receive, Answer, OnHandshake, OnAckYes, OnAckNo, OnPong, OnMessage, Arrives
  <2>2. pendRead[c][n] \/ entry[n] \in Conns
    BY <2>1 DEF CanRead, LinkType
  <2>. QED BY <2>1, <2>2, ReadOnKeepsOwnSocket
<1>7. ASSUME NEW c \in Conns, NEW n \in Nodes, BufferOverflow(c, n)
      PROVE  DisconnectHitsOwnSocket'
  <2>1. \A d \in Conns, m \in Nodes : peerRead'[d][m] => peerRead[d][m]
    BY <1>7 DEF BufferOverflow, LinkType
  <2>. QED BY <1>7, <2>1 DEF BufferOverflow, DisconnectHitsOwnSocket
<1>8. ASSUME NEW c \in Conns, NEW n \in Nodes, PeerReadFails(c, n)
      PROVE  DisconnectHitsOwnSocket'
  BY <1>8 DEF PeerReadFails, HandleDisconnect, DisconnectHitsOwnSocket, LinkType
<1>9. ASSUME NEW n \in Nodes,
             UserActs(n) \/ AcceptDuplicate(n) \/ RejectIncoming(n) \/ AnswerTooLate(n)
               \/ StartDial(n) \/ TimerFires(n) \/ CancelledTimerRuns(n)
               \/ FirstPing(n) \/ PingTick(n) \/ PongTimeout(n) \/ RunSendFrame(n)
      PROVE  UNCHANGED <<entry, peerRead>>
  BY <1>9 DEF UserActs, ConnectToPeer, SendFrame, AcceptDuplicate, RejectIncoming,
     AnswerTooLate, StartDial, TimerFires, CancelledTimerRuns, FirstPing, PingTick,
     PongTimeout, RunSendFrame, mapVars
<1>10. ASSUME NEW c \in Conns, NEW n \in Nodes,
              DialFails(c, n) \/ DialDuplicate(c, n) \/ LateDialTimeout(c, n) \/ Accept(c, n)
                \/ StaleRead(c, n) \/ PendingReadFails(c, n) \/ RunClose(c, n)
       PROVE  UNCHANGED <<entry, peerRead>>
  BY <1>10 DEF DialFails, DialDuplicate, LateDialTimeout, Accept, StaleRead,
     PendingReadFails, RunClose, mapVars
<1>11. ASSUME NEW c \in Conns, Break(c) \/ Recycle(c) PROVE UNCHANGED <<entry, peerRead>>
  BY <1>11 DEF Break, Recycle, mapVars
<1>12. CASE UNCHANGED vars
  BY <1>1, <1>12 DEF vars, mapVars
<1>. QED
  BY <1>1, <1>3, <1>4, <1>5, <1>6, <1>7, <1>8, <1>9, <1>10, <1>11, <1>12
     DEF Next, UserAnswers

\* Closing a socket, or taking one that is not open, keeps NoSocketLeaks as long
\* as no owner goes away.
LEMMA LeakFree ==
    ASSUME NoSocketLeaks,
           \A c \in Conns, n \in Nodes : sock'[c][n] = "open" =>
              /\ sock[c][n] = "open"
              /\ entry[n] = c => entry'[n] = c
              /\ pending[n][c] # "none" => pending'[n][c] # "none" \/ closing'[c][n]
              /\ closing[c][n] => closing'[c][n]
    PROVE  NoSocketLeaks'
BY DEF NoSocketLeaks, Open

\* Closing one end opens none.
LEMMA CloseOpensNone ==
    ASSUME LinkType, NEW c \in Conns, NEW n \in Nodes,
           sock' = [sock EXCEPT ![c][n] = "closed"]
    PROVE  \A d \in Conns, m \in Nodes : sock'[d][m] = "open" => sock[d][m] = "open"
BY PerEndValue DEF LinkType

\* A scheduled close adds one, if the socket is open, and takes none away.
LEMMA CloseLaterAdds ==
    ASSUME LinkType, NEW c \in Conns, NEW n \in Nodes, CloseLater(c, n)
    PROVE  /\ \A d \in Conns, m \in Nodes : closing[d][m] => closing'[d][m]
           /\ Open(c, n) => closing'[c][n]
<1> DEFINE v == Open(c, n) \/ closing[c][n]
<1>1. closing' = [closing EXCEPT ![c][n] = v]
  BY DEF CloseLater
<1>2. \A d \in Conns, m \in Nodes :
        closing'[d][m] = IF d = c /\ m = n THEN v ELSE closing[d][m]
  <2> HIDE DEF v
  <2>. QED BY <1>1, PerEndValue DEF LinkType
<1>. QED BY <1>2

LEMMA LeaksStep == LinkType /\ NoSocketLeaks /\ [Next]_vars => NoSocketLeaks'
<1> SUFFICES ASSUME LinkType, NoSocketLeaks, [Next]_vars PROVE NoSocketLeaks'
  OBVIOUS
<1> USE BoundsAssumption
<1>1. CASE UNCHANGED <<sock, closing, pending, entry>>
  BY <1>1, LeakFree
<1>2. ASSUME NEW n \in Nodes,
             UserActs(n) \/ AcceptDuplicate(n) \/ AnswerTooLate(n) \/ TimerFires(n)
               \/ CancelledTimerRuns(n) \/ FirstPing(n) \/ PingTick(n) \/ RunSendFrame(n)
      PROVE  UNCHANGED <<sock, closing, pending, entry>>
  BY <1>2 DEF UserActs, ConnectToPeer, SendFrame, AcceptDuplicate, AnswerTooLate, TimerFires,
     CancelledTimerRuns, FirstPing, PingTick, RunSendFrame, tcpVars, mapVars
<1>3. ASSUME NEW n \in Nodes, StartDial(n) PROVE NoSocketLeaks'
  <2>1. UNCHANGED <<closing, pending, entry>>
    BY <1>3 DEF StartDial, tcpVars, mapVars
  <2>2. \A d \in Conns, m \in Nodes : sock'[d][m] = "open" => sock[d][m] = "open"
    <3>1. CASE UNCHANGED sock
      BY <3>1
    <3>2. CASE \E c \in Conns : sock' = [sock EXCEPT ![c][n] = "dialing"]
      BY <3>2, PerEndValue DEF LinkType
    <3>. QED BY <1>3, <3>1, <3>2 DEF StartDial, tcpVars
  <2>. QED BY <2>1, <2>2, LeakFree
<1>4. ASSUME NEW n \in Nodes, AcceptIncoming(n) PROVE NoSocketLeaks'
  <2>1. PICK c \in Conns : /\ pending' = [pending EXCEPT ![n][c] = "none"]
                          /\ entry' = [entry EXCEPT ![n] = c]
    BY <1>4 DEF AcceptIncoming
  <2>2. UNCHANGED <<sock, closing>> /\ entry[n] = NoConn
    BY <1>4 DEF AcceptIncoming, AlreadyConnected
  <2>. QED BY <2>1, <2>2 DEF NoSocketLeaks, Open, LinkType
<1>5. ASSUME NEW n \in Nodes, RejectIncoming(n) PROVE NoSocketLeaks'
  <2>1. PICK c \in Conns : /\ pending' = [pending EXCEPT ![n][c] = "none"]
                          /\ CloseLater(c, n)
    BY <1>5 DEF RejectIncoming
  <2>2. UNCHANGED <<sock, entry>>
    BY <1>5 DEF RejectIncoming
  <2>3. /\ \A d \in Conns, m \in Nodes : closing[d][m] => closing'[d][m]
        /\ Open(c, n) => closing'[c][n]
    BY <2>1, CloseLaterAdds
  <2>4. \A d \in Conns, m \in Nodes :
          pending[m][d] # "none" => pending'[m][d] # "none" \/ (m = n /\ d = c)
    BY <2>1, PerEndValue DEF LinkType
  <2>. QED BY <2>2, <2>3, <2>4, LeakFree DEF Open
<1>6. ASSUME NEW n \in Nodes, Restart(n) PROVE NoSocketLeaks'
  BY <1>6 DEF Restart, NoSocketLeaks, Open, LinkType
<1>7. ASSUME NEW n \in Nodes, PongTimeout(n) PROVE NoSocketLeaks'
  BY <1>7, LeakFree DEF PongTimeout, Close, mapVars, LinkType
<1>8. ASSUME NEW c \in Conns, NEW n \in Nodes,
             DialFails(c, n) \/ DialDuplicate(c, n) \/ LateDialTimeout(c, n)
      PROVE  NoSocketLeaks'
  <2>1. UNCHANGED <<closing, pending, entry>>
    BY <1>8 DEF DialFails, DialDuplicate, LateDialTimeout, mapVars
  <2>2. \A d \in Conns, m \in Nodes : sock'[d][m] = "open" => sock[d][m] = "open"
    <3>1. CASE DialFails(c, n)
      BY <3>1, CloseOpensNone DEF DialFails
    <3>2. CASE DialDuplicate(c, n)
      <4> DEFINE g == [m \in Nodes |-> IF m = n THEN "closed" ELSE "backlog"]
      <4>1. sock' = [sock EXCEPT ![c] = g]
        BY <3>2 DEF DialDuplicate
      <4>2. \A m \in Nodes : g[m] # "open"
        OBVIOUS
      <4> HIDE DEF g
      <4>. QED BY <4>1, <4>2, ConnValue DEF LinkType
    <3>. QED BY <1>8, <3>1, <3>2 DEF LateDialTimeout
  <2>. QED BY <2>1, <2>2, LeakFree
<1>9. ASSUME NEW c \in Conns, NEW n \in Nodes, DialSucceeds(c, n) PROVE NoSocketLeaks'
  <2>1. entry[n] = NoConn /\ entry' = [entry EXCEPT ![n] = c] /\ UNCHANGED <<closing, pending>>
    BY <1>9 DEF DialSucceeds, AlreadyConnected
  <2>2. \A d \in Conns, m \in Nodes :
          sock'[d][m] = "open" => sock[d][m] = "open" \/ (d = c /\ m = n)
    <3> DEFINE g == [m \in Nodes |-> IF m = n THEN "open" ELSE "backlog"]
    <3>1. sock' = [sock EXCEPT ![c] = g]
      BY <1>9 DEF DialSucceeds
    <3>2. \A m \in Nodes : g[m] = "open" => m = n
      OBVIOUS
    <3> HIDE DEF g
    <3>3. \A d \in Conns, m \in Nodes : sock'[d][m] = IF d = c THEN g[m] ELSE sock[d][m]
      BY <3>1, ConnValue DEF LinkType
    <3>. QED BY <3>2, <3>3
  <2>. QED BY <2>1, <2>2 DEF NoSocketLeaks, Open, LinkType
<1>10. ASSUME NEW c \in Conns, NEW n \in Nodes, Accept(c, n) PROVE NoSocketLeaks'
  BY <1>10 DEF Accept, NoSocketLeaks, Open, LinkType
<1>11. ASSUME NEW c \in Conns, NEW n \in Nodes, OnHandshake(c, n) PROVE NoSocketLeaks'
  <2>1. \A d \in Conns, m \in Nodes : closing[d][m] => closing'[d][m]
    <3>1. Served(c, n) \in Conns
      BY <1>11 DEF OnHandshake, Arrives, CanRead, Served, LinkType
    <3>. QED BY <1>11, <3>1, CloseLaterAdds DEF OnHandshake
  <2>2. \A d \in Conns, m \in Nodes : pending[m][d] # "none" => pending'[m][d] # "none"
    BY <1>11 DEF OnHandshake, LinkType
  <2>3. UNCHANGED <<sock, entry>>
    BY <1>11 DEF OnHandshake
  <2>. QED BY <2>1, <2>2, <2>3, LeakFree
<1>12. ASSUME NEW c \in Conns, NEW n \in Nodes,
              OnAckNo(c, n) \/ BufferOverflow(c, n)
       PROVE  NoSocketLeaks'
  <2>1. UNCHANGED <<closing, pending, entry>>
    BY <1>12 DEF OnAckNo, BufferOverflow
  <2>2. \A d \in Conns, m \in Nodes : sock'[d][m] = "open" => sock[d][m] = "open"
    <3>1. CASE OnAckNo(c, n)
      <4>1. Served(c, n) \in Conns
        BY <3>1 DEF OnAckNo, Arrives, CanRead, Served, LinkType
      <4>. QED BY <3>1, <4>1, CloseOpensNone DEF OnAckNo, Close
    <3>2. CASE BufferOverflow(c, n)
      BY <3>2, CloseOpensNone DEF BufferOverflow, Close
    <3>. QED BY <1>12, <3>1, <3>2
  <2>. QED BY <2>1, <2>2, LeakFree
<1>13. ASSUME NEW c \in Conns, NEW n \in Nodes,
              Answer(c, n) \/ OnAckYes(c, n) \/ OnPong(c, n) \/ OnMessage(c, n) \/ StaleRead(c, n)
       PROVE  UNCHANGED <<sock, closing, pending, entry>>
  BY <1>13 DEF Answer, OnAckYes, OnPong, OnMessage, StaleRead
<1>14. ASSUME NEW c \in Conns, NEW n \in Nodes, PendingReadFails(c, n) PROVE NoSocketLeaks'
  <2>1. pending' = [pending EXCEPT ![n][c] = "none"] /\ UNCHANGED <<closing, entry>>
    BY <1>14 DEF PendingReadFails
  <2>2. CASE pending[n][c] = "none"
    BY <1>14, <2>1, <2>2 DEF PendingReadFails, NoSocketLeaks, Open, LinkType
  <2>3. CASE pending[n][c] # "none"
    BY <1>14, <2>1, <2>3 DEF PendingReadFails, Close, NoSocketLeaks, Open, LinkType
  <2>. QED BY <2>2, <2>3
<1>15. ASSUME NEW c \in Conns, NEW n \in Nodes, PeerReadFails(c, n) PROVE NoSocketLeaks'
  BY <1>15 DEF PeerReadFails, HandleDisconnect, Close, NoSocketLeaks, Open, LinkType
<1>16. ASSUME NEW c \in Conns, NEW n \in Nodes, RunClose(c, n) PROVE NoSocketLeaks'
  BY <1>16 DEF RunClose, Close, mapVars, NoSocketLeaks, Open, LinkType
<1>17. ASSUME NEW c \in Conns, Break(c) \/ Recycle(c) PROVE NoSocketLeaks'
  <2>1. UNCHANGED <<closing, pending, entry>>
    BY <1>17 DEF Break, Recycle, mapVars
  <2>2. \A d \in Conns, m \in Nodes : sock'[d][m] = "open" => sock[d][m] = "open"
    <3>1. CASE Break(c)
      BY <3>1 DEF Break
    <3>2. CASE Recycle(c)
      <4> DEFINE g == [n \in Nodes |-> "none"]
      <4>1. sock' = [sock EXCEPT ![c] = g]
        BY <3>2 DEF Recycle
      <4>2. \A m \in Nodes : g[m] # "open"
        OBVIOUS
      <4> HIDE DEF g
      <4>. QED BY <4>1, <4>2, ConnValue DEF LinkType
    <3>. QED BY <1>17, <3>1, <3>2
  <2>. QED BY <2>1, <2>2, LeakFree
<1>18. CASE UNCHANGED vars
  BY <1>1, <1>18 DEF vars, tcpVars, mapVars
<1>. QED
  BY <1>1, <1>2, <1>3, <1>4, <1>5, <1>6, <1>7, <1>8, <1>9, <1>10, <1>11, <1>12, <1>13,
     <1>14, <1>15, <1>16, <1>17, <1>18
     DEF Next, UserAnswers, Receive

-----------------------------------------------------------------------------
(***************************************************************************)
(* Every record of m_peers and m_pending has a read in progress, unless    *)
(* the read buffer overflows.                                              *)
(***************************************************************************)

LEMMA RecordsReadStep ==
    ASSUME ~Oversize
    PROVE  LinkType /\ EveryRecordIsRead /\ [Next]_vars => EveryRecordIsRead'
<1> SUFFICES ASSUME LinkType, EveryRecordIsRead, [Next]_vars PROVE EveryRecordIsRead'
  OBVIOUS
<1> USE BoundsAssumption
<1>1. CASE UNCHANGED <<pending, entry, pendRead, peerRead>>
  BY <1>1 DEF EveryRecordIsRead
<1>2. ASSUME NEW n \in Nodes,
             UserActs(n) \/ AcceptDuplicate(n) \/ AnswerTooLate(n) \/ StartDial(n)
               \/ TimerFires(n) \/ CancelledTimerRuns(n) \/ FirstPing(n) \/ PingTick(n)
               \/ PongTimeout(n) \/ RunSendFrame(n)
      PROVE  UNCHANGED <<pending, entry, pendRead, peerRead>>
  BY <1>2 DEF UserActs, ConnectToPeer, SendFrame, AcceptDuplicate, AnswerTooLate, StartDial,
     TimerFires, CancelledTimerRuns, FirstPing, PingTick, PongTimeout, RunSendFrame, mapVars
<1>3. ASSUME NEW c \in Conns, NEW n \in Nodes,
             DialFails(c, n) \/ DialDuplicate(c, n) \/ LateDialTimeout(c, n) \/ RunClose(c, n)
      PROVE  UNCHANGED <<pending, entry, pendRead, peerRead>>
  BY <1>3 DEF DialFails, DialDuplicate, LateDialTimeout, RunClose, mapVars
<1>4. ASSUME NEW c \in Conns, Break(c) \/ Recycle(c)
      PROVE  UNCHANGED <<pending, entry, pendRead, peerRead>>
  BY <1>4 DEF Break, Recycle, mapVars
<1>5. ASSUME NEW n \in Nodes, AcceptIncoming(n) PROVE EveryRecordIsRead'
  <2>1. PICK c \in Conns : /\ pending' = [pending EXCEPT ![n][c] = "none"]
                          /\ entry' = [entry EXCEPT ![n] = c]
                          /\ peerRead' = [peerRead EXCEPT ![c][n] = TRUE]
    BY <1>5 DEF AcceptIncoming
  <2>2. UNCHANGED pendRead
    BY <1>5 DEF AcceptIncoming
  <2>. QED BY <2>1, <2>2 DEF EveryRecordIsRead, LinkType
<1>6. ASSUME NEW n \in Nodes, RejectIncoming(n) PROVE EveryRecordIsRead'
  <2>1. PICK c \in Conns : pending' = [pending EXCEPT ![n][c] = "none"]
    BY <1>6 DEF RejectIncoming
  <2>2. UNCHANGED <<entry, pendRead, peerRead>>
    BY <1>6 DEF RejectIncoming
  <2>. QED BY <2>1, <2>2 DEF EveryRecordIsRead, LinkType
<1>7. ASSUME NEW n \in Nodes, Restart(n) PROVE EveryRecordIsRead'
  BY <1>7 DEF Restart, EveryRecordIsRead, LinkType
<1>8. ASSUME NEW c \in Conns, NEW n \in Nodes, DialSucceeds(c, n) PROVE EveryRecordIsRead'
  BY <1>8 DEF DialSucceeds, EveryRecordIsRead, LinkType
<1>9. ASSUME NEW c \in Conns, NEW n \in Nodes, Accept(c, n) PROVE EveryRecordIsRead'
  BY <1>9 DEF Accept, EveryRecordIsRead, LinkType
<1>10. ASSUME NEW c \in Conns, NEW n \in Nodes, Receive(c, n), ~StaleRead(c, n)
       PROVE  EveryRecordIsRead'
  <2>1. ReadOn(c, n) /\ CanRead(c, n) /\ UNCHANGED entry
    BY <1>10 DEF Receive, Answer, OnHandshake, OnAckYes, OnAckNo, OnPong, OnMessage, Arrives
  <2>2. \A d \in Conns, m \in Nodes : pending'[m][d] # "none" => pending[m][d] # "none"
    <3>1. CASE OnHandshake(c, n)
      <4>1. pendRead[c][n] => pending[n][c] # "none"
        BY <2>1 DEF CanRead
      <4>. QED BY <3>1, <4>1 DEF OnHandshake, LinkType
    <3>2. CASE ~OnHandshake(c, n)
      BY <1>10, <3>2 DEF Receive, Answer, OnAckYes, OnAckNo, OnPong, OnMessage
    <3>. QED BY <3>1, <3>2
  <2>3. UNCHANGED pendRead
    BY <2>1 DEF ReadOn
  <2>4. \A d \in Conns, m \in Nodes : entry[m] = d => peerRead'[d][m]
    <3>1. CASE pendRead[c][n]
      BY <2>1, <3>1 DEF ReadOn, EveryRecordIsRead
    <3>2. CASE ~pendRead[c][n]
      <4> DEFINE e == entry[n]
      <4>1. Served(c, n) = e /\ e \in Conns
        BY <2>1, <3>2 DEF CanRead, Served, LinkType
      <4>2. peerRead' = [peerRead EXCEPT ![c][n] = FALSE, ![e][n] = TRUE]
        BY <2>1, <3>2, <4>1 DEF ReadOn
      <4> HIDE DEF e
      <4> TAKE d \in Conns, m \in Nodes
      <4>3. CASE m = n /\ d = e
        BY <4>1, <4>2, <4>3 DEF LinkType
      <4>4. CASE m # n
        BY <4>1, <4>2, <4>4 DEF EveryRecordIsRead, LinkType
      <4>5. CASE m = n /\ d # e
        BY <4>5 DEF e
      <4>. QED BY <4>3, <4>4, <4>5
    <3>. QED BY <3>1, <3>2
  <2>. QED BY <2>1, <2>2, <2>3, <2>4 DEF EveryRecordIsRead
<1>11. ASSUME NEW c \in Conns, NEW n \in Nodes, StaleRead(c, n) PROVE EveryRecordIsRead'
  BY <1>11 DEF StaleRead, EveryRecordIsRead, LinkType
<1>12. ASSUME NEW c \in Conns, NEW n \in Nodes, PendingReadFails(c, n) PROVE EveryRecordIsRead'
  BY <1>12 DEF PendingReadFails, EveryRecordIsRead, LinkType
<1>13. ASSUME NEW c \in Conns, NEW n \in Nodes, PeerReadFails(c, n) PROVE EveryRecordIsRead'
  BY <1>13 DEF PeerReadFails, HandleDisconnect, EveryRecordIsRead, LinkType
<1>14. ASSUME NEW c \in Conns, NEW n \in Nodes PROVE ~BufferOverflow(c, n)
  BY DEF BufferOverflow
<1>15. CASE UNCHANGED vars
  BY <1>1, <1>15 DEF vars, mapVars
<1>. QED
  BY <1>1, <1>2, <1>3, <1>4, <1>5, <1>6, <1>7, <1>8, <1>9, <1>10, <1>11, <1>12, <1>13,
     <1>14, <1>15
     DEF Next, UserAnswers

-----------------------------------------------------------------------------
(***************************************************************************)
(* The rest of the type invariant: the frames on the wires, the counters   *)
(* and flags of the handlers, and the messages.                            *)
(***************************************************************************)

WireType ==
    /\ wire \in [Conns -> [Nodes -> Seq(Frame)]]
    /\ broken \in [Conns -> BOOLEAN]
    /\ late \in [Conns -> {"off", "queued", "aborted"}]

FlagType ==
    /\ up \in [Nodes -> BOOLEAN]
    /\ dialReq \in [Nodes -> BOOLEAN]
    /\ asks \in [Nodes -> Nat]
    /\ rejectReq \in [Nodes -> BOOLEAN]
    /\ pingReq \in [Nodes -> BOOLEAN]
    /\ ping \in [Nodes -> {"idle", "awaiting", "expired"}]
    /\ dials \in Nat /\ breaks \in Nat /\ restarts \in Nat

RetryType ==
    /\ rinfo \in [Nodes -> BOOLEAN]
    /\ attempts \in [Nodes -> Nat]
    /\ timer \in [Nodes -> BOOLEAN]
    /\ orphan \in [Nodes -> Nat]
    /\ cancelled \in [Nodes -> BOOLEAN]

\* The outbox and the queue hold application frames only.
AppFrame == [type : {"MSG"}, id : 1 .. MaxMsgs]

MessageType ==
    /\ outbox \in [Nodes -> Seq(AppFrame)]
    /\ queue \in [Nodes -> Seq(AppFrame)]
    /\ got \in [Nodes -> Seq(1 .. MaxMsgs)]
    /\ stray \in [Nodes -> SUBSET (1 .. MaxMsgs)]
    /\ sent \in 0 .. MaxMsgs

LEMMA FlagTypeStep == FlagType /\ RetryType /\ [Next]_vars => FlagType'
<1> SUFFICES ASSUME FlagType, RetryType, [Next]_vars PROVE FlagType'
  OBVIOUS
<1> USE DEF FlagType
<1>1. ASSUME NEW n \in Nodes,
             UserActs(n) \/ StartDial(n) \/ RunSendFrame(n)
      PROVE  FlagType'
  <2>1. CASE ConnectToPeer(n)
    BY <2>1 DEF ConnectToPeer, mapVars
  <2>4. CASE SendFrame(n)
    BY <2>4 DEF SendFrame, mapVars, postVars
  <2>2. CASE StartDial(n)
    BY <2>2 DEF StartDial, mapVars, countVars
  <2>3. CASE RunSendFrame(n)
    BY <2>3 DEF RunSendFrame, mapVars, postVars, countVars
  <2>. QED BY <1>1, <2>1, <2>2, <2>3, <2>4 DEF UserActs
<1>10. ASSUME NEW n \in Nodes, TimerFires(n) \/ CancelledTimerRuns(n) PROVE FlagType'
  <2>1. AttemptReconnect(n) => dialReq' \in [Nodes -> BOOLEAN]
    <3>1. rinfo[n] \in BOOLEAN
      BY DEF RetryType
    <3>. QED BY <3>1, Zenon DEF AttemptReconnect
  <2>2. AttemptReconnect(n) \/ UNCHANGED dialReq
    BY <1>10, Zenon DEF TimerFires, CancelledTimerRuns
  <2>3. dialReq' \in [Nodes -> BOOLEAN]
    BY <2>1, <2>2
  <2>. QED BY <1>10, <2>3 DEF TimerFires, CancelledTimerRuns, mapVars, countVars
<1>2. ASSUME NEW n \in Nodes, UserAnswers(n) PROVE FlagType'
  <2>1. CASE AcceptIncoming(n)
    BY <2>1 DEF AcceptIncoming, countVars
  <2>2. CASE AcceptDuplicate(n)
    <3>1. asks' \in [Nodes -> Nat] /\ rejectReq' \in [Nodes -> BOOLEAN]
      BY <2>2 DEF AcceptDuplicate
    <3>. QED BY <2>2, <3>1 DEF AcceptDuplicate, mapVars, countVars
  <2>3. CASE RejectIncoming(n) \/ AnswerTooLate(n)
    <3>1. asks' \in [Nodes -> Nat] /\ rejectReq' \in [Nodes -> BOOLEAN]
      <4>1. CASE rejectReq' = [rejectReq EXCEPT ![n] = FALSE] /\ UNCHANGED asks
        BY <4>1
      <4>2. CASE asks[n] > 0 /\ asks' = [asks EXCEPT ![n] = @ - 1] /\ UNCHANGED rejectReq
        BY <4>2
      <4>. QED BY <2>3, <4>1, <4>2 DEF RejectIncoming, AnswerTooLate
    <3>. QED BY <2>3, <3>1 DEF RejectIncoming, AnswerTooLate, mapVars, countVars
  <2>. QED BY <1>2, <2>1, <2>2, <2>3 DEF UserAnswers
<1>3. ASSUME NEW n \in Nodes, FirstPing(n) \/ PingTick(n) \/ PongTimeout(n) PROVE FlagType'
  BY <1>3 DEF FirstPing, PingTick, PongTimeout, SendPing, mapVars, postVars, countVars
<1>4. ASSUME NEW n \in Nodes, Restart(n) PROVE FlagType'
  BY <1>4 DEF Restart
<1>5. ASSUME NEW c \in Conns, NEW n \in Nodes,
             DialFails(c, n) \/ DialDuplicate(c, n) \/ DialSucceeds(c, n)
               \/ LateDialTimeout(c, n) \/ Accept(c, n)
      PROVE  FlagType'
  BY <1>5 DEF DialFails, DialDuplicate, DialSucceeds, LateDialTimeout, Accept, mapVars,
     postVars, countVars
<1>6. ASSUME NEW c \in Conns, NEW n \in Nodes, Receive(c, n) PROVE FlagType'
  <2>1. CASE OnHandshake(c, n)
    BY <2>1 DEF OnHandshake, countVars
  <2>2. CASE OnAckYes(c, n)
    BY <2>2 DEF OnAckYes, postVars, countVars
  <2>3. CASE OnPong(c, n)
    BY <2>3 DEF OnPong, postVars, countVars
  <2>4. CASE Answer(c, n) \/ OnAckNo(c, n) \/ OnMessage(c, n) \/ StaleRead(c, n)
    BY <2>4 DEF Answer, OnAckNo, OnMessage, StaleRead, postVars, countVars
  <2>. QED BY <1>6, <2>1, <2>2, <2>3, <2>4 DEF Receive
<1>7. ASSUME NEW c \in Conns, NEW n \in Nodes,
             BufferOverflow(c, n) \/ PendingReadFails(c, n) \/ PeerReadFails(c, n)
               \/ RunClose(c, n)
      PROVE  FlagType'
  BY <1>7 DEF BufferOverflow, PendingReadFails, PeerReadFails, HandleDisconnect, RunClose,
     mapVars, postVars, countVars
<1>8. ASSUME NEW c \in Conns, Break(c) \/ Recycle(c) PROVE FlagType'
  BY <1>8 DEF Break, Recycle, mapVars, postVars, countVars
<1>9. CASE UNCHANGED vars
  BY <1>9 DEF vars, mapVars, postVars, countVars
<1>. QED
  BY <1>1, <1>2, <1>3, <1>4, <1>5, <1>6, <1>7, <1>8, <1>9, <1>10 DEF Next, RetryType

LEMMA RetryTypeStep == RetryType /\ [Next]_vars => RetryType'
<1> SUFFICES ASSUME RetryType, [Next]_vars PROVE RetryType'
  OBVIOUS
<1> USE DEF RetryType
<1>1. ASSUME NEW n \in Nodes,
             UserActs(n) \/ StartDial(n) \/ RunSendFrame(n) \/ UserAnswers(n)
               \/ FirstPing(n) \/ PingTick(n) \/ PongTimeout(n)
      PROVE  RetryType'
  BY <1>1 DEF UserActs, ConnectToPeer, SendFrame, StartDial, RunSendFrame, UserAnswers,
     AcceptIncoming, AcceptDuplicate, RejectIncoming, AnswerTooLate, FirstPing, PingTick,
     PongTimeout, retryVars
<1>2. ASSUME NEW n \in Nodes, NEW k \in Nat, LoseOwner(n, k),
             attempts' \in [Nodes -> Nat], cancelled' \in [Nodes -> BOOLEAN], UNCHANGED rinfo
      PROVE  RetryType'
  BY <1>2 DEF LoseOwner
<1>3. ASSUME NEW n \in Nodes, CancelledTimerRuns(n) PROVE RetryType'
  <2>1. AttemptReconnect(n) => attempts' \in [Nodes -> Nat]
    BY DEF AttemptReconnect
  <2>2. attempts' \in [Nodes -> Nat] /\ UNCHANGED rinfo
    BY <1>3, <2>1 DEF CancelledTimerRuns
  <2>. QED BY <1>2, <1>3, <2>2 DEF CancelledTimerRuns
<1>4. ASSUME NEW n \in Nodes, TimerFires(n) PROVE RetryType'
  <2>1. attempts' \in [Nodes -> Nat] /\ UNCHANGED <<rinfo, cancelled>>
    BY <1>4 DEF TimerFires, AttemptReconnect
  <2>2. CASE timer' = [timer EXCEPT ![n] = FALSE] /\ UNCHANGED orphan
    BY <2>1, <2>2
  <2>3. CASE orphan[n] > 0 /\ LoseOwner(n, orphan[n] - 1)
    BY <1>2, <2>1, <2>3
  <2>. QED BY <1>4, <2>2, <2>3 DEF TimerFires
<1>5. ASSUME NEW n \in Nodes, Restart(n) PROVE RetryType'
  BY <1>5 DEF Restart
<1>6. ASSUME NEW n \in Nodes, ScheduleReconnect(n) PROVE RetryType'
  <2> DEFINE v == cancelled[n] \/ timer[n]
  <2>1. CASE UNCHANGED retryVars
    BY <2>1 DEF retryVars
  <2>2. CASE /\ rinfo' = [rinfo EXCEPT ![n] = FALSE]
             /\ attempts' = [attempts EXCEPT ![n] = 0]
             /\ UNCHANGED <<timer, orphan, cancelled>>
    BY <2>2
  <2>3. CASE /\ timer' = [timer EXCEPT ![n] = TRUE]
             /\ cancelled' = [cancelled EXCEPT ![n] = v]
             /\ UNCHANGED <<rinfo, attempts, orphan>>
    <3>1. v \in BOOLEAN
      OBVIOUS
    <3> HIDE DEF v
    <3>. QED BY <2>3, <3>1
  <2>. QED BY <1>6, <2>1, <2>2, <2>3 DEF ScheduleReconnect
<1>7. ASSUME NEW n \in Nodes, ResetReconnectState(n), UNCHANGED rinfo PROVE RetryType'
  <2> DEFINE v == cancelled[n] \/ timer[n]
  <2>1. v \in BOOLEAN
    OBVIOUS
  <2>2. /\ cancelled' = [cancelled EXCEPT ![n] = v]
        /\ timer' = [timer EXCEPT ![n] = FALSE]
        /\ attempts' = [attempts EXCEPT ![n] = 0]
        /\ UNCHANGED <<rinfo, orphan>>
    BY <1>7 DEF ResetReconnectState
  <2> HIDE DEF v
  <2>. QED BY <2>1, <2>2
<1>8. ASSUME NEW c \in Conns, NEW n \in Nodes,
             DialFails(c, n) \/ DialSucceeds(c, n) \/ PeerReadFails(c, n)
      PROVE  RetryType'
  BY <1>6, <1>7, <1>8 DEF DialFails, DialSucceeds, PeerReadFails, HandleDisconnect
<1>9. ASSUME NEW c \in Conns, NEW n \in Nodes,
             DialDuplicate(c, n) \/ LateDialTimeout(c, n) \/ Accept(c, n) \/ Receive(c, n)
               \/ BufferOverflow(c, n) \/ PendingReadFails(c, n) \/ RunClose(c, n)
      PROVE  RetryType'
  BY <1>9 DEF DialDuplicate, LateDialTimeout, Accept, Receive, Answer, OnHandshake, OnAckYes,
     OnAckNo, OnPong, OnMessage, StaleRead, BufferOverflow, PendingReadFails, RunClose, retryVars
<1>10. ASSUME NEW c \in Conns, Break(c) \/ Recycle(c) PROVE RetryType'
  BY <1>10 DEF Break, Recycle, retryVars
<1>11. CASE UNCHANGED vars
  BY <1>11 DEF vars, retryVars
<1>. QED
  BY <1>1, <1>3, <1>4, <1>5, <1>8, <1>9, <1>10, <1>11 DEF Next

LEMMA CtlIsFrame == \A t \in Control : Ctl(t) \in Frame
BY DEF Ctl, Frame

LEMMA WrittenType ==
    ASSUME NEW w \in [Conns -> [Nodes -> Seq(Frame)]], NEW c \in Conns, NEW n \in Nodes,
           NEW f \in Frame
    PROVE  Written(w, c, n, f) \in [Conns -> [Nodes -> Seq(Frame)]]
<1>1. CASE Open(c, n) /\ Reaches(c, n)
  <2> DEFINE v == Append(w[c][Other(n)], f)
  <2>1. v \in Seq(Frame)
    BY OtherIsNode
  <2>2. Written(w, c, n, f) = [w EXCEPT ![c][Other(n)] = v]
    BY <1>1 DEF Written
  <2> HIDE DEF v
  <2>. QED BY <2>1, <2>2, OtherIsNode, PerEndUpdate
<1>2. CASE ~(Open(c, n) /\ Reaches(c, n))
  BY <1>2 DEF Written
<1>. QED BY <1>1, <1>2

LEMMA RestType ==
    ASSUME WireType, NEW c \in Conns, NEW n \in Nodes, wire[c][n] # <<>>
    PROVE  Rest(c, n) \in [Conns -> [Nodes -> Seq(Frame)]]
<1> DEFINE v == Tail(wire[c][n])
<1>1. v \in Seq(Frame)
  BY DEF WireType
<1>2. Rest(c, n) = [wire EXCEPT ![c][n] = v]
  BY DEF Rest
<1> HIDE DEF v
<1>. QED BY <1>1, <1>2, PerEndUpdate DEF WireType

LEMMA ClosedWireType ==
    ASSUME WireType, NEW c \in Conns, NEW n \in Nodes, Close(c, n)
    PROVE  wire' \in [Conns -> [Nodes -> Seq(Frame)]]
<1>1. <<>> \in Seq(Frame)
  OBVIOUS
<1>. QED BY <1>1, PerEndUpdate DEF Close, WireType

LEMMA AppFramesAreFrames == AppFrame \subseteq Frame /\ Seq(AppFrame) \subseteq Seq(Frame)
<1>1. AppFrame \subseteq Frame
  BY DEF AppFrame, Frame
<1>. QED BY <1>1, SeqMonotonic

LEMMA MessageTypeStep == MessageType /\ WireType /\ [Next]_vars => MessageType'
<1> SUFFICES ASSUME MessageType, WireType, [Next]_vars PROVE MessageType'
  OBVIOUS
<1> USE DEF MessageType
<1>1. ASSUME NEW n \in Nodes, SendFrame(n) PROVE MessageType'
  <2>1. sent' \in 1 .. MaxMsgs
    BY <1>1, BoundsAssumption DEF SendFrame
  <2>2. Msg(sent + 1) \in AppFrame
    BY <1>1, <2>1 DEF SendFrame, Msg, AppFrame
  <2>3. sent' \in 0 .. MaxMsgs
    BY <2>1
  <2>. QED BY <1>1, <2>2, <2>3 DEF SendFrame
<1>2. ASSUME NEW n \in Nodes,
             ConnectToPeer(n) \/ StartDial(n) \/ TimerFires(n) \/ CancelledTimerRuns(n)
               \/ AcceptDuplicate(n) \/ RejectIncoming(n) \/ AnswerTooLate(n)
               \/ FirstPing(n) \/ PingTick(n) \/ PongTimeout(n)
      PROVE  MessageType'
  BY <1>2 DEF ConnectToPeer, StartDial, TimerFires, CancelledTimerRuns, AcceptDuplicate,
     RejectIncoming, AnswerTooLate, FirstPing, PingTick, PongTimeout, msgVars, countVars
<1>3. ASSUME NEW n \in Nodes, DrainQueue(n), UNCHANGED <<got, stray, sent>> PROVE MessageType'
  BY <1>3 DEF DrainQueue
<1>4. ASSUME NEW n \in Nodes, AcceptIncoming(n) PROVE MessageType'
  BY <1>3, <1>4 DEF AcceptIncoming, countVars
<1>5. ASSUME NEW n \in Nodes, RunSendFrame(n) PROVE MessageType'
  <2>1. outbox' \in [Nodes -> Seq(AppFrame)]
    BY <1>5 DEF RunSendFrame
  <2>2. Append(queue[n], Head(outbox[n])) \in Seq(AppFrame)
    BY <1>5 DEF RunSendFrame
  <2>3. queue' \in [Nodes -> Seq(AppFrame)]
    BY <1>5, <2>2 DEF RunSendFrame, Enqueue
  <2>. QED BY <1>5, <2>1, <2>3 DEF RunSendFrame, countVars
<1>6. ASSUME NEW n \in Nodes, Restart(n) PROVE MessageType'
  <2>1. outbox' = [outbox EXCEPT ![n] = <<>>] /\ queue' = [queue EXCEPT ![n] = <<>>]
    BY <1>6 DEF Restart
  <2>2. UNCHANGED <<got, stray, sent>>
    BY <1>6 DEF Restart
  <2>. QED BY <2>1, <2>2
<1>7. ASSUME NEW n \in Nodes, ScheduleReconnect(n), UNCHANGED <<outbox, got, stray, sent>>
      PROVE  MessageType'
  <2>1. CASE UNCHANGED queue
    BY <1>7, <2>1
  <2>2. CASE queue' = [queue EXCEPT ![n] = <<>>]
    BY <1>7, <2>2
  <2>. QED BY <1>7, <2>1, <2>2 DEF ScheduleReconnect
<1>8. ASSUME NEW c \in Conns, NEW n \in Nodes, DialFails(c, n) \/ PeerReadFails(c, n)
      PROVE  MessageType'
  BY <1>7, <1>8 DEF DialFails, PeerReadFails, HandleDisconnect, countVars
<1>9. ASSUME NEW c \in Conns, NEW n \in Nodes, OnAckYes(c, n) PROVE MessageType'
  BY <1>3, <1>9 DEF OnAckYes, countVars
<1>10. ASSUME NEW c \in Conns, NEW n \in Nodes, OnMessage(c, n) PROVE MessageType'
  <2> DEFINE i == Head(wire[c][n]).id
  <2>1. Head(wire[c][n]) \in Frame /\ Head(wire[c][n]).type = "MSG"
    BY <1>10 DEF OnMessage, Arrives, CanRead, WireType
  <2>2. i \in 1 .. MaxMsgs
    BY <2>1 DEF Frame, Control
  <2>3. UNCHANGED <<outbox, queue, sent>>
    BY <1>10 DEF OnMessage, countVars
  <2>4. CASE pendRead[c][n] /\ pending[n][c] = "anon"
    <3>1. stray' = [stray EXCEPT ![n] = @ \cup {i}] /\ UNCHANGED got
      BY <1>10, <2>4 DEF OnMessage
    <3> HIDE DEF i
    <3>. QED BY <2>2, <2>3, <3>1
  <2>5. CASE ~(pendRead[c][n] /\ pending[n][c] = "anon")
    <3>1. got' = [got EXCEPT ![n] = Append(@, i)] /\ UNCHANGED stray
      BY <1>10, <2>5 DEF OnMessage
    <3> HIDE DEF i
    <3>. QED BY <2>2, <2>3, <3>1
  <2>. QED BY <2>4, <2>5
<1>11. ASSUME NEW c \in Conns, NEW n \in Nodes,
              DialDuplicate(c, n) \/ DialSucceeds(c, n) \/ LateDialTimeout(c, n)
                \/ Accept(c, n) \/ Answer(c, n) \/ OnHandshake(c, n) \/ OnAckNo(c, n)
                \/ OnPong(c, n) \/ StaleRead(c, n) \/ BufferOverflow(c, n)
                \/ PendingReadFails(c, n) \/ RunClose(c, n)
       PROVE  MessageType'
  BY <1>11 DEF DialDuplicate, DialSucceeds, LateDialTimeout, Accept, Answer, OnHandshake,
     OnAckNo, OnPong, StaleRead, BufferOverflow, PendingReadFails, RunClose, msgVars, countVars
<1>12. ASSUME NEW c \in Conns, Break(c) \/ Recycle(c) PROVE MessageType'
  BY <1>12 DEF Break, Recycle, msgVars, countVars
<1>13. CASE UNCHANGED vars
  BY <1>13 DEF vars, msgVars, countVars
<1>. QED
  BY <1>1, <1>2, <1>4, <1>5, <1>6, <1>8, <1>9, <1>10, <1>11, <1>12, <1>13
     DEF Next, UserActs, UserAnswers, Receive

LEMMA WireTypeStep ==
    LinkType /\ WireType /\ MessageType /\ [Next]_vars => WireType'
<1> SUFFICES ASSUME LinkType, WireType, MessageType, [Next]_vars PROVE WireType'
  OBVIOUS
<1>. DEFINE Wires == [Conns -> [Nodes -> Seq(Frame)]]
<1>1. ASSUME wire' \in Wires, UNCHANGED <<broken, late>> PROVE WireType'
  BY <1>1 DEF WireType
<1>2. ASSUME NEW n \in Nodes,
             UserActs(n) \/ StartDial(n) \/ TimerFires(n) \/ CancelledTimerRuns(n)
               \/ AcceptDuplicate(n) \/ AnswerTooLate(n)
      PROVE  UNCHANGED <<wire, broken, late>>
  BY <1>2 DEF UserActs, ConnectToPeer, SendFrame, StartDial, TimerFires, CancelledTimerRuns,
     AcceptDuplicate, AnswerTooLate, tcpVars
<1>3. ASSUME NEW n \in Nodes, AcceptIncoming(n) \/ RejectIncoming(n) PROVE WireType'
  <2>1. PICK c \in Conns, b \in BOOLEAN : wire' = Written(wire, c, n, AckFrame(b))
    BY <1>3 DEF AcceptIncoming, RejectIncoming
  <2>2. AckFrame(b) \in Frame
    BY CtlIsFrame DEF AckFrame, Control
  <2>3. wire' \in Wires
    BY <2>1, <2>2, WrittenType DEF WireType
  <2>. QED BY <1>1, <1>3, <2>3 DEF AcceptIncoming, RejectIncoming
<1>4. ASSUME NEW n \in Nodes, SendPing(n) PROVE wire' \in Wires
  <2>1. HasSocket(n) => entry[n] \in Conns
    BY DEF HasSocket, LinkType
  <2>2. Ctl("PING") \in Frame
    BY CtlIsFrame DEF Control
  <2>3. wire \in Wires
    BY DEF WireType
  <2>4. HasSocket(n) => Written(wire, entry[n], n, Ctl("PING")) \in Wires
    BY <2>1, <2>2, <2>3, WrittenType
  <2>5. CASE HasSocket(n) /\ wire' = Written(wire, entry[n], n, Ctl("PING"))
    BY <2>4, <2>5
  <2>. QED BY <1>4, <2>3, <2>5 DEF SendPing
<1>5. ASSUME NEW n \in Nodes, FirstPing(n) \/ PingTick(n) PROVE WireType'
  BY <1>1, <1>4, <1>5 DEF FirstPing, PingTick
<1>6. ASSUME NEW n \in Nodes, PongTimeout(n) PROVE WireType'
  <2>1. entry[n] \in Conns /\ Close(entry[n], n)
    BY <1>6 DEF PongTimeout, LinkType
  <2>. QED BY <1>1, <1>6, <2>1, ClosedWireType DEF PongTimeout
<1>7. ASSUME NEW n \in Nodes, RunSendFrame(n) PROVE WireType'
  <2>1. Head(outbox[n]) \in Frame
    <3>1. Head(outbox[n]) \in AppFrame
      BY <1>7 DEF RunSendFrame, MessageType
    <3>. QED BY <3>1, AppFramesAreFrames
  <2>2. HasSocket(n) => entry[n] \in Conns
    BY DEF HasSocket, LinkType
  <2>4. wire \in Wires
    BY DEF WireType
  <2>5. HasSocket(n) => Written(wire, entry[n], n, Head(outbox[n])) \in Wires
    BY <2>1, <2>2, <2>4, WrittenType
  <2>3. wire' \in Wires
    BY <1>7, <2>4, <2>5 DEF RunSendFrame
  <2>. QED BY <1>1, <1>7, <2>3 DEF RunSendFrame
<1>8. ASSUME NEW n \in Nodes, Restart(n) PROVE WireType'
  <2>1. \A c \in Conns : [wire[c] EXCEPT ![n] = <<>>] \in [Nodes -> Seq(Frame)]
    BY DEF WireType
  <2>2. wire' \in Wires
    BY <1>8, <2>1 DEF Restart
  <2>3. late' \in [Conns -> {"off", "queued", "aborted"}] /\ UNCHANGED broken
    BY <1>8 DEF Restart, WireType
  <2>. QED BY <2>2, <2>3 DEF WireType
<1>9. ASSUME NEW c \in Conns, NEW n \in Nodes,
             DialFails(c, n) \/ DialDuplicate(c, n) \/ Accept(c, n)
      PROVE  UNCHANGED <<wire, broken, late>>
  BY <1>9 DEF DialFails, DialDuplicate, Accept
<1>10. ASSUME NEW c \in Conns, NEW n \in Nodes, LateDialTimeout(c, n) PROVE WireType'
  BY <1>10 DEF LateDialTimeout, WireType
<1>11. ASSUME NEW c \in Conns, NEW n \in Nodes, DialSucceeds(c, n) PROVE WireType'
  <2>1. <<Ctl("CLIENT_HELLO")>> \in Seq(Frame)
    BY CtlIsFrame DEF Control
  <2>2. wire' \in Wires
    BY <1>11, <2>1, OtherIsNode, PerEndUpdate DEF DialSucceeds, WireType
  <2>3. late' \in [Conns -> {"off", "queued", "aborted"}]
    BY <1>11 DEF DialSucceeds, WireType
  <2>. QED BY <1>11, <2>2, <2>3 DEF DialSucceeds, WireType
<1>12. ASSUME NEW c \in Conns, NEW n \in Nodes, Receive(c, n), ~StaleRead(c, n)
       PROVE  WireType'
  <2>1. wire[c][n] # <<>> /\ Served(c, n) \in Conns
    BY <1>12 DEF Receive, Answer, OnHandshake, OnAckYes, OnAckNo, OnPong, OnMessage, Arrives,
       CanRead, Served, LinkType
  <2>2. Rest(c, n) \in Wires
    BY <2>1, RestType
  <2>3. CASE Answer(c, n)
    <3>1. PICK t \in DOMAIN AnswerTo :
             wire' = Written(Rest(c, n), Served(c, n), n, Ctl(AnswerTo[t]))
      BY <2>3 DEF Answer
    <3>2. Ctl(AnswerTo[t]) \in Frame
      BY CtlIsFrame DEF AnswerTo, Control
    <3>. QED BY <1>1, <2>1, <2>2, <2>3, <3>1, <3>2, WrittenType DEF Answer
  <2>4. CASE OnAckNo(c, n)
    BY <1>1, <2>1, <2>4, ClosedWireType DEF OnAckNo
  <2>5. CASE OnHandshake(c, n) \/ OnAckYes(c, n) \/ OnPong(c, n) \/ OnMessage(c, n)
    BY <1>1, <2>2, <2>5 DEF OnHandshake, OnAckYes, OnPong, OnMessage
  <2>. QED BY <1>12, <2>3, <2>4, <2>5 DEF Receive
<1>13. ASSUME NEW c \in Conns, NEW n \in Nodes, StaleRead(c, n) PROVE WireType'
  <2>1. PICK k \in 1 .. Len(wire[c][n]) :
           wire' = [wire EXCEPT ![c][n] = SubSeq(@, k + 1, Len(@))]
    BY <1>13 DEF StaleRead
  <2> DEFINE v == SubSeq(wire[c][n], k + 1, Len(wire[c][n]))
  <2>2. v \in Seq(Frame)
    BY SubSeqProperties DEF WireType
  <2>3. wire' = [wire EXCEPT ![c][n] = v]
    BY <2>1
  <2> HIDE DEF v
  <2>4. wire' \in Wires
    BY <2>2, <2>3, PerEndUpdate DEF WireType
  <2>. QED BY <1>1, <1>13, <2>4 DEF StaleRead
<1>14. ASSUME NEW c \in Conns, NEW n \in Nodes,
              BufferOverflow(c, n) \/ RunClose(c, n)
       PROVE  WireType'
  BY <1>1, <1>14, ClosedWireType DEF BufferOverflow, RunClose
<1>15. ASSUME NEW c \in Conns, NEW n \in Nodes, PendingReadFails(c, n) PROVE WireType'
  <2>1. wire' \in Wires
    BY <1>15, ClosedWireType DEF PendingReadFails, WireType
  <2>. QED BY <1>1, <1>15, <2>1 DEF PendingReadFails
<1>16. ASSUME NEW c \in Conns, NEW n \in Nodes, PeerReadFails(c, n) PROVE WireType'
  <2>1. entry[n] \in Conns /\ Close(entry[n], n)
    BY <1>16 DEF PeerReadFails, HandleDisconnect, LinkType
  <2>2. late' \in [Conns -> {"off", "queued", "aborted"}] /\ UNCHANGED broken
    BY <1>16 DEF PeerReadFails, WireType
  <2>. QED BY <2>1, <2>2, ClosedWireType DEF WireType
<1>17. ASSUME NEW c \in Conns, Break(c) \/ Recycle(c) PROVE WireType'
  <2>1. [n \in Nodes |-> <<>>] \in [Nodes -> Seq(Frame)]
    OBVIOUS
  <2>2. wire' \in Wires
    BY <1>17, <2>1, ConnUpdate DEF Break, Recycle, WireType
  <2>. QED BY <1>17, <2>2 DEF Break, Recycle, WireType
<1>18. CASE UNCHANGED vars
  BY <1>18 DEF vars, tcpVars, WireType
<1>. QED
  BY <1>1, <1>2, <1>3, <1>5, <1>6, <1>7, <1>8, <1>9, <1>10, <1>11, <1>12, <1>13, <1>14,
     <1>15, <1>16, <1>17, <1>18
     DEF Next, UserAnswers, Receive, WireType

-----------------------------------------------------------------------------
(* The theorems. *)

LEMMA RestTypeInit == Init => WireType /\ FlagType /\ RetryType /\ MessageType
BY BoundsAssumption DEF Init, WireType, FlagType, RetryType, MessageType, PerEnd

\* Every state of NetworkManager's links is well typed: in particular a read
\* always finds a frame or an end of the stream, and the count of reconnect
\* timers that the map has lost never goes below zero.
THEOREM TypeCorrect == Spec => []TypeOK
<1> DEFINE Inv == LinkType /\ WireType /\ FlagType /\ RetryType /\ MessageType
<1>1. Init => Inv
  BY LinkTypeInit, RestTypeInit
<1>2. Inv /\ [Next]_vars => Inv'
  BY LinkTypeStep, WireTypeStep, FlagTypeStep, RetryTypeStep, MessageTypeStep
<1>3. Inv => TypeOK
  <2>1. Seq(AppFrame) \subseteq Seq(Frame)
    BY AppFramesAreFrames
  <2>. QED BY <2>1 DEF LinkType, WireType, FlagType, RetryType, MessageType, TypeOK
<1>. QED BY <1>1, <1>2, <1>3, PTL DEF Spec

\* handleDisconnect(uuid) closes the connection whose read failed, never another.
THEOREM OwnSocketOnly == Spec => []DisconnectHitsOwnSocket
<1>1. Init => LinkType /\ DisconnectHitsOwnSocket
  BY LinkTypeInit DEF Init, PerEnd, DisconnectHitsOwnSocket
<1>. QED BY <1>1, LinkTypeStep, OwnSocketStep, PTL DEF Spec

\* No socket is left open by a path that forgets its record: dialling, accepting,
\* rejecting, the tie-break, the timeouts and every failure close what they drop.
THEOREM NoLeak == Spec => []NoSocketLeaks
<1>1. Init => LinkType /\ NoSocketLeaks
  BY LinkTypeInit DEF Init, PerEnd, NoSocketLeaks, Open
<1>. QED BY <1>1, LinkTypeStep, LeaksStep, PTL DEF Spec

\* As long as no peer sends a line longer than kMaxBufferSize, every record of
\* m_peers and m_pending has a read in progress that notices the far end's death.
THEOREM RecordsAreRead ==
    ASSUME ~Oversize
    PROVE  Spec => []EveryRecordIsRead
<1>1. Init => LinkType /\ EveryRecordIsRead
  BY LinkTypeInit, BoundsAssumption DEF Init, PerEnd, EveryRecordIsRead
<1>2. EveryRecordIsRead /\ LinkType /\ [Next]_vars => EveryRecordIsRead'
  BY RecordsReadStep
<1>. QED BY <1>1, <1>2, LinkTypeStep, PTL DEF Spec

-----------------------------------------------------------------------------
(***************************************************************************)
(* What a slot holds at either end: who dialled it, and which records and  *)
(* frames can be about it.                                                 *)
(***************************************************************************)

\* A socket exists only on a slot somebody has dialled: "dialing" at the dialler's
\* end while the other has none yet, "backlog" only at the other.
SlotsAreDialled ==
    \A c \in Conns, n \in Nodes :
        /\ sock[c][n] # "none" => dialer[c] # 0
        /\ sock[c][n] = "dialing" => dialer[c] = n /\ sock[c][Other(n)] = "none"
        /\ sock[c][n] = "backlog" => dialer[c] = Other(n)

\* What has a record in m_peers or m_pending, or is to be closed, has been connected.
Connected(c, n) == sock[c][n] \in {"open", "closed"}
RecordsAreConnected ==
    \A c \in Conns, n \in Nodes :
        entry[n] = c \/ closing[c][n] \/ pending[n][c] # "none" => Connected(c, n)

\* m_pending is for what the other node dialled.
PendingIsIncoming ==
    \A c \in Conns, n \in Nodes :
        pending[n][c] # "none" \/ pendRead[c][n] => dialer[c] = Other(n)

SlotInv == SlotsAreDialled /\ RecordsAreConnected /\ PendingIsIncoming

\* Frames wait only at an end that can still read them.
FramesAreReadable ==
    \A c \in Conns, n \in Nodes :
        wire[c][n] # <<>> => sock[c][n] \in {"backlog", "open"}

\* The acceptor uses the connection, or has let go of it.
Accepted(c, n) ==
    \/ entry[Other(n)] = c /\ up[Other(n)]
    \/ sock[c][Other(n)] = "closed"

\* An acceptance on its way goes to the dialler, and is true.
AcksAreTrue ==
    \A c \in Conns, n \in Nodes :
        InFlight(c, n, "ACK_YES") => dialer[c] = n /\ Accepted(c, n)

\* A node holds the socket it dialled under the peer's entry.
DiallerHolds ==
    \A c \in Conns, n \in Nodes : dialer[c] = n /\ Open(c, n) => entry[n] = c

\* Closing a socket keeps the slots in order as long as no record is added.
LEMMA CloseKeepsSlots ==
    ASSUME LinkType, SlotInv, NEW c \in Conns, NEW n \in Nodes, sock[c][n] # "none",
           sock' = [sock EXCEPT ![c][n] = "closed"], UNCHANGED dialer,
           \A d \in Conns, m \in Nodes :
              /\ entry'[m] = d => entry[m] = d
              /\ closing'[d][m] => closing[d][m]
              /\ pending'[m][d] # "none" => pending[m][d] # "none"
              /\ pendRead'[d][m] => pendRead[d][m]
    PROVE  SlotInv'
<1>1. \A d \in Conns, m \in Nodes :
        sock'[d][m] = IF d = c /\ m = n THEN "closed" ELSE sock[d][m]
  BY PerEndValue DEF LinkType
<1>2. SlotsAreDialled'
  BY <1>1, OtherIsNode DEF SlotInv, SlotsAreDialled
<1>3. RecordsAreConnected'
  BY <1>1 DEF SlotInv, RecordsAreConnected, Connected
<1>4. PendingIsIncoming'
  BY DEF SlotInv, PendingIsIncoming
<1>. QED BY <1>2, <1>3, <1>4 DEF SlotInv

\* So does any change of the records that leaves the sockets alone.
LEMMA RecordsKeepSlots ==
    ASSUME SlotInv, UNCHANGED <<dialer, sock>>,
           \A d \in Conns, m \in Nodes :
              /\ entry'[m] = d \/ closing'[d][m] \/ pending'[m][d] # "none" => Connected(d, m)
              /\ pending'[m][d] # "none" \/ pendRead'[d][m] => dialer[d] = Other(m)
    PROVE  SlotInv'
BY DEF SlotInv, SlotsAreDialled, RecordsAreConnected, PendingIsIncoming, Connected

\* The two ends of a slot whose dial completes.
LEMMA DialledEnds ==
    ASSUME LinkType, NEW c \in Conns, NEW n \in Nodes, NEW s,
           sock' = [sock EXCEPT ![c] = [m \in Nodes |-> IF m = n THEN s ELSE "backlog"]]
    PROVE  \A d \in Conns, m \in Nodes :
              sock'[d][m] = IF d = c THEN (IF m = n THEN s ELSE "backlog") ELSE sock[d][m]
<1> DEFINE g == [m \in Nodes |-> IF m = n THEN s ELSE "backlog"]
<1>1. \A m \in Nodes : g[m] = IF m = n THEN s ELSE "backlog"
  OBVIOUS
<1>2. sock' = [sock EXCEPT ![c] = g]
  OBVIOUS
<1> HIDE DEF g
<1>. QED BY <1>1, <1>2, ConnValue DEF LinkType

\* What a node closes, serves or holds has been connected.
LEMMA ServedIsConnected ==
    ASSUME LinkType, SlotInv, NEW c \in Conns, NEW n \in Nodes, CanRead(c, n)
    PROVE  Served(c, n) \in Conns /\ Connected(Served(c, n), n)
BY DEF CanRead, Served, Open, Connected, LinkType, SlotInv, RecordsAreConnected

LEMMA EntryIsConnected ==
    ASSUME LinkType, SlotInv, NEW n \in Nodes, entry[n] # NoConn
    PROVE  \E e \in Conns : e = entry[n] /\ sock[e][n] # "none"
<1>1. entry[n] \in Conns
  BY DEF LinkType
<1>2. Connected(entry[n], n)
  BY <1>1 DEF SlotInv, RecordsAreConnected
<1>3. sock[entry[n]][n] # "none"
  BY <1>2 DEF Connected
<1>. QED BY <1>1, <1>3

LEMMA SlotStep == LinkType /\ SlotInv /\ [Next]_vars => SlotInv'
<1> SUFFICES ASSUME LinkType, SlotInv, [Next]_vars PROVE SlotInv'
  OBVIOUS
<1> USE BoundsAssumption
<1>1. CASE UNCHANGED <<dialer, sock, closing, pending, entry, pendRead>>
  BY <1>1 DEF SlotInv, SlotsAreDialled, RecordsAreConnected, PendingIsIncoming, Connected
<1>2. ASSUME NEW n \in Nodes,
             UserActs(n) \/ AcceptDuplicate(n) \/ AnswerTooLate(n) \/ TimerFires(n)
               \/ CancelledTimerRuns(n) \/ FirstPing(n) \/ PingTick(n) \/ RunSendFrame(n)
      PROVE  UNCHANGED <<dialer, sock, closing, pending, entry, pendRead>>
  BY <1>2 DEF UserActs, ConnectToPeer, SendFrame, AcceptDuplicate, AnswerTooLate, TimerFires,
     CancelledTimerRuns, FirstPing, PingTick, RunSendFrame, tcpVars, mapVars
<1>3. ASSUME NEW c \in Conns, NEW n \in Nodes,
             LateDialTimeout(c, n) \/ Answer(c, n) \/ OnAckYes(c, n) \/ OnPong(c, n)
               \/ OnMessage(c, n)
      PROVE  UNCHANGED <<dialer, sock, closing, pending, entry, pendRead>>
  BY <1>3 DEF LateDialTimeout, Answer, OnAckYes, OnPong, OnMessage, ReadOn, mapVars
<1>4. ASSUME NEW n \in Nodes, StartDial(n) PROVE SlotInv'
  <2>1. UNCHANGED <<closing, pending, entry, pendRead>>
    BY <1>4 DEF StartDial, tcpVars, mapVars
  <2>2. CASE AlreadyConnected(n)
    BY <1>1, <1>4, <2>1, <2>2 DEF StartDial, tcpVars
  <2>3. CASE ~AlreadyConnected(n)
    <3>1. PICK c \in Conns : /\ Free(c)
                            /\ dialer' = [dialer EXCEPT ![c] = n]
                            /\ sock' = [sock EXCEPT ![c][n] = "dialing"]
      BY <1>4, <2>3 DEF StartDial
    <3>2. \A d \in Conns, m \in Nodes :
            /\ sock'[d][m] = IF d = c /\ m = n THEN "dialing" ELSE sock[d][m]
            /\ dialer'[d] = IF d = c THEN n ELSE dialer[d]
      BY <3>1, PerEndValue DEF LinkType
    <3>3. \A m \in Nodes : m # 0 /\ Other(m) # 0 /\ sock[c][m] = "none"
      BY <3>1 DEF Free, SlotInv, SlotsAreDialled, Nodes, Other
    <3>4. SlotsAreDialled'
      BY <3>2, <3>3, OtherIsNode DEF SlotInv, SlotsAreDialled
    <3>5. RecordsAreConnected'
      BY <2>1, <3>2, <3>3 DEF SlotInv, RecordsAreConnected, Connected
    <3>6. PendingIsIncoming'
      BY <2>1, <3>1, <3>2, <3>3 DEF SlotInv, PendingIsIncoming, Free
    <3>. QED BY <3>4, <3>5, <3>6 DEF SlotInv
  <2>. QED BY <2>2, <2>3
<1>5. ASSUME NEW c \in Conns, NEW n \in Nodes, NEW s \in {"open", "closed"},
             sock[c][n] = "dialing", UNCHANGED <<dialer, closing, pending, pendRead>>,
             sock' = [sock EXCEPT ![c] = [m \in Nodes |-> IF m = n THEN s ELSE "backlog"]],
             \A d \in Conns, m \in Nodes : entry'[m] = d => entry[m] = d \/ (d = c /\ m = n)
      PROVE  SlotInv'
  <2>1. \A d \in Conns, m \in Nodes :
          sock'[d][m] = IF d = c THEN (IF m = n THEN s ELSE "backlog") ELSE sock[d][m]
    BY <1>5, DialledEnds
  <2>2. dialer[c] = n /\ n # 0 /\ sock[c][Other(n)] = "none"
    BY <1>5 DEF SlotInv, SlotsAreDialled, Nodes
  <2>3. \A m \in Nodes : m # n => m = Other(n) /\ n = Other(m)
    BY DEF Nodes, Other
  <2>4. SlotsAreDialled'
    BY <1>5, <2>1, <2>2, <2>3, OtherIsNode DEF SlotInv, SlotsAreDialled
  <2>5. RecordsAreConnected'
    BY <1>5, <2>1, <2>2, <2>3 DEF SlotInv, RecordsAreConnected, Connected
  <2>6. PendingIsIncoming'
    BY <1>5 DEF SlotInv, PendingIsIncoming
  <2>. QED BY <2>4, <2>5, <2>6 DEF SlotInv
<1>6. ASSUME NEW c \in Conns, NEW n \in Nodes, DialDuplicate(c, n) PROVE SlotInv'
  BY <1>5, <1>6 DEF DialDuplicate, mapVars
<1>7. ASSUME NEW c \in Conns, NEW n \in Nodes, DialSucceeds(c, n) PROVE SlotInv'
  <2>1. \A d \in Conns, m \in Nodes : entry'[m] = d => entry[m] = d \/ (d = c /\ m = n)
    BY <1>7 DEF DialSucceeds, LinkType
  <2>. QED BY <1>5, <1>7, <2>1 DEF DialSucceeds
<1>8. ASSUME NEW c \in Conns, NEW n \in Nodes, Accept(c, n) PROVE SlotInv'
  <2>1. \A d \in Conns, m \in Nodes :
          /\ sock'[d][m] = IF d = c /\ m = n THEN "open" ELSE sock[d][m]
          /\ pendRead'[d][m] => pendRead[d][m] \/ (d = c /\ m = n)
          /\ pending'[m][d] # "none" => pending[m][d] # "none" \/ (d = c /\ m = n)
    BY <1>8 DEF Accept, LinkType
  <2>2. sock[c][n] = "backlog" /\ dialer[c] = Other(n)
    BY <1>8 DEF Accept, SlotInv, SlotsAreDialled
  <2>3. SlotsAreDialled'
    BY <1>8, <2>1, <2>2, OtherIsNode DEF Accept, SlotInv, SlotsAreDialled
  <2>4. RecordsAreConnected'
    BY <1>8, <2>1, <2>2 DEF Accept, SlotInv, RecordsAreConnected, Connected
  <2>5. PendingIsIncoming'
    BY <1>8, <2>1, <2>2 DEF Accept, SlotInv, PendingIsIncoming
  <2>. QED BY <2>3, <2>4, <2>5 DEF SlotInv
<1>9. ASSUME NEW c \in Conns, NEW n \in Nodes, OnHandshake(c, n) PROVE SlotInv'
  <2>1. CanRead(c, n) /\ UNCHANGED <<dialer, sock, entry, pendRead>>
    BY <1>9 DEF OnHandshake, Arrives, ReadOn
  <2>2. \A d \in Conns, m \in Nodes : closing'[d][m] =>
           closing[d][m] \/ (d = Served(c, n) /\ m = n)
    <3>1. CASE TieBreak(n)
      <4> DEFINE s == Served(c, n)
                 v == Open(s, n) \/ closing[s][n]
      <4>1. closing' = [closing EXCEPT ![s][n] = v]
        BY <1>9, <3>1 DEF OnHandshake, CloseLater
      <4>2. s \in Conns
        BY <2>1, ServedIsConnected
      <4> HIDE DEF s, v
      <4>3. \A d \in Conns, m \in Nodes : closing'[d][m] => closing[d][m] \/ (d = s /\ m = n)
        BY <4>1, <4>2, PerEndValue DEF LinkType
      <4>. QED BY <4>3 DEF s
    <3>2. CASE ~TieBreak(n)
      BY <1>9, <3>2 DEF OnHandshake
    <3>. QED BY <3>1, <3>2
  <2>3. \A d \in Conns, m \in Nodes : pending'[m][d] # "none" =>
           pending[m][d] # "none" \/ (d = c /\ m = n /\ pendRead[c][n])
    BY <1>9 DEF OnHandshake, LinkType
  <2>4. Connected(Served(c, n), n) /\ (pendRead[c][n] => Connected(c, n))
    BY <2>1, ServedIsConnected DEF CanRead, Open, Connected
  <2>. QED BY <2>1, <2>2, <2>3, <2>4, RecordsKeepSlots
           DEF SlotInv, RecordsAreConnected, PendingIsIncoming
<1>10. ASSUME NEW c \in Conns, NEW n \in Nodes, OnAckNo(c, n) PROVE SlotInv'
  <2>1. CanRead(c, n) /\ sock' = [sock EXCEPT ![Served(c, n)][n] = "closed"]
    BY <1>10 DEF OnAckNo, Arrives, Close
  <2>2. UNCHANGED <<dialer, closing, pending, entry, pendRead>>
    BY <1>10 DEF OnAckNo, ReadOn
  <2>3. PICK s \in Conns : s = Served(c, n) /\ sock[s][n] # "none"
    BY <2>1, ServedIsConnected DEF Connected
  <2>. QED BY <2>1, <2>2, <2>3, CloseKeepsSlots
<1>11. ASSUME NEW c \in Conns, NEW n \in Nodes, BufferOverflow(c, n) PROVE SlotInv'
  <2>1. sock[c][n] # "none" /\ sock' = [sock EXCEPT ![c][n] = "closed"]
    BY <1>11 DEF BufferOverflow, CanRead, Open, Close
  <2>2. UNCHANGED <<dialer, closing, pending, entry>>
    BY <1>11 DEF BufferOverflow
  <2>3. \A d \in Conns, m \in Nodes : pendRead'[d][m] => pendRead[d][m]
    BY <1>11 DEF BufferOverflow, LinkType
  <2>. QED BY <2>1, <2>2, <2>3, CloseKeepsSlots
<1>12. ASSUME NEW c \in Conns, NEW n \in Nodes, PendingReadFails(c, n) PROVE SlotInv'
  <2>1. UNCHANGED <<dialer, closing, entry>>
    BY <1>12 DEF PendingReadFails
  <2>2. \A d \in Conns, m \in Nodes :
          /\ pendRead'[d][m] => pendRead[d][m]
          /\ pending'[m][d] # "none" => pending[m][d] # "none"
    BY <1>12 DEF PendingReadFails, LinkType
  <2>3. CASE pending[n][c] # "none"
    <3>1. sock[c][n] # "none" /\ sock' = [sock EXCEPT ![c][n] = "closed"]
      BY <1>12, <2>3 DEF PendingReadFails, Close, SlotInv, RecordsAreConnected, Connected
    <3>. QED BY <2>1, <2>2, <3>1, CloseKeepsSlots
  <2>4. CASE pending[n][c] = "none"
    BY <1>12, <2>1, <2>2, <2>4, RecordsKeepSlots
       DEF PendingReadFails, SlotInv, RecordsAreConnected, PendingIsIncoming
  <2>. QED BY <2>3, <2>4
<1>13. ASSUME NEW c \in Conns, NEW n \in Nodes, PeerReadFails(c, n) PROVE SlotInv'
  <2>1. PICK e \in Conns : e = entry[n] /\ sock[e][n] # "none"
    BY <1>13, EntryIsConnected DEF PeerReadFails
  <2>2. sock' = [sock EXCEPT ![e][n] = "closed"] /\ UNCHANGED <<dialer, closing, pending, pendRead>>
    BY <1>13, <2>1 DEF PeerReadFails, HandleDisconnect, Close
  <2>3. \A d \in Conns, m \in Nodes : entry'[m] = d => entry[m] = d
    BY <1>13 DEF PeerReadFails, HandleDisconnect, LinkType
  <2>. QED BY <2>1, <2>2, <2>3, CloseKeepsSlots
<1>14. ASSUME NEW c \in Conns, NEW n \in Nodes, RunClose(c, n) PROVE SlotInv'
  <2>1. sock[c][n] # "none" /\ sock' = [sock EXCEPT ![c][n] = "closed"]
    BY <1>14 DEF RunClose, Close, SlotInv, RecordsAreConnected, Connected
  <2>2. \A d \in Conns, m \in Nodes : closing'[d][m] => closing[d][m]
    BY <1>14 DEF RunClose, LinkType
  <2>. QED BY <1>14, <2>1, <2>2, CloseKeepsSlots DEF RunClose, mapVars
<1>15. ASSUME NEW n \in Nodes, PongTimeout(n) PROVE SlotInv'
  <2>1. PICK e \in Conns : e = entry[n] /\ sock[e][n] # "none"
    BY <1>15, EntryIsConnected DEF PongTimeout
  <2>2. sock' = [sock EXCEPT ![e][n] = "closed"]
        /\ UNCHANGED <<dialer, closing, pending, pendRead, entry>>
    BY <1>15, <2>1 DEF PongTimeout, Close, mapVars
  <2>. QED BY <2>1, <2>2, CloseKeepsSlots
<1>16. ASSUME NEW c \in Conns, NEW n \in Nodes, DialFails(c, n) PROVE SlotInv'
  BY <1>16, CloseKeepsSlots DEF DialFails, mapVars
<1>17. ASSUME NEW n \in Nodes, AcceptIncoming(n) PROVE SlotInv'
  <2>1. PICK c \in Conns : /\ pending[n][c] = "known"
                          /\ pending' = [pending EXCEPT ![n][c] = "none"]
                          /\ entry' = [entry EXCEPT ![n] = c]
    BY <1>17 DEF AcceptIncoming
  <2>2. UNCHANGED <<dialer, sock, closing, pendRead>>
    BY <1>17 DEF AcceptIncoming
  <2>3. \A d \in Conns, m \in Nodes :
          /\ entry'[m] = d => entry[m] = d \/ (d = c /\ m = n)
          /\ pending'[m][d] # "none" => pending[m][d] # "none"
    BY <2>1 DEF LinkType
  <2>. QED BY <2>1, <2>2, <2>3, RecordsKeepSlots
           DEF SlotInv, RecordsAreConnected, PendingIsIncoming
<1>18. ASSUME NEW n \in Nodes, RejectIncoming(n) PROVE SlotInv'
  <2>1. PICK c \in Conns : /\ pending[n][c] = "known"
                          /\ pending' = [pending EXCEPT ![n][c] = "none"]
                          /\ CloseLater(c, n)
    BY <1>18 DEF RejectIncoming
  <2>2. UNCHANGED <<dialer, sock, entry, pendRead>>
    BY <1>18 DEF RejectIncoming
  <2> DEFINE v == Open(c, n) \/ closing[c][n]
  <2>3. closing' = [closing EXCEPT ![c][n] = v]
    BY <2>1 DEF CloseLater
  <2> HIDE DEF v
  <2>4. \A d \in Conns, m \in Nodes :
          /\ closing'[d][m] => closing[d][m] \/ (d = c /\ m = n)
          /\ pending'[m][d] # "none" => pending[m][d] # "none"
    BY <2>1, <2>3, PerEndValue DEF LinkType
  <2>. QED BY <2>1, <2>2, <2>4, RecordsKeepSlots
           DEF SlotInv, RecordsAreConnected, PendingIsIncoming
<1>19. ASSUME NEW c \in Conns, NEW n \in Nodes, StaleRead(c, n) PROVE SlotInv'
  <2>1. \A d \in Conns, m \in Nodes : pendRead'[d][m] => pendRead[d][m]
    BY <1>19 DEF StaleRead, LinkType
  <2>. QED BY <1>19, <2>1, RecordsKeepSlots
           DEF StaleRead, SlotInv, RecordsAreConnected, PendingIsIncoming
<1>20. ASSUME NEW n \in Nodes, Restart(n) PROVE SlotInv'
  <2>1. \A d \in Conns, m \in Nodes :
          sock'[d][m] = IF m = n /\ sock[d][m] # "none" THEN "closed" ELSE sock[d][m]
    BY <1>20 DEF Restart, LinkType
  <2>2. \A d \in Conns, m \in Nodes :
          /\ entry'[m] = d => m # n /\ entry[m] = d
          /\ closing'[d][m] => m # n /\ closing[d][m]
          /\ pending'[m][d] # "none" => m # n /\ pending[m][d] # "none"
          /\ pendRead'[d][m] => m # n /\ pendRead[d][m]
    BY <1>20 DEF Restart, LinkType
  <2>3. UNCHANGED dialer
    BY <1>20 DEF Restart
  <2>4. SlotsAreDialled'
    BY <2>1, <2>3, OtherIsNode DEF SlotInv, SlotsAreDialled
  <2>5. RecordsAreConnected'
    BY <2>1, <2>2 DEF SlotInv, RecordsAreConnected, Connected
  <2>6. PendingIsIncoming'
    BY <2>2, <2>3 DEF SlotInv, PendingIsIncoming
  <2>. QED BY <2>4, <2>5, <2>6 DEF SlotInv
<1>21. ASSUME NEW c \in Conns, Recycle(c) PROVE SlotInv'
  <2>1. \A d \in Conns, m \in Nodes :
          /\ sock'[d][m] = IF d = c THEN "none" ELSE sock[d][m]
          /\ dialer'[d] = IF d = c THEN 0 ELSE dialer[d]
    BY <1>21 DEF Recycle, LinkType
  <2>2. UNCHANGED <<closing, pending, entry, pendRead>>
    BY <1>21 DEF Recycle, mapVars
  <2>3. \A m \in Nodes : /\ pending[m][c] = "none" /\ entry[m] # c
                         /\ ~pendRead[c][m] /\ ~closing[c][m]
    BY <1>21 DEF Recycle
  <2>4. SlotsAreDialled'
    BY <2>1, OtherIsNode DEF SlotInv, SlotsAreDialled
  <2>5. RecordsAreConnected'
    BY <2>1, <2>2, <2>3 DEF SlotInv, RecordsAreConnected, Connected
  <2>6. PendingIsIncoming'
    BY <2>1, <2>2, <2>3 DEF SlotInv, PendingIsIncoming
  <2>. QED BY <2>4, <2>5, <2>6 DEF SlotInv
<1>22. ASSUME NEW c \in Conns, Break(c)
       PROVE  UNCHANGED <<dialer, sock, closing, pending, entry, pendRead>>
  BY <1>22 DEF Break, mapVars
<1>23. CASE UNCHANGED vars
  BY <1>1, <1>23 DEF vars, tcpVars, mapVars
<1>. QED
  BY <1>1, <1>2, <1>3, <1>4, <1>6, <1>7, <1>8, <1>9, <1>10, <1>11, <1>12, <1>13, <1>14,
     <1>15, <1>16, <1>17, <1>18, <1>19, <1>20, <1>21, <1>22, <1>23
     DEF Next, UserAnswers, Receive

-----------------------------------------------------------------------------
(***************************************************************************)
(* A remembered peer that is not connected has an attempt outstanding.     *)
(***************************************************************************)

Outstanding(n) ==
    \/ timer[n] \/ orphan[n] > 0 \/ dialReq[n]
    \/ \E c \in Conns : sock[c][n] = "dialing"

\* Closing a connected socket gives up no dial.
LEMMA CloseKeepsDials ==
    ASSUME LinkType, NEW c \in Conns, NEW n \in Nodes, Connected(c, n),
           sock' = [sock EXCEPT ![c][n] = "closed"]
    PROVE  \A d \in Conns, m \in Nodes : sock[d][m] = "dialing" => sock'[d][m] = "dialing"
BY PerEndValue DEF LinkType, Connected

\* A step that gives up no attempt and loses no entry.
LEMMA AttemptsKept ==
    ASSUME LostPeerIsRedialled,
           \A m \in Nodes :
              /\ rinfo'[m] => rinfo[m] \/ entry'[m] # NoConn
              /\ entry'[m] = NoConn => entry[m] = NoConn
              /\ timer[m] \/ orphan[m] > 0 \/ dialReq[m] =>
                    timer'[m] \/ orphan'[m] > 0 \/ dialReq'[m]
              /\ \A d \in Conns : sock[d][m] = "dialing" => sock'[d][m] = "dialing"
    PROVE  LostPeerIsRedialled'
BY DEF LostPeerIsRedialled

\* A step of node n about its own attempts.
LEMMA OwnAttempts ==
    ASSUME LostPeerIsRedialled, NEW n \in Nodes,
           rinfo'[n] /\ entry'[n] = NoConn => Outstanding(n)',
           \A m \in Nodes \ {n} :
              /\ rinfo'[m] = rinfo[m] /\ entry'[m] = entry[m]
              /\ timer'[m] = timer[m] /\ orphan'[m] = orphan[m] /\ dialReq'[m] = dialReq[m]
              /\ \A d \in Conns : sock[d][m] = "dialing" => sock'[d][m] = "dialing"
    PROVE  LostPeerIsRedialled'
<1> SUFFICES ASSUME NEW m \in Nodes, rinfo'[m], entry'[m] = NoConn PROVE Outstanding(m)'
  BY DEF LostPeerIsRedialled, Outstanding
<1>1. CASE m = n
  BY <1>1
<1>2. CASE m # n
  <2>1. Outstanding(m)
    BY <1>2 DEF LostPeerIsRedialled, Outstanding
  <2>. QED BY <1>2, <2>1 DEF Outstanding
<1>. QED BY <1>1, <1>2

\* After scheduleReconnect a remembered peer has a timer.
LEMMA ScheduledHasTimer ==
    ASSUME RetryType, NEW n \in Nodes, ScheduleReconnect(n)
    PROVE  /\ rinfo'[n] => timer'[n]
           /\ \A m \in Nodes \ {n} : rinfo'[m] = rinfo[m] /\ timer'[m] = timer[m]
           /\ UNCHANGED orphan
<1>1. CASE ~rinfo[n] /\ UNCHANGED retryVars
  BY <1>1 DEF retryVars
<1>2. CASE rinfo' = [rinfo EXCEPT ![n] = FALSE] /\ UNCHANGED <<timer, orphan>>
  BY <1>2 DEF RetryType
<1>3. CASE timer' = [timer EXCEPT ![n] = TRUE] /\ UNCHANGED <<rinfo, orphan>>
  BY <1>3 DEF RetryType
<1>. QED BY <1>1, <1>2, <1>3 DEF ScheduleReconnect

LEMMA RedialStep ==
    ASSUME MaxOrphans > 0
    PROVE  LinkType /\ SlotInv /\ RetryType /\ FlagType /\ LostPeerIsRedialled /\ [Next]_vars
              => LostPeerIsRedialled'
<1> SUFFICES ASSUME LinkType, SlotInv, RetryType, FlagType, LostPeerIsRedialled, [Next]_vars
             PROVE  LostPeerIsRedialled'
  OBVIOUS
<1> USE BoundsAssumption
<1>1. CASE UNCHANGED <<rinfo, entry, timer, orphan, dialReq, sock>>
  BY <1>1, AttemptsKept
<1>2. ASSUME NEW n \in Nodes,
             SendFrame(n) \/ AcceptDuplicate(n) \/ RejectIncoming(n) \/ AnswerTooLate(n)
               \/ FirstPing(n) \/ PingTick(n) \/ RunSendFrame(n)
      PROVE  UNCHANGED <<rinfo, entry, timer, orphan, dialReq, sock>>
  BY <1>2 DEF SendFrame, AcceptDuplicate, RejectIncoming, AnswerTooLate, FirstPing, PingTick,
     RunSendFrame, tcpVars, mapVars, postVars, retryVars
<1>3. ASSUME NEW c \in Conns, NEW n \in Nodes,
             LateDialTimeout(c, n) \/ Answer(c, n) \/ OnHandshake(c, n) \/ OnAckYes(c, n)
               \/ OnPong(c, n) \/ OnMessage(c, n) \/ StaleRead(c, n)
      PROVE  UNCHANGED <<rinfo, entry, timer, orphan, dialReq, sock>>
  BY <1>3 DEF LateDialTimeout, Answer, OnHandshake, OnAckYes, OnPong, OnMessage, StaleRead,
     mapVars, postVars, retryVars
<1>4. ASSUME NEW n \in Nodes, ConnectToPeer(n) PROVE LostPeerIsRedialled'
  <2>1. \A m \in Nodes : dialReq[m] => dialReq'[m]
    BY <1>4 DEF ConnectToPeer, FlagType
  <2>. QED BY <1>4, <2>1, AttemptsKept DEF ConnectToPeer, tcpVars, mapVars, retryVars
<1>5. ASSUME NEW n \in Nodes, StartDial(n) PROVE LostPeerIsRedialled'
  <2>1. /\ \A m \in Nodes \ {n} : dialReq'[m] = dialReq[m]
        /\ UNCHANGED <<entry, timer, orphan>>
    BY <1>5 DEF StartDial, FlagType, mapVars
  <2>2. CASE AlreadyConnected(n)
    BY <1>5, <2>1, <2>2, OwnAttempts DEF StartDial, AlreadyConnected, tcpVars
  <2>3. CASE ~AlreadyConnected(n)
    <3>1. PICK c \in Conns : sock' = [sock EXCEPT ![c][n] = "dialing"]
      BY <1>5, <2>3 DEF StartDial
    <3>2. \A d \in Conns, m \in Nodes :
            sock'[d][m] = IF d = c /\ m = n THEN "dialing" ELSE sock[d][m]
      BY <3>1, PerEndValue DEF LinkType
    <3>3. \A m \in Nodes \ {n} : rinfo'[m] = rinfo[m]
      BY <1>5, <2>3 DEF StartDial, RetryType
    <3>4. Outstanding(n)'
      BY <3>2 DEF Outstanding
    <3>. QED BY <2>1, <3>2, <3>3, <3>4, OwnAttempts
  <2>. QED BY <2>2, <2>3
<1>6. ASSUME NEW n \in Nodes, AttemptReconnect(n)
      PROVE  /\ dialReq'[n] = rinfo[n]
             /\ \A m \in Nodes \ {n} : dialReq'[m] = dialReq[m]
  <2> DEFINE v == rinfo[n]
  <2>1. dialReq' = [dialReq EXCEPT ![n] = v]
    BY <1>6 DEF AttemptReconnect
  <2> HIDE DEF v
  <2>2. dialReq'[n] = v /\ \A m \in Nodes \ {n} : dialReq'[m] = dialReq[m]
    BY <2>1 DEF FlagType
  <2>. QED BY <2>2 DEF v
<1>7. ASSUME NEW n \in Nodes, NEW k \in Nat, LoseOwner(n, k)
      PROVE  \A m \in Nodes \ {n} : timer'[m] = timer[m] /\ orphan'[m] = orphan[m]
  BY <1>7 DEF LoseOwner, RetryType
<1>8. ASSUME NEW n \in Nodes, TimerFires(n) PROVE LostPeerIsRedialled'
  <2>1. UNCHANGED <<rinfo, entry, sock>> /\ AttemptReconnect(n)
    BY <1>8 DEF TimerFires, tcpVars, mapVars
  <2>2. \A m \in Nodes \ {n} : timer'[m] = timer[m] /\ orphan'[m] = orphan[m]
    <3>1. CASE timer' = [timer EXCEPT ![n] = FALSE] /\ UNCHANGED orphan
      BY <3>1 DEF RetryType
    <3>2. CASE orphan[n] > 0 /\ LoseOwner(n, orphan[n] - 1)
      <4>1. orphan[n] - 1 \in Nat
        BY <3>2 DEF RetryType
      <4>. QED BY <1>7, <3>2, <4>1
    <3>. QED BY <1>8, <3>1, <3>2 DEF TimerFires
  <2>3. rinfo'[n] => Outstanding(n)'
    BY <1>6, <2>1 DEF Outstanding
  <2>. QED BY <1>6, <2>1, <2>2, <2>3, OwnAttempts
<1>9. ASSUME NEW n \in Nodes, CancelledTimerRuns(n) PROVE LostPeerIsRedialled'
  <2>1. UNCHANGED <<rinfo, entry, sock>> /\ LoseOwner(n, orphan[n])
    BY <1>9 DEF CancelledTimerRuns, tcpVars, mapVars
  <2>2. /\ UNCHANGED dialReq \/ (dialReq'[n] = rinfo[n] /\ ~dialReq[n])
        /\ \A m \in Nodes \ {n} : dialReq'[m] = dialReq[m]
    BY <1>6, <1>9 DEF CancelledTimerRuns
  <2>3. timer[n] \/ orphan[n] > 0 => orphan'[n] > 0
    <3>1. orphan'[n] = IF timer[n] /\ orphan[n] < MaxOrphans THEN orphan[n] + 1 ELSE orphan[n]
      BY <2>1 DEF LoseOwner, RetryType
    <3>2. orphan[n] \in Nat /\ MaxOrphans \in Nat
      BY DEF RetryType
    <3>. QED BY <3>1, <3>2
  <2>4. rinfo'[n] /\ entry'[n] = NoConn => Outstanding(n)'
    <3>1. rinfo[n] /\ entry[n] = NoConn => Outstanding(n)
      BY DEF LostPeerIsRedialled, Outstanding
    <3>. QED BY <2>1, <2>2, <2>3, <3>1 DEF Outstanding
  <2>5. \A m \in Nodes \ {n} : timer'[m] = timer[m] /\ orphan'[m] = orphan[m]
    BY <1>7, <2>1 DEF RetryType
  <2>. QED BY <2>1, <2>2, <2>4, <2>5, OwnAttempts
<1>10. ASSUME NEW n \in Nodes, AcceptIncoming(n) PROVE LostPeerIsRedialled'
  <2>1. PICK c \in Conns : entry' = [entry EXCEPT ![n] = c]
    BY <1>10 DEF AcceptIncoming
  <2>2. \A m \in Nodes : entry'[m] = IF m = n THEN c ELSE entry[m]
    BY <2>1 DEF LinkType
  <2>3. \A m \in Nodes : rinfo'[m] => rinfo[m] \/ m = n
    BY <1>10 DEF AcceptIncoming, RetryType
  <2>4. UNCHANGED <<timer, orphan, dialReq, sock>>
    BY <1>10 DEF AcceptIncoming
  <2>. QED BY <2>2, <2>3, <2>4, AttemptsKept
<1>11. ASSUME NEW n \in Nodes, PongTimeout(n) PROVE LostPeerIsRedialled'
  <2>1. PICK e \in Conns : e = entry[n] /\ Connected(e, n)
    BY <1>11 DEF PongTimeout, LinkType, SlotInv, RecordsAreConnected
  <2>2. \A d \in Conns, m \in Nodes : sock[d][m] = "dialing" => sock'[d][m] = "dialing"
    BY <1>11, <2>1, CloseKeepsDials DEF PongTimeout, Close
  <2>. QED BY <1>11, <2>2, AttemptsKept DEF PongTimeout, mapVars, postVars, retryVars
<1>12. ASSUME NEW n \in Nodes, Restart(n) PROVE LostPeerIsRedialled'
  <2>1. \A d \in Conns, m \in Nodes \ {n} : sock'[d][m] = sock[d][m]
    BY <1>12 DEF Restart, LinkType
  <2>2. \A m \in Nodes \ {n} : /\ rinfo'[m] = rinfo[m] /\ entry'[m] = entry[m]
                               /\ timer'[m] = timer[m] /\ orphan'[m] = orphan[m]
                               /\ dialReq'[m] = dialReq[m]
    BY <1>12 DEF Restart, LinkType, RetryType, FlagType
  <2>3. ~rinfo'[n]
    BY <1>12 DEF Restart, RetryType
  <2>. QED BY <2>1, <2>2, <2>3, OwnAttempts
<1>13. ASSUME NEW c \in Conns, NEW n \in Nodes, DialFails(c, n) PROVE LostPeerIsRedialled'
  <2>1. UNCHANGED <<entry, dialReq>> /\ ScheduleReconnect(n)
    BY <1>13 DEF DialFails, mapVars, postVars
  <2>2. \A d \in Conns, m \in Nodes \ {n} : sock'[d][m] = sock[d][m]
    BY <1>13 DEF DialFails, LinkType
  <2>. QED BY <2>1, <2>2, ScheduledHasTimer, OwnAttempts DEF Outstanding
<1>14. ASSUME NEW c \in Conns, NEW n \in Nodes,
              DialDuplicate(c, n) \/ DialSucceeds(c, n)
       PROVE  \A d \in Conns, m \in Nodes \ {n} :
                 sock[d][m] = "dialing" => sock'[d][m] = "dialing"
  <2>1. dialer[c] = n
    BY <1>14 DEF DialDuplicate, DialSucceeds, SlotInv, SlotsAreDialled
  <2>2. \A m \in Nodes \ {n} : sock[c][m] # "dialing"
    BY <2>1 DEF SlotInv, SlotsAreDialled
  <2>3. \A d \in Conns \ {c}, m \in Nodes : sock'[d][m] = sock[d][m]
    BY <1>14, DialledEnds DEF DialDuplicate, DialSucceeds
  <2>. QED BY <2>2, <2>3
<1>15. ASSUME NEW c \in Conns, NEW n \in Nodes, DialDuplicate(c, n) PROVE LostPeerIsRedialled'
  <2>1. entry[n] # NoConn /\ UNCHANGED <<rinfo, entry, timer, orphan, dialReq>>
    BY <1>15 DEF DialDuplicate, AlreadyConnected, mapVars, postVars, retryVars
  <2>. QED BY <1>14, <1>15, <2>1, OwnAttempts
<1>16. ASSUME NEW c \in Conns, NEW n \in Nodes, DialSucceeds(c, n) PROVE LostPeerIsRedialled'
  <2>1. entry' = [entry EXCEPT ![n] = c] /\ UNCHANGED <<rinfo, dialReq>>
        /\ ResetReconnectState(n)
    BY <1>16 DEF DialSucceeds
  <2>2. \A m \in Nodes \ {n} : timer'[m] = timer[m] /\ orphan'[m] = orphan[m]
    BY <2>1 DEF ResetReconnectState, RetryType
  <2>3. entry'[n] # NoConn /\ \A m \in Nodes \ {n} : entry'[m] = entry[m]
    BY <2>1 DEF LinkType
  <2>. QED BY <1>14, <1>16, <2>1, <2>2, <2>3, OwnAttempts
<1>17. ASSUME NEW c \in Conns, NEW n \in Nodes, Accept(c, n) PROVE LostPeerIsRedialled'
  <2>1. \A d \in Conns, m \in Nodes : sock[d][m] = "dialing" => sock'[d][m] = "dialing"
    BY <1>17 DEF Accept, LinkType
  <2>. QED BY <1>17, <2>1, AttemptsKept DEF Accept, postVars, retryVars
<1>18. ASSUME NEW c \in Conns, NEW n \in Nodes,
              OnAckNo(c, n) \/ BufferOverflow(c, n) \/ PendingReadFails(c, n) \/ RunClose(c, n)
       PROVE  LostPeerIsRedialled'
  <2>1. UNCHANGED <<rinfo, entry, timer, orphan, dialReq>>
    BY <1>18 DEF OnAckNo, BufferOverflow, PendingReadFails, RunClose, mapVars, postVars, retryVars
  <2>2. \A d \in Conns, m \in Nodes : sock[d][m] = "dialing" => sock'[d][m] = "dialing"
    <3>1. CASE OnAckNo(c, n)
      <4>1. CanRead(c, n) /\ sock' = [sock EXCEPT ![Served(c, n)][n] = "closed"]
        BY <3>1 DEF OnAckNo, Arrives, Close
      <4>2. PICK s \in Conns : s = Served(c, n) /\ Connected(s, n)
        BY <4>1, ServedIsConnected
      <4>. QED BY <4>1, <4>2, CloseKeepsDials
    <3>2. CASE BufferOverflow(c, n)
      BY <3>2, CloseKeepsDials DEF BufferOverflow, CanRead, Open, Connected, Close
    <3>3. CASE PendingReadFails(c, n)
      <4>1. pending[n][c] # "none" => Connected(c, n)
        BY DEF SlotInv, RecordsAreConnected
      <4>. QED BY <3>3, <4>1, CloseKeepsDials DEF PendingReadFails, Close
    <3>4. CASE RunClose(c, n)
      <4>1. Connected(c, n)
        BY <3>4 DEF RunClose, SlotInv, RecordsAreConnected
      <4>. QED BY <3>4, <4>1, CloseKeepsDials DEF RunClose, Close
    <3>. QED BY <1>18, <3>1, <3>2, <3>3, <3>4
  <2>. QED BY <2>1, <2>2, AttemptsKept
<1>19. ASSUME NEW c \in Conns, NEW n \in Nodes, PeerReadFails(c, n) PROVE LostPeerIsRedialled'
  <2>1. ScheduleReconnect(n) /\ UNCHANGED dialReq
    BY <1>19 DEF PeerReadFails, HandleDisconnect, postVars
  <2>2. \A m \in Nodes \ {n} : entry'[m] = entry[m]
    BY <1>19 DEF PeerReadFails, HandleDisconnect, LinkType
  <2>3. \A d \in Conns, m \in Nodes \ {n} : sock'[d][m] = sock[d][m]
    BY <1>19 DEF PeerReadFails, HandleDisconnect, Close, LinkType
  <2>. QED BY <2>1, <2>2, <2>3, ScheduledHasTimer, OwnAttempts DEF Outstanding
<1>20. ASSUME NEW c \in Conns, Recycle(c) PROVE LostPeerIsRedialled'
  <2>1. \A d \in Conns, m \in Nodes : sock[d][m] = "dialing" => sock'[d][m] = "dialing"
    BY <1>20 DEF Recycle, LinkType
  <2>. QED BY <1>20, <2>1, AttemptsKept DEF Recycle, mapVars, postVars, retryVars
<1>21. ASSUME NEW c \in Conns, Break(c)
       PROVE  UNCHANGED <<rinfo, entry, timer, orphan, dialReq, sock>>
  BY <1>21 DEF Break, mapVars, postVars, retryVars
<1>22. CASE UNCHANGED vars
  BY <1>1, <1>22 DEF vars, tcpVars, mapVars, postVars, retryVars
<1>. QED
  BY <1>1, <1>2, <1>3, <1>4, <1>5, <1>8, <1>9, <1>10, <1>11, <1>12, <1>13, <1>15, <1>16,
     <1>17, <1>18, <1>19, <1>20, <1>21, <1>22
     DEF Next, UserActs, UserAnswers, Receive

-----------------------------------------------------------------------------
(***************************************************************************)
(* What is on the wires, and the acceptance the dialler is told of.        *)
(***************************************************************************)

Wires == [Conns -> [Nodes -> Seq(Frame)]]

\* What a write leaves on each wire.
LEMMA WrittenValue ==
    ASSUME NEW w \in Wires, NEW c \in Conns, NEW n \in Nodes,
           NEW f \in Frame, NEW d \in Conns, NEW m \in Nodes
    PROVE  Written(w, c, n, f)[d][m] =
              IF d = c /\ m = Other(n) /\ Open(c, n) /\ Reaches(c, n)
              THEN Append(w[d][m], f) ELSE w[d][m]
<1>1. CASE Open(c, n) /\ Reaches(c, n)
  <2> DEFINE v == Append(w[c][Other(n)], f)
  <2>1. Written(w, c, n, f) = [w EXCEPT ![c][Other(n)] = v]
    BY <1>1 DEF Written
  <2>2. v = Append(w[c][Other(n)], f)
    OBVIOUS
  <2> HIDE DEF v
  <2>. QED BY <1>1, <2>1, <2>2, OtherIsNode, PerEndValue DEF Wires
<1>2. CASE ~(Open(c, n) /\ Reaches(c, n))
  BY <1>2 DEF Written
<1>. QED BY <1>1, <1>2

\* The frames of type t in a sequence.
Has(s, t) == \E i \in DOMAIN s : s[i].type = t

LEMMA HasAppend ==
    ASSUME NEW s \in Seq(Frame), NEW f \in Frame, NEW t, Has(Append(s, f), t)
    PROVE  Has(s, t) \/ f.type = t
BY DEF Has

LEMMA HasTail ==
    ASSUME NEW s \in Seq(Frame), s # <<>>, NEW t, Has(Tail(s), t)
    PROVE  Has(s, t)
BY DEF Has

LEMMA HasRest ==
    ASSUME NEW s \in Seq(Frame), NEW k \in 1 .. Len(s), NEW t,
           Has(SubSeq(s, k + 1, Len(s)), t)
    PROVE  Has(s, t)
<1> DEFINE r == SubSeq(s, k + 1, Len(s))
<1>1. PICK i \in DOMAIN r : r[i].type = t
  BY DEF Has
<1>2. k + i \in 1 .. Len(s) /\ r[i] = s[k + i]
  OBVIOUS
<1>3. DOMAIN s = 1 .. Len(s)
  OBVIOUS
<1>. QED BY <1>1, <1>2, <1>3 DEF Has

LEMMA EmptyHasNone == \A t : ~Has(<<>>, t)
BY DEF Has

\* A frame is on its way to m over d after the step only if it was before the step or is
\* written by it: to an end that can read it, and an acceptance only by acceptIncoming.
Grows(d, m) == wire'[d][m] # <<>> => wire[d][m] # <<>> \/ Reaches(d, Other(m))
NoNewAck(d, m) == Has(wire'[d][m], "ACK_YES") => Has(wire[d][m], "ACK_YES")
Flows == \A d \in Conns, m \in Nodes : Grows(d, m) /\ NoNewAck(d, m)

LEMMA WrittenFlows ==
    ASSUME WireType, NEW c \in Conns, NEW n \in Nodes, NEW f \in Frame, f.type # "ACK_YES",
           NEW w \in Wires, wire' = Written(w, c, n, f),
           \A d \in Conns, m \in Nodes :
              /\ w[d][m] # <<>> => wire[d][m] # <<>>
              /\ Has(w[d][m], "ACK_YES") => Has(wire[d][m], "ACK_YES")
    PROVE  Flows
<1> SUFFICES ASSUME NEW d \in Conns, NEW m \in Nodes PROVE Grows(d, m) /\ NoNewAck(d, m)
  BY DEF Flows
<1>0. Written(w, c, n, f)[d][m] = IF d = c /\ m = Other(n) /\ Open(c, n) /\ Reaches(c, n)
                                  THEN Append(w[d][m], f) ELSE w[d][m]
  BY WrittenValue
<1>1. wire'[d][m] = IF d = c /\ m = Other(n) /\ Open(c, n) /\ Reaches(c, n)
                    THEN Append(w[d][m], f) ELSE w[d][m]
  BY <1>0
<1>2. m = Other(n) => Other(m) = n
  BY DEF Nodes, Other
<1>3. Has(Append(w[d][m], f), "ACK_YES") => Has(w[d][m], "ACK_YES")
  BY HasAppend DEF Wires
<1>. QED BY <1>1, <1>2, <1>3 DEF Grows, NoNewAck

LEMMA RestFlows ==
    ASSUME WireType, NEW c \in Conns, NEW n \in Nodes, wire[c][n] # <<>>
    PROVE  \A d \in Conns, m \in Nodes :
              /\ Rest(c, n)[d][m] # <<>> => wire[d][m] # <<>>
              /\ Has(Rest(c, n)[d][m], "ACK_YES") => Has(wire[d][m], "ACK_YES")
<1> DEFINE v == Tail(wire[c][n])
<1>1. Rest(c, n) = [wire EXCEPT ![c][n] = v]
  BY DEF Rest
<1>2. Has(v, "ACK_YES") => Has(wire[c][n], "ACK_YES")
  BY HasTail DEF WireType
<1> HIDE DEF v
<1>. QED BY <1>1, <1>2, PerEndValue DEF WireType

LEMMA CloseFlows ==
    ASSUME WireType, NEW c \in Conns, NEW n \in Nodes, wire' = [wire EXCEPT ![c][n] = <<>>]
    PROVE  Flows
<1>1. \A d \in Conns, m \in Nodes :
        wire'[d][m] = IF d = c /\ m = n THEN <<>> ELSE wire[d][m]
  BY PerEndValue DEF WireType
<1>. QED BY <1>1, EmptyHasNone DEF Flows, Grows, NoNewAck

LEMMA KeepFlows == UNCHANGED wire => Flows
BY DEF Flows, Grows, NoNewAck

\* The steps of the peers' handlers, but for dialling and accepting.
LEMMA FlowStep ==
    ASSUME LinkType, WireType, MessageType, [Next]_vars,
           \A c \in Conns, n \in Nodes : ~DialSucceeds(c, n),
           \A n \in Nodes : ~AcceptIncoming(n)
    PROVE  Flows
<1> USE BoundsAssumption
<1>1. \A t \in Control : Ctl(t) \in Frame /\ Ctl(t).type = t
  BY CtlIsFrame DEF Ctl
<1>2. wire \in Wires
  BY DEF WireType, Wires
<1>3. ASSUME NEW n \in Nodes,
             UserActs(n) \/ StartDial(n) \/ TimerFires(n) \/ CancelledTimerRuns(n)
               \/ AcceptDuplicate(n) \/ AnswerTooLate(n)
      PROVE  UNCHANGED wire
  BY <1>3 DEF UserActs, ConnectToPeer, SendFrame, StartDial, TimerFires, CancelledTimerRuns,
     AcceptDuplicate, AnswerTooLate, tcpVars
<1>4. ASSUME NEW n \in Nodes, RejectIncoming(n) PROVE Flows
  <2>1. PICK c \in Conns : wire' = Written(wire, c, n, Ctl("ACK_NO"))
    BY <1>4 DEF RejectIncoming, AckFrame
  <2>2. Ctl("ACK_NO") \in Frame /\ Ctl("ACK_NO").type # "ACK_YES"
    BY <1>1 DEF Control
  <2>. QED BY <1>2, <2>1, <2>2, WrittenFlows
<1>5. ASSUME NEW n \in Nodes, FirstPing(n) \/ PingTick(n) PROVE Flows
  <2>1. SendPing(n)
    BY <1>5 DEF FirstPing, PingTick
  <2>2. CASE UNCHANGED wire
    BY <2>2, KeepFlows
  <2>3. CASE HasSocket(n) /\ wire' = Written(wire, entry[n], n, Ctl("PING"))
    <3>1. entry[n] \in Conns
      BY <2>3 DEF HasSocket, LinkType
    <3>2. Ctl("PING") \in Frame /\ Ctl("PING").type # "ACK_YES"
      BY <1>1 DEF Control
    <3>. QED BY <1>2, <2>3, <3>1, <3>2, WrittenFlows
  <2>. QED BY <2>1, <2>2, <2>3 DEF SendPing
<1>6. ASSUME NEW n \in Nodes, PongTimeout(n) PROVE Flows
  <2>1. entry[n] \in Conns /\ Close(entry[n], n)
    BY <1>6 DEF PongTimeout, LinkType
  <2>. QED BY <2>1, CloseFlows DEF Close
<1>7. ASSUME NEW n \in Nodes, RunSendFrame(n) PROVE Flows
  <2>1. Head(outbox[n]) \in AppFrame
    BY <1>7 DEF RunSendFrame, MessageType
  <2>2. CASE UNCHANGED wire
    BY <2>2, KeepFlows
  <2>3. CASE HasSocket(n) /\ wire' = Written(wire, entry[n], n, Head(outbox[n]))
    <3>1. entry[n] \in Conns
      BY <2>3 DEF HasSocket, LinkType
    <3>2. Head(outbox[n]) \in Frame /\ Head(outbox[n]).type # "ACK_YES"
      BY <2>1, AppFramesAreFrames DEF AppFrame
    <3>. QED BY <1>2, <2>3, <3>1, <3>2, WrittenFlows
  <2>. QED BY <1>7, <2>2, <2>3 DEF RunSendFrame
<1>8. ASSUME NEW n \in Nodes, Restart(n) PROVE Flows
  <2>1. \A d \in Conns, m \in Nodes : wire'[d][m] = IF m = n THEN <<>> ELSE wire[d][m]
    BY <1>8 DEF Restart, WireType
  <2>. QED BY <2>1, EmptyHasNone DEF Flows, Grows, NoNewAck
<1>9. ASSUME NEW c \in Conns, NEW n \in Nodes,
             DialFails(c, n) \/ DialDuplicate(c, n) \/ Accept(c, n) \/ LateDialTimeout(c, n)
      PROVE  UNCHANGED wire
  BY <1>9 DEF DialFails, DialDuplicate, Accept, LateDialTimeout
<1>10. ASSUME NEW c \in Conns, NEW n \in Nodes, Receive(c, n), ~StaleRead(c, n) PROVE Flows
  <2>1. wire[c][n] # <<>> /\ Served(c, n) \in Conns
    BY <1>10 DEF Receive, Answer, OnHandshake, OnAckYes, OnAckNo, OnPong, OnMessage, Arrives,
       CanRead, Served, LinkType
  <2>2. Rest(c, n) \in Wires
    BY <2>1, RestType DEF Wires
  <2>3. CASE Answer(c, n)
    <3>1. PICK t \in DOMAIN AnswerTo :
             wire' = Written(Rest(c, n), Served(c, n), n, Ctl(AnswerTo[t]))
      BY <2>3 DEF Answer
    <3>2. AnswerTo[t] \in Control /\ AnswerTo[t] # "ACK_YES"
      BY DEF AnswerTo, Control
    <3>3. PICK s \in Conns : s = Served(c, n)
      BY <2>1
    <3>4. PICK f \in Frame : f = Ctl(AnswerTo[t]) /\ f.type # "ACK_YES"
      BY <1>1, <3>2
    <3>5. wire' = Written(Rest(c, n), s, n, f)
      BY <3>1, <3>3, <3>4
    <3>6. PICK w \in Wires : w = Rest(c, n)
      BY <2>2
    <3>. QED BY <2>1, <3>4, <3>5, <3>6, RestFlows, WrittenFlows
  <2>4. CASE OnAckNo(c, n)
    <3>1. PICK s \in Conns : s = Served(c, n)
      BY <2>1
    <3>. QED BY <2>4, <3>1, CloseFlows DEF OnAckNo, Close
  <2>5. CASE OnHandshake(c, n) \/ OnAckYes(c, n) \/ OnPong(c, n) \/ OnMessage(c, n)
    <3>1. wire' = Rest(c, n)
      BY <2>5 DEF OnHandshake, OnAckYes, OnPong, OnMessage
    <3>. QED BY <2>1, <3>1, RestFlows DEF Flows, Grows, NoNewAck
  <2>. QED BY <1>10, <2>3, <2>4, <2>5 DEF Receive
<1>11. ASSUME NEW c \in Conns, NEW n \in Nodes, StaleRead(c, n) PROVE Flows
  <2>1. PICK k \in 1 .. Len(wire[c][n]) :
           wire' = [wire EXCEPT ![c][n] = SubSeq(@, k + 1, Len(@))]
    BY <1>11 DEF StaleRead
  <2> DEFINE v == SubSeq(wire[c][n], k + 1, Len(wire[c][n]))
  <2>2. Has(v, "ACK_YES") => Has(wire[c][n], "ACK_YES")
    BY HasRest DEF WireType
  <2>3. wire' = [wire EXCEPT ![c][n] = v] /\ wire[c][n] # <<>>
    BY <1>11, <2>1 DEF StaleRead
  <2> HIDE DEF v
  <2>4. \A d \in Conns, m \in Nodes :
          wire'[d][m] = IF d = c /\ m = n THEN v ELSE wire[d][m]
    BY <2>3, PerEndValue DEF WireType
  <2>. QED BY <2>2, <2>3, <2>4 DEF Flows, Grows, NoNewAck
<1>12. ASSUME NEW c \in Conns, NEW n \in Nodes,
              BufferOverflow(c, n) \/ PendingReadFails(c, n) \/ RunClose(c, n)
       PROVE  Flows
  BY <1>12, CloseFlows, KeepFlows DEF BufferOverflow, PendingReadFails, RunClose, Close
<1>13. ASSUME NEW c \in Conns, NEW n \in Nodes, PeerReadFails(c, n) PROVE Flows
  <2>1. entry[n] \in Conns /\ Close(entry[n], n)
    BY <1>13 DEF PeerReadFails, HandleDisconnect, LinkType
  <2>. QED BY <2>1, CloseFlows DEF Close
<1>14. ASSUME NEW c \in Conns, Break(c) \/ Recycle(c) PROVE Flows
  <2>1. \A d \in Conns, m \in Nodes : wire'[d][m] = IF d = c THEN <<>> ELSE wire[d][m]
    BY <1>14 DEF Break, Recycle, WireType
  <2>. QED BY <2>1, EmptyHasNone DEF Flows, Grows, NoNewAck
<1>15. CASE UNCHANGED vars
  BY <1>15, KeepFlows DEF vars, tcpVars
<1>16. CASE UNCHANGED wire
  BY <1>16, KeepFlows
<1>. QED
  BY <1>3, <1>4, <1>5, <1>6, <1>7, <1>8, <1>9, <1>10, <1>11, <1>12, <1>13, <1>14, <1>15,
     <1>16 DEF Next, UserAnswers, Receive

\* What the two steps that FlowStep leaves out write.
LEMMA DialFlows ==
    ASSUME WireType, NEW c \in Conns, NEW n \in Nodes, DialSucceeds(c, n)
    PROVE  \A d \in Conns, m \in Nodes :
              /\ NoNewAck(d, m)
              /\ wire'[d][m] # <<>> => wire[d][m] # <<>> \/ (d = c /\ m = Other(n))
<1> DEFINE v == <<Ctl("CLIENT_HELLO")>>
<1>1. ~Has(v, "ACK_YES")
  BY DEF Has, Ctl
<1>2. wire' = [wire EXCEPT ![c][Other(n)] = v]
  BY DEF DialSucceeds
<1> HIDE DEF v
<1>3. \A d \in Conns, m \in Nodes :
        wire'[d][m] = IF d = c /\ m = Other(n) THEN v ELSE wire[d][m]
  BY <1>2, OtherIsNode, PerEndValue DEF WireType
<1>. QED BY <1>1, <1>3 DEF NoNewAck

LEMMA AcceptFlows ==
    ASSUME WireType, NEW c \in Conns, NEW n \in Nodes,
           wire' = Written(wire, c, n, AckFrame(TRUE))
    PROVE  \A d \in Conns, m \in Nodes :
              /\ Grows(d, m)
              /\ NoNewAck(d, m) \/ (d = c /\ m = Other(n))
<1> SUFFICES ASSUME NEW d \in Conns, NEW m \in Nodes
             PROVE  Grows(d, m) /\ (NoNewAck(d, m) \/ (d = c /\ m = Other(n)))
  OBVIOUS
<1>1. AckFrame(TRUE) \in Frame
  BY CtlIsFrame DEF AckFrame, Control
<1>2. wire \in Wires
  BY DEF WireType, Wires
<1>3. PICK f \in Frame : f = AckFrame(TRUE)
  BY <1>1
<1>4. Written(wire, c, n, f)[d][m] =
        IF d = c /\ m = Other(n) /\ Open(c, n) /\ Reaches(c, n)
        THEN Append(wire[d][m], f) ELSE wire[d][m]
  BY <1>2, WrittenValue
<1>5. m = Other(n) => Other(m) = n
  BY DEF Nodes, Other
<1>. QED BY <1>3, <1>4, <1>5 DEF Grows, NoNewAck

\* A readable end stays readable, unless the step drops what was on its way to it.
LEMMA ReadableKept ==
    ASSUME LinkType, WireType, SlotInv, [Next]_vars, NEW d \in Conns, NEW m \in Nodes,
           sock[d][m] \in {"backlog", "open"}
    PROVE  sock'[d][m] \in {"backlog", "open"} \/ wire'[d][m] = <<>>
<1> DEFINE Goal == sock'[d][m] \in {"backlog", "open"} \/ wire'[d][m] = <<>>
<1> USE BoundsAssumption
<1>1. CASE UNCHANGED sock
  BY <1>1
<1>2. ASSUME NEW c \in Conns, NEW n \in Nodes, Close(c, n) PROVE Goal
  BY <1>2, PerEndValue DEF Close, LinkType, WireType
<1>3. ASSUME NEW n \in Nodes, StartDial(n) PROVE Goal
  <2>1. CASE AlreadyConnected(n)
    BY <1>1, <1>3, <2>1 DEF StartDial, tcpVars
  <2>2. CASE ~AlreadyConnected(n)
    <3>1. PICK c \in Conns : Free(c) /\ sock' = [sock EXCEPT ![c][n] = "dialing"]
      BY <1>3, <2>2 DEF StartDial
    <3>2. c # d
      BY <3>1 DEF Free, SlotInv, SlotsAreDialled
    <3>. QED BY <3>1, <3>2
  <2>. QED BY <2>1, <2>2
<1>4. ASSUME NEW c \in Conns, NEW n \in Nodes,
             DialDuplicate(c, n) \/ DialSucceeds(c, n) \/ DialFails(c, n)
      PROVE  Goal
  <2>1. sock[c][n] = "dialing" /\ sock[c][Other(n)] = "none"
    BY <1>4 DEF DialDuplicate, DialSucceeds, DialFails, SlotInv, SlotsAreDialled
  <2>2. m = n \/ m = Other(n)
    BY DEF Nodes, Other
  <2>3. d # c
    BY <2>1, <2>2
  <2>4. sock'[d] = sock[d]
    BY <1>4, <2>3 DEF DialDuplicate, DialSucceeds, DialFails, LinkType
  <2>. QED BY <2>4
<1>5. ASSUME NEW c \in Conns, NEW n \in Nodes, Accept(c, n) PROVE Goal
  BY <1>5, PerEndValue DEF Accept, LinkType
<1>6. ASSUME NEW c \in Conns, NEW n \in Nodes, OnAckNo(c, n) PROVE Goal
  <2>1. Served(c, n) \in Conns /\ Close(Served(c, n), n)
    BY <1>6, ServedIsConnected DEF OnAckNo, Arrives
  <2>. QED BY <1>2, <2>1
<1>7. ASSUME NEW c \in Conns, NEW n \in Nodes,
             BufferOverflow(c, n) \/ PendingReadFails(c, n) \/ RunClose(c, n)
      PROVE  Goal
  BY <1>1, <1>2, <1>7 DEF BufferOverflow, PendingReadFails, RunClose
<1>8. ASSUME NEW c \in Conns, NEW n \in Nodes, PeerReadFails(c, n) PROVE Goal
  <2>1. entry[n] \in Conns /\ Close(entry[n], n)
    BY <1>8 DEF PeerReadFails, HandleDisconnect, LinkType
  <2>. QED BY <1>2, <2>1
<1>9. ASSUME NEW n \in Nodes, PongTimeout(n) PROVE Goal
  <2>1. entry[n] \in Conns /\ Close(entry[n], n)
    BY <1>9 DEF PongTimeout, LinkType
  <2>. QED BY <1>2, <2>1
<1>10. ASSUME NEW n \in Nodes, Restart(n) PROVE Goal
  BY <1>10 DEF Restart, LinkType, WireType
<1>11. ASSUME NEW c \in Conns, Recycle(c) PROVE Goal
  BY <1>11 DEF Recycle, LinkType, WireType
<1>12. ASSUME NEW n \in Nodes,
              UserActs(n) \/ UserAnswers(n) \/ TimerFires(n)
                \/ CancelledTimerRuns(n) \/ FirstPing(n) \/ PingTick(n) \/ RunSendFrame(n)
       PROVE  UNCHANGED sock
  BY <1>12 DEF UserActs, ConnectToPeer, SendFrame, UserAnswers, AcceptIncoming,
     AcceptDuplicate, RejectIncoming, AnswerTooLate, TimerFires,
     CancelledTimerRuns, FirstPing, PingTick, RunSendFrame, tcpVars, mapVars
<1>13. ASSUME NEW c \in Conns, NEW n \in Nodes,
              LateDialTimeout(c, n) \/ Answer(c, n) \/ OnHandshake(c, n) \/ OnAckYes(c, n)
                \/ OnPong(c, n) \/ OnMessage(c, n) \/ StaleRead(c, n)
       PROVE  UNCHANGED sock
  BY <1>13 DEF LateDialTimeout, Answer, OnHandshake, OnAckYes, OnPong, OnMessage, StaleRead
<1>14. ASSUME NEW c \in Conns, Break(c) PROVE UNCHANGED sock
  BY <1>14 DEF Break
<1>15. CASE UNCHANGED vars
  BY <1>1, <1>15 DEF vars, tcpVars
<1>. QED
  BY <1>1, <1>3, <1>4, <1>5, <1>6, <1>7, <1>8, <1>9, <1>10, <1>11, <1>12, <1>13, <1>14,
     <1>15 DEF Next, Receive

LEMMA ReadableStep ==
    LinkType /\ WireType /\ MessageType /\ SlotInv /\ FramesAreReadable /\ [Next]_vars
       => FramesAreReadable'
<1> SUFFICES ASSUME LinkType, WireType, MessageType, SlotInv, FramesAreReadable, [Next]_vars,
                    NEW d \in Conns, NEW m \in Nodes, wire'[d][m] # <<>>
             PROVE  sock'[d][m] \in {"backlog", "open"}
  BY DEF FramesAreReadable
<1>1. m = Other(Other(m)) /\ Other(m) \in Nodes
  BY DEF Nodes, Other
<1>2. CASE \E c \in Conns, n \in Nodes : DialSucceeds(c, n)
  <2>1. PICK c \in Conns, n \in Nodes : DialSucceeds(c, n)
    BY <1>2
  <2>2. CASE d = c /\ m = Other(n)
    <3>1. sock'[d][m] = "backlog"
      BY <2>1, <2>2, DialledEnds, OtherIsNode DEF DialSucceeds
    <3>. QED BY <3>1
  <2>3. CASE wire[d][m] # <<>>
    BY <2>3, ReadableKept DEF FramesAreReadable
  <2>. QED BY <2>1, <2>2, <2>3, DialFlows
<1>3. CASE \A c \in Conns, n \in Nodes : ~DialSucceeds(c, n)
  <2>1. Grows(d, m)
    <3>1. CASE \E n \in Nodes : AcceptIncoming(n)
      <4>1. PICK n \in Nodes, c \in Conns : wire' = Written(wire, c, n, AckFrame(TRUE))
        BY <3>1 DEF AcceptIncoming
      <4>. QED BY <4>1, AcceptFlows
    <3>2. CASE \A n \in Nodes : ~AcceptIncoming(n)
      BY <1>3, <3>2, FlowStep DEF Flows
    <3>. QED BY <3>1, <3>2
  <2>2. wire[d][m] # <<>> \/ Reaches(d, Other(m))
    BY <2>1 DEF Grows
  <2>3. sock[d][m] \in {"backlog", "open"}
    BY <1>1, <2>2 DEF FramesAreReadable, Reaches
  <2>. QED BY <2>3, ReadableKept
<1>. QED BY <1>2, <1>3

\* handleDisconnect, a restart and what they leave of an entry.
LEMMA EntryKept ==
    ASSUME LinkType, FlagType, SlotInv, [Next]_vars, NEW m \in Nodes, entry[m] # NoConn
    PROVE  \/ entry'[m] = entry[m] /\ (up[m] => up'[m])
           \/ sock'[entry[m]][m] = "closed"
<1> DEFINE Goal == \/ entry'[m] = entry[m] /\ (up[m] => up'[m])
                   \/ sock'[entry[m]][m] = "closed"
<1> USE BoundsAssumption
<1>1. CASE UNCHANGED <<entry, up>>
  BY <1>1
<1>2. ASSUME NEW n \in Nodes, AcceptIncoming(n) PROVE Goal
  <2>1. n # m /\ up' = [up EXCEPT ![n] = TRUE] /\ \E c \in Conns : entry' = [entry EXCEPT ![n] = c]
    BY <1>2 DEF AcceptIncoming, AlreadyConnected
  <2>2. entry'[m] = entry[m] /\ up'[m] = up[m]
    BY <2>1 DEF LinkType, FlagType
  <2>. QED BY <2>2
<1>3. ASSUME NEW c \in Conns, NEW n \in Nodes, DialSucceeds(c, n) PROVE Goal
  <2>1. n # m /\ up' = [up EXCEPT ![n] = FALSE] /\ entry' = [entry EXCEPT ![n] = c]
    BY <1>3 DEF DialSucceeds, AlreadyConnected
  <2>2. entry'[m] = entry[m] /\ up'[m] = up[m]
    BY <2>1 DEF LinkType, FlagType
  <2>. QED BY <2>2
<1>4. ASSUME NEW c \in Conns, NEW n \in Nodes, OnAckYes(c, n) PROVE Goal
  <2>1. UNCHANGED entry /\ up' = [up EXCEPT ![n] = TRUE]
    BY <1>4 DEF OnAckYes
  <2>. QED BY <2>1 DEF FlagType
<1>5. ASSUME NEW c \in Conns, NEW n \in Nodes, PeerReadFails(c, n) PROVE Goal
  <2>1. /\ entry' = [entry EXCEPT ![n] = NoConn] /\ up' = [up EXCEPT ![n] = FALSE]
        /\ sock' = [sock EXCEPT ![entry[n]][n] = "closed"]
    BY <1>5 DEF PeerReadFails, HandleDisconnect, Close
  <2>2. CASE n # m
    BY <2>1, <2>2 DEF LinkType, FlagType
  <2>3. CASE n = m
    <3>1. entry[m] \in Conns
      BY DEF LinkType
    <3>. QED BY <2>1, <2>3, <3>1 DEF LinkType
  <2>. QED BY <2>2, <2>3
<1>6. ASSUME NEW n \in Nodes, Restart(n) PROVE Goal
  <2>1. CASE n # m
    BY <1>6, <2>1 DEF Restart, LinkType, FlagType
  <2>2. CASE n = m
    <3>1. PICK e \in Conns : e = entry[m] /\ sock[e][m] # "none"
      BY EntryIsConnected
    <3>2. sock'[e][m] = "closed"
      BY <1>6, <2>2, <3>1 DEF Restart, LinkType
    <3>. QED BY <3>1, <3>2
  <2>. QED BY <2>1, <2>2
<1>7. ASSUME NEW n \in Nodes,
             UserActs(n) \/ AcceptDuplicate(n) \/ RejectIncoming(n) \/ AnswerTooLate(n)
               \/ StartDial(n) \/ TimerFires(n) \/ CancelledTimerRuns(n)
               \/ FirstPing(n) \/ PingTick(n) \/ PongTimeout(n) \/ RunSendFrame(n)
      PROVE  UNCHANGED <<entry, up>>
  BY <1>7 DEF UserActs, ConnectToPeer, SendFrame, AcceptDuplicate, RejectIncoming,
     AnswerTooLate, StartDial, TimerFires, CancelledTimerRuns, FirstPing, PingTick,
     PongTimeout, RunSendFrame, mapVars
<1>8. ASSUME NEW c \in Conns, NEW n \in Nodes,
             DialFails(c, n) \/ DialDuplicate(c, n) \/ LateDialTimeout(c, n) \/ Accept(c, n)
               \/ Answer(c, n) \/ OnHandshake(c, n) \/ OnAckNo(c, n) \/ OnPong(c, n)
               \/ OnMessage(c, n) \/ StaleRead(c, n) \/ BufferOverflow(c, n)
               \/ PendingReadFails(c, n) \/ RunClose(c, n)
      PROVE  UNCHANGED <<entry, up>>
  BY <1>8 DEF DialFails, DialDuplicate, LateDialTimeout, Accept, Answer, OnHandshake, OnAckNo,
     OnPong, OnMessage, StaleRead, BufferOverflow, PendingReadFails, RunClose, mapVars
<1>9. ASSUME NEW c \in Conns, Break(c) \/ Recycle(c) PROVE UNCHANGED <<entry, up>>
  BY <1>9 DEF Break, Recycle, mapVars
<1>10. CASE UNCHANGED vars
  BY <1>1, <1>10 DEF vars, mapVars
<1>. QED
  BY <1>1, <1>2, <1>3, <1>4, <1>5, <1>6, <1>7, <1>8, <1>9, <1>10
     DEF Next, UserAnswers, Receive

\* Where an open or a closed socket and a dialler come from.
LEMMA SockStep ==
    ASSUME LinkType, SlotInv, [Next]_vars, NEW d \in Conns, NEW m \in Nodes
    PROVE  /\ sock[d][m] = "closed" =>
                 \/ sock'[d][m] = "closed"
                 \/ sock[d][Other(m)] = "dialing"
                 \/ Recycle(d)
           /\ sock'[d][m] = "open" =>
                 \/ sock[d][m] = "open"
                 \/ DialSucceeds(d, m)
                 \/ dialer[d] = Other(m)
           /\ dialer'[d] = m =>
                 \/ dialer[d] = m
                 \/ \A k \in Nodes : sock[d][k] = "none" /\ sock'[d][k] \notin {"open", "closed"}
           /\ dialer'[d] = dialer[d] \/ dialer[d] = 0 \/ Recycle(d)
<1> DEFINE Goal == /\ sock[d][m] = "closed" =>
                        \/ sock'[d][m] = "closed"
                        \/ sock[d][Other(m)] = "dialing"
                        \/ Recycle(d)
                   /\ sock'[d][m] = "open" =>
                        \/ sock[d][m] = "open"
                        \/ DialSucceeds(d, m)
                        \/ dialer[d] = Other(m)
                   /\ dialer'[d] = m =>
                        \/ dialer[d] = m
                        \/ \A k \in Nodes : sock[d][k] = "none" /\ sock'[d][k] \notin {"open", "closed"}
                   /\ dialer'[d] = dialer[d] \/ dialer[d] = 0 \/ Recycle(d)
<1> USE BoundsAssumption
<1>1. CASE UNCHANGED <<sock, dialer>>
  BY <1>1
<1>2. ASSUME NEW c \in Conns, NEW n \in Nodes, UNCHANGED dialer,
             sock' = [sock EXCEPT ![c][n] = "closed"]
      PROVE  Goal
  BY <1>2, PerEndValue DEF LinkType
<1>3. ASSUME NEW n \in Nodes, StartDial(n) PROVE Goal
  <2>1. CASE AlreadyConnected(n)
    BY <1>1, <1>3, <2>1 DEF StartDial, tcpVars
  <2>2. CASE ~AlreadyConnected(n)
    <3>1. PICK c \in Conns : /\ Free(c)
                            /\ dialer' = [dialer EXCEPT ![c] = n]
                            /\ sock' = [sock EXCEPT ![c][n] = "dialing"]
      BY <1>3, <2>2 DEF StartDial
    <3>2. \A k \in Nodes : sock[c][k] = "none"
      BY <3>1 DEF Free, SlotInv, SlotsAreDialled
    <3>3. \A b \in Conns, k \in Nodes :
            /\ sock'[b][k] = IF b = c /\ k = n THEN "dialing" ELSE sock[b][k]
            /\ dialer'[b] = IF b = c THEN n ELSE dialer[b]
      BY <3>1, PerEndValue DEF LinkType
    <3>. QED BY <3>1, <3>2, <3>3 DEF Free
  <2>. QED BY <2>1, <2>2
<1>4. ASSUME NEW c \in Conns, NEW n \in Nodes, DialDuplicate(c, n) \/ DialSucceeds(c, n)
      PROVE  Goal
  <2>1. sock[c][n] = "dialing" /\ UNCHANGED dialer
    BY <1>4 DEF DialDuplicate, DialSucceeds
  <2>2. m = n \/ n = Other(m)
    BY DEF Nodes, Other
  <2>3. sock'[d][m] = "open" => sock[d][m] = "open" \/ DialSucceeds(d, m)
    <3>1. CASE DialDuplicate(c, n)
      BY <3>1, DialledEnds DEF DialDuplicate
    <3>2. CASE DialSucceeds(c, n)
      <4>1. sock' = [sock EXCEPT ![c] = [k \in Nodes |-> IF k = n THEN "open" ELSE "backlog"]]
        BY <3>2 DEF DialSucceeds
      <4>2. \A b \in Conns, k \in Nodes :
              sock'[b][k] = IF b = c THEN (IF k = n THEN "open" ELSE "backlog") ELSE sock[b][k]
        BY <4>1, DialledEnds
      <4>. QED BY <3>2, <4>2
    <3>. QED BY <1>4, <3>1, <3>2
  <2>4. sock[d][m] = "closed" => sock'[d][m] = "closed" \/ sock[d][Other(m)] = "dialing"
    <3>1. d # c => sock'[d][m] = sock[d][m]
      BY <1>4 DEF DialDuplicate, DialSucceeds, LinkType
    <3>. QED BY <2>1, <2>2, <3>1
  <2>. QED BY <2>1, <2>3, <2>4
<1>5. ASSUME NEW c \in Conns, NEW n \in Nodes, Accept(c, n) PROVE Goal
  <2>1. /\ sock[c][n] = "backlog" /\ dialer[c] = Other(n) /\ UNCHANGED dialer
        /\ sock' = [sock EXCEPT ![c][n] = "open"]
    BY <1>5 DEF Accept, SlotInv, SlotsAreDialled
  <2>2. sock'[d][m] = IF d = c /\ m = n THEN "open" ELSE sock[d][m]
    BY <2>1, PerEndValue DEF LinkType
  <2>. QED BY <2>1, <2>2
<1>6. ASSUME NEW c \in Conns, NEW n \in Nodes, OnAckNo(c, n) PROVE Goal
  <2>1. Served(c, n) \in Conns /\ Close(Served(c, n), n) /\ UNCHANGED dialer
    BY <1>6, ServedIsConnected DEF OnAckNo, Arrives
  <2>. QED BY <1>2, <2>1 DEF Close
<1>7. ASSUME NEW c \in Conns, NEW n \in Nodes,
             DialFails(c, n) \/ BufferOverflow(c, n) \/ PendingReadFails(c, n) \/ RunClose(c, n)
      PROVE  Goal
  BY <1>1, <1>2, <1>7 DEF DialFails, BufferOverflow, PendingReadFails, RunClose, Close
<1>8. ASSUME NEW c \in Conns, NEW n \in Nodes, PeerReadFails(c, n) PROVE Goal
  <2>1. entry[n] \in Conns /\ Close(entry[n], n) /\ UNCHANGED dialer
    BY <1>8 DEF PeerReadFails, HandleDisconnect, LinkType
  <2>. QED BY <1>2, <2>1 DEF Close
<1>9. ASSUME NEW n \in Nodes, PongTimeout(n) PROVE Goal
  <2>1. entry[n] \in Conns /\ Close(entry[n], n) /\ UNCHANGED dialer
    BY <1>9 DEF PongTimeout, LinkType
  <2>. QED BY <1>2, <2>1 DEF Close
<1>10. ASSUME NEW n \in Nodes, Restart(n) PROVE Goal
  <2>1. /\ UNCHANGED dialer
        /\ sock'[d][m] = IF m = n /\ sock[d][m] # "none" THEN "closed" ELSE sock[d][m]
    BY <1>10 DEF Restart, LinkType
  <2>. QED BY <2>1
<1>11. ASSUME NEW c \in Conns, Recycle(c) PROVE Goal
  <2>1. /\ dialer'[d] = IF d = c THEN 0 ELSE dialer[d]
        /\ sock'[d][m] = IF d = c THEN "none" ELSE sock[d][m]
    BY <1>11 DEF Recycle, LinkType
  <2>2. m # 0
    BY DEF Nodes
  <2>. QED BY <1>11, <2>1, <2>2
<1>12. ASSUME NEW n \in Nodes,
              UserActs(n) \/ UserAnswers(n) \/ TimerFires(n)
                \/ CancelledTimerRuns(n) \/ FirstPing(n) \/ PingTick(n) \/ RunSendFrame(n)
       PROVE  UNCHANGED <<sock, dialer>>
  BY <1>12 DEF UserActs, ConnectToPeer, SendFrame, UserAnswers, AcceptIncoming,
     AcceptDuplicate, RejectIncoming, AnswerTooLate, TimerFires,
     CancelledTimerRuns, FirstPing, PingTick, RunSendFrame, tcpVars, mapVars
<1>13. ASSUME NEW c \in Conns, NEW n \in Nodes,
              LateDialTimeout(c, n) \/ Answer(c, n) \/ OnHandshake(c, n) \/ OnAckYes(c, n)
                \/ OnPong(c, n) \/ OnMessage(c, n) \/ StaleRead(c, n)
       PROVE  UNCHANGED <<sock, dialer>>
  BY <1>13 DEF LateDialTimeout, Answer, OnHandshake, OnAckYes, OnPong, OnMessage, StaleRead
<1>14. ASSUME NEW c \in Conns, Break(c) PROVE UNCHANGED <<sock, dialer>>
  BY <1>14 DEF Break
<1>15. CASE UNCHANGED vars
  BY <1>1, <1>15 DEF vars, tcpVars
<1>. QED
  BY <1>1, <1>3, <1>4, <1>5, <1>6, <1>7, <1>8, <1>9, <1>10, <1>11, <1>12, <1>13, <1>14,
     <1>15 DEF Next, Receive

LEMMA HolderStep == LinkType /\ FlagType /\ SlotInv /\ DiallerHolds /\ [Next]_vars => DiallerHolds'
<1> SUFFICES ASSUME LinkType, FlagType, SlotInv, DiallerHolds, [Next]_vars,
                    NEW d \in Conns, NEW m \in Nodes, dialer'[d] = m, sock'[d][m] = "open"
             PROVE  entry'[m] = d
  BY DEF DiallerHolds, Open
<1>1. dialer[d] = m
  BY SockStep
<1>2. m # Other(m)
  BY OtherIsNode
<1>3. CASE DialSucceeds(d, m)
  BY <1>3 DEF DialSucceeds, LinkType
<1>4. CASE sock[d][m] = "open"
  <2>1. entry[m] = d /\ d # NoConn
    BY <1>1, <1>4, BoundsAssumption DEF DiallerHolds, Open
  <2>. QED BY <2>1, EntryKept
<1>. QED BY <1>1, <1>2, <1>3, <1>4, SockStep

\* An acceptor stays with a connection it has accepted, or lets go of it for good.
LEMMA AcceptedKept ==
    ASSUME LinkType, FlagType, SlotInv, [Next]_vars, NEW d \in Conns, NEW n \in Nodes,
           sock[d][n] # "dialing", Accepted(d, n)
    PROVE  Accepted(d, n)' \/ Recycle(d)
<1>1. PICK m \in Nodes : m = Other(n) /\ Other(m) = n
  BY DEF Nodes, Other
<1>2. CASE entry[m] = d /\ up[m]
  BY <1>1, <1>2, BoundsAssumption, EntryKept DEF Accepted
<1>3. CASE sock[d][m] = "closed"
  BY <1>1, <1>3, SockStep DEF Accepted
<1>. QED BY <1>1, <1>2, <1>3 DEF Accepted

\* An acceptance on its way has been on its way before, or has just been given.
LEMMA AckFlow ==
    ASSUME LinkType, WireType, FlagType, MessageType, SlotInv, [Next]_vars,
           NEW d \in Conns, NEW m \in Nodes, Has(wire'[d][m], "ACK_YES")
    PROVE  \/ Has(wire[d][m], "ACK_YES")
           \/ dialer'[d] = m /\ Accepted(d, m)'
<1> USE BoundsAssumption
<1>1. CASE \E c \in Conns, n \in Nodes : DialSucceeds(c, n)
  BY <1>1, DialFlows DEF NoNewAck
<1>2. CASE \E n \in Nodes : AcceptIncoming(n)
  <2>1. PICK n \in Nodes : AcceptIncoming(n)
    BY <1>2
  <2>2. PICK c \in Conns :
           /\ pending[n][c] = "known"
           /\ entry' = [entry EXCEPT ![n] = c]
           /\ up' = [up EXCEPT ![n] = TRUE]
           /\ wire' = Written(wire, c, n, AckFrame(TRUE))
    BY <2>1 DEF AcceptIncoming
  <2>3. CASE NoNewAck(d, m)
    BY <2>3 DEF NoNewAck
  <2>4. CASE d = c /\ m = Other(n)
    <3>1. n = Other(m)
      BY <2>4 DEF Nodes, Other
    <3>2. dialer[c] = Other(n) /\ UNCHANGED dialer
      BY <2>1, <2>2 DEF AcceptIncoming, SlotInv, PendingIsIncoming
    <3>3. entry'[n] = c /\ up'[n]
      BY <2>2 DEF LinkType, FlagType
    <3>. QED BY <2>4, <3>1, <3>2, <3>3 DEF Accepted
  <2>. QED BY <2>2, <2>3, <2>4, AcceptFlows
<1>3. CASE /\ \A c \in Conns, n \in Nodes : ~DialSucceeds(c, n)
           /\ \A n \in Nodes : ~AcceptIncoming(n)
  BY <1>3, FlowStep DEF Flows, NoNewAck
<1>. QED BY <1>1, <1>2, <1>3

AckInv == FramesAreReadable /\ AcksAreTrue /\ ConnectedMeansAccepted

LEMMA AcksStep ==
    LinkType /\ WireType /\ FlagType /\ MessageType /\ SlotInv /\ AckInv /\ [Next]_vars
       => AcksAreTrue'
<1> SUFFICES ASSUME LinkType, WireType, FlagType, MessageType, SlotInv, AckInv, [Next]_vars,
                    NEW d \in Conns, NEW m \in Nodes, Has(wire'[d][m], "ACK_YES")
             PROVE  dialer'[d] = m /\ Accepted(d, m)'
  BY DEF AcksAreTrue, InFlight, Has
<1>1. CASE dialer'[d] = m /\ Accepted(d, m)'
  BY <1>1
<1>2. CASE Has(wire[d][m], "ACK_YES")
  <2>1. dialer[d] = m /\ Accepted(d, m)
    BY <1>2 DEF AckInv, AcksAreTrue, InFlight, Has
  <2>2. sock[d][m] # "dialing"
    <3>1. wire[d][m] # <<>>
      BY <1>2, EmptyHasNone
    <3>. QED BY <3>1 DEF AckInv, FramesAreReadable
  <2>3. ~Recycle(d)
    <3>1. Recycle(d) => wire'[d][m] = <<>>
      BY DEF Recycle, WireType
    <3>. QED BY <3>1, EmptyHasNone
  <2>4. dialer'[d] = dialer[d]
    <3>1. dialer[d] # 0
      BY <2>1 DEF Nodes
    <3>. QED BY <2>3, <3>1, SockStep
  <2>. QED BY <2>1, <2>2, <2>3, <2>4, AcceptedKept
<1>. QED BY <1>1, <1>2, AckFlow

\* A dialler believes it is connected because it did before, or because it reads the
\* acceptance of this very connection.
LEMMA UpFlow ==
    ASSUME LinkType, WireType, FlagType, SlotInv, AckInv, DisconnectHitsOwnSocket, [Next]_vars,
           NEW d \in Conns, NEW m \in Nodes, dialer[d] = m, entry'[m] = d, up'[m]
    PROVE  /\ entry[m] = d
           /\ up[m] \/ Has(wire[d][m], "ACK_YES")
<1> DEFINE Goal == /\ entry[m] = d
                   /\ up[m] \/ Has(wire[d][m], "ACK_YES")
<1> USE BoundsAssumption
<1>1. CASE UNCHANGED <<entry, up>>
  BY <1>1
<1>2. ASSUME NEW n \in Nodes, AcceptIncoming(n) PROVE Goal
  <2>1. PICK c \in Conns : /\ pending[n][c] = "known"
                          /\ entry' = [entry EXCEPT ![n] = c]
                          /\ up' = [up EXCEPT ![n] = TRUE]
    BY <1>2 DEF AcceptIncoming
  <2>2. dialer[c] = Other(n)
    BY <2>1 DEF SlotInv, PendingIsIncoming
  <2>3. m # n
    BY <2>1, <2>2, OtherIsNode DEF LinkType
  <2>4. entry'[m] = entry[m] /\ up'[m] = up[m]
    BY <2>1, <2>3 DEF LinkType, FlagType
  <2>. QED BY <2>4
<1>3. ASSUME NEW c \in Conns, NEW n \in Nodes, DialSucceeds(c, n) PROVE Goal
  <2>1. up' = [up EXCEPT ![n] = FALSE] /\ entry' = [entry EXCEPT ![n] = c]
    BY <1>3 DEF DialSucceeds
  <2>2. m # n
    BY <2>1 DEF FlagType
  <2>3. entry'[m] = entry[m] /\ up'[m] = up[m]
    BY <2>1, <2>2 DEF LinkType, FlagType
  <2>. QED BY <2>3
<1>4. ASSUME NEW c \in Conns, NEW n \in Nodes, OnAckYes(c, n) PROVE Goal
  <2>1. UNCHANGED entry /\ up' = [up EXCEPT ![n] = TRUE] /\ Arrives(c, n, "ACK_YES")
    BY <1>4 DEF OnAckYes
  <2>2. CASE n # m
    <3>1. up'[m] = up[m]
      BY <2>1, <2>2 DEF FlagType
    <3>. QED BY <2>1, <3>1
  <2>3. CASE n = m
    <3>1. Has(wire[c][n], "ACK_YES")
      <4>1. wire[c][n] \in Seq(Frame) /\ wire[c][n] # <<>>
            /\ Head(wire[c][n]).type = "ACK_YES"
        BY <2>1 DEF Arrives, CanRead, WireType
      <4>2. 1 \in DOMAIN wire[c][n] /\ wire[c][n][1].type = "ACK_YES"
        BY <4>1
      <4>. QED BY <4>2 DEF Has
    <3>2. dialer[c] = n
      BY <3>1 DEF AckInv, AcksAreTrue, InFlight, Has
    <3>3. ~pendRead[c][n]
      BY <3>2, OtherIsNode DEF SlotInv, PendingIsIncoming
    <3>4. entry[n] = c
      BY <2>1, <3>3 DEF Arrives, CanRead, DisconnectHitsOwnSocket
    <3>. QED BY <2>1, <2>3, <3>1, <3>4
  <2>. QED BY <2>2, <2>3
<1>5. ASSUME NEW n \in Nodes, (\E c \in Conns : PeerReadFails(c, n)) \/ Restart(n) PROVE Goal
  <2>1. up' = [up EXCEPT ![n] = FALSE] /\ entry' = [entry EXCEPT ![n] = NoConn]
    BY <1>5 DEF PeerReadFails, HandleDisconnect, Restart
  <2>2. m # n
    BY <2>1 DEF FlagType
  <2>3. entry'[m] = entry[m] /\ up'[m] = up[m]
    BY <2>1, <2>2 DEF LinkType, FlagType
  <2>. QED BY <2>3
<1>7. ASSUME NEW n \in Nodes,
             UserActs(n) \/ AcceptDuplicate(n) \/ RejectIncoming(n) \/ AnswerTooLate(n)
               \/ StartDial(n) \/ TimerFires(n) \/ CancelledTimerRuns(n)
               \/ FirstPing(n) \/ PingTick(n) \/ PongTimeout(n) \/ RunSendFrame(n)
      PROVE  UNCHANGED <<entry, up>>
  BY <1>7 DEF UserActs, ConnectToPeer, SendFrame, AcceptDuplicate, RejectIncoming,
     AnswerTooLate, StartDial, TimerFires, CancelledTimerRuns, FirstPing, PingTick,
     PongTimeout, RunSendFrame, mapVars
<1>8. ASSUME NEW c \in Conns, NEW n \in Nodes,
             DialFails(c, n) \/ DialDuplicate(c, n) \/ LateDialTimeout(c, n) \/ Accept(c, n)
               \/ Answer(c, n) \/ OnHandshake(c, n) \/ OnAckNo(c, n) \/ OnPong(c, n)
               \/ OnMessage(c, n) \/ StaleRead(c, n) \/ BufferOverflow(c, n)
               \/ PendingReadFails(c, n) \/ RunClose(c, n)
      PROVE  UNCHANGED <<entry, up>>
  BY <1>8 DEF DialFails, DialDuplicate, LateDialTimeout, Accept, Answer, OnHandshake, OnAckNo,
     OnPong, OnMessage, StaleRead, BufferOverflow, PendingReadFails, RunClose, mapVars
<1>9. ASSUME NEW c \in Conns, Break(c) \/ Recycle(c) PROVE UNCHANGED <<entry, up>>
  BY <1>9 DEF Break, Recycle, mapVars
<1>10. CASE UNCHANGED vars
  BY <1>1, <1>10 DEF vars, mapVars
<1>. QED
  BY <1>1, <1>2, <1>3, <1>4, <1>5, <1>7, <1>8, <1>9, <1>10
     DEF Next, UserAnswers, Receive

LEMMA ConnectedStep ==
    LinkType /\ WireType /\ FlagType /\ SlotInv /\ AckInv /\ DisconnectHitsOwnSocket /\ [Next]_vars
       => ConnectedMeansAccepted'
<1> SUFFICES ASSUME LinkType, WireType, FlagType, SlotInv, AckInv, DisconnectHitsOwnSocket,
                    [Next]_vars, SlotInv',
                    NEW d \in Conns, NEW m \in Nodes, dialer'[d] = m, entry'[m] = d, up'[m]
             PROVE  Accepted(d, m)'
  BY SlotStep DEF ConnectedMeansAccepted, Accepted
<1>1. dialer[d] = m
  <2>1. sock'[d][m] \in {"open", "closed"}
    BY DEF SlotInv, RecordsAreConnected, Connected
  <2>. QED BY <2>1, SockStep
<1>2. entry[m] = d /\ (up[m] \/ Has(wire[d][m], "ACK_YES"))
  BY <1>1, UpFlow
<1>3. Accepted(d, m)
  BY <1>1, <1>2 DEF AckInv, ConnectedMeansAccepted, AcksAreTrue, InFlight, Has, Accepted
<1>4. sock[d][m] # "dialing"
  BY <1>2 DEF SlotInv, RecordsAreConnected, Connected
<1>5. ~Recycle(d)
  BY <1>2 DEF Recycle
<1>. QED BY <1>3, <1>4, <1>5, AcceptedKept

-----------------------------------------------------------------------------
AgreeInv == LinkType /\ WireType /\ FlagType /\ RetryType /\ MessageType
               /\ SlotInv /\ DisconnectHitsOwnSocket /\ DiallerHolds /\ AckInv

LEMMA AgreeInvInit == Init => AgreeInv
<1> SUFFICES ASSUME Init PROVE AgreeInv
  OBVIOUS
<1> USE BoundsAssumption, OtherIsNode
<1>1. LinkType /\ WireType /\ FlagType /\ RetryType /\ MessageType
  BY LinkTypeInit, RestTypeInit
<1>2. SlotInv
  BY DEF Init, PerEnd, SlotInv, SlotsAreDialled, RecordsAreConnected, PendingIsIncoming
<1>3. DisconnectHitsOwnSocket /\ DiallerHolds
  BY DEF Init, PerEnd, DisconnectHitsOwnSocket, DiallerHolds, Open
<1>4. FramesAreReadable /\ AcksAreTrue /\ ConnectedMeansAccepted
  BY DEF Init, PerEnd, FramesAreReadable, AcksAreTrue, InFlight, ConnectedMeansAccepted
<1>. QED BY <1>1, <1>2, <1>3, <1>4 DEF AgreeInv, AckInv

LEMMA AgreeInvStep == AgreeInv /\ [Next]_vars => AgreeInv'
<1> SUFFICES ASSUME AgreeInv, [Next]_vars PROVE AgreeInv'
  OBVIOUS
<1>1. (LinkType /\ WireType /\ FlagType /\ RetryType /\ MessageType)'
  BY LinkTypeStep, WireTypeStep, FlagTypeStep, RetryTypeStep, MessageTypeStep DEF AgreeInv
<1>2. SlotInv' /\ DisconnectHitsOwnSocket' /\ DiallerHolds'
  BY SlotStep, OwnSocketStep, HolderStep DEF AgreeInv
<1>3. (FramesAreReadable /\ AcksAreTrue /\ ConnectedMeansAccepted)'
  BY ReadableStep, AcksStep, ConnectedStep DEF AgreeInv, AckInv
<1>. QED BY <1>1, <1>2, <1>3 DEF AgreeInv, AckInv

\* Two links that are both up would each have been dialled by one node and be held
\* under an entry of both.
LEMMA OneLinkFromAgreement == AgreeInv => OneLinkUp
<1> SUFFICES ASSUME AgreeInv, NEW c \in Conns, NEW d \in Conns,
                    entry[1] = c, up[1], Open(c, 1), Open(c, 2),
                    entry[2] = d, up[2], Open(d, 1), Open(d, 2)
             PROVE  c = d
  BY DEF OneLinkUp
<1>1. dialer[c] \in {1, 2} /\ dialer[d] \in {1, 2}
  BY DEF AgreeInv, SlotInv, SlotsAreDialled, LinkType, Open, Nodes
<1>2. Other(1) = 2 /\ Other(2) = 1 /\ 1 \in Nodes /\ 2 \in Nodes
  BY DEF Other, Nodes
<1>3. CASE dialer[c] = 1
  <2>1. entry[2] = c
    BY <1>2, <1>3 DEF AgreeInv, AckInv, ConnectedMeansAccepted, Open
  <2>. QED BY <2>1
<1>4. CASE dialer[c] = 2
  BY <1>2, <1>4 DEF AgreeInv, DiallerHolds
<1>. QED BY <1>1, <1>3, <1>4

\* When onPeerConnected tells the dialler that it is connected, the acceptor has accepted
\* that very connection; from then on the acceptor can only have let go of it.
THEOREM AcceptedFirst == Spec => []ConnectedMeansAccepted
<1>1. AgreeInv => ConnectedMeansAccepted
  BY DEF AgreeInv, AckInv
<1>. QED BY <1>1, AgreeInvInit, AgreeInvStep, PTL DEF Spec

\* Mutual dials end in one connection: two nodes never both use links that are up, held
\* open by the other end, and different.
THEOREM OneLinkOnly == Spec => []OneLinkUp
BY OneLinkFromAgreement, AgreeInvInit, AgreeInvStep, PTL DEF Spec

\* As long as a peer is remembered and not connected an attempt to dial it is outstanding,
\* whatever happens to its timer.  (MaxOrphans is the model's bound on the timers it tracks
\* outside m_reconnectTimers; with 0 the model, not the code, forgets a timer the map lost.)
THEOREM AttemptsGoOn ==
    ASSUME MaxOrphans > 0
    PROVE  Spec => []LostPeerIsRedialled
<1> DEFINE Inv == AgreeInv /\ LostPeerIsRedialled
<1>1. Init => LostPeerIsRedialled
  BY DEF Init, LostPeerIsRedialled
<1>2. Inv /\ [Next]_vars => LostPeerIsRedialled'
  BY RedialStep DEF AgreeInv
<1>. QED BY <1>1, <1>2, AgreeInvInit, AgreeInvStep, PTL DEF Spec

-----------------------------------------------------------------------------
(***************************************************************************)
(* Where a frame is.  A frame moves from place to place and is never       *)
(* copied: no two places hold it, and no place holds it twice.             *)
(***************************************************************************)

Is(f, i) == f.type = "MSG" /\ f.id = i
Carries(s, i) == \E k \in DOMAIN s : Is(s[k], i)
Single(s, i) == \A j, k \in DOMAIN s : Is(s[j], i) /\ Is(s[k], i) => j = k

LEMMA CarriesEmpty == \A i : ~Carries(<<>>, i) /\ Single(<<>>, i)
BY DEF Carries, Single

LEMMA CarriesAppend ==
    ASSUME NEW s \in Seq(Frame), NEW f \in Frame, NEW i
    PROVE  /\ Carries(Append(s, f), i) => Carries(s, i) \/ Is(f, i)
           /\ ~Is(f, i) /\ Single(s, i) => Single(Append(s, f), i)
           /\ ~Carries(s, i) => Single(Append(s, f), i)
<1>1. /\ Len(Append(s, f)) = Len(s) + 1 /\ Append(s, f)[Len(s) + 1] = f
      /\ \A k \in 1 .. Len(s) : Append(s, f)[k] = s[k]
      /\ DOMAIN Append(s, f) = 1 .. (Len(s) + 1) /\ DOMAIN s = 1 .. Len(s)
  OBVIOUS
<1>2. Len(s) \in Nat
  OBVIOUS
<1> DEFINE t == Append(s, f)
<1> HIDE DEF t
<1>3. \A k \in DOMAIN t : (k \in DOMAIN s /\ t[k] = s[k]) \/ (k = Len(s) + 1 /\ t[k] = f)
  BY <1>1, <1>2 DEF t
<1>4. Carries(t, i) => Carries(s, i) \/ Is(f, i)
  BY <1>3 DEF Carries
<1>5. ~Is(f, i) /\ Single(s, i) => Single(t, i)
  BY <1>3 DEF Single
<1>6. ~Carries(s, i) => Single(t, i)
  BY <1>3 DEF Single, Carries
<1>. QED BY <1>4, <1>5, <1>6 DEF t

\* Dropping the first k frames.
LEMMA CarriesRest ==
    ASSUME NEW s \in Seq(Frame), NEW k \in 1 .. Len(s), NEW i
    PROVE  /\ Carries(SubSeq(s, k + 1, Len(s)), i) => Carries(s, i)
           /\ Single(s, i) => Single(SubSeq(s, k + 1, Len(s)), i)
           /\ Single(s, i) /\ Is(s[k], i) => ~Carries(SubSeq(s, k + 1, Len(s)), i)
<1> DEFINE r == SubSeq(s, k + 1, Len(s))
<1>1. DOMAIN s = 1 .. Len(s) /\ Len(s) \in Nat /\ k \in DOMAIN s
  OBVIOUS
<1>2. \A j \in DOMAIN r : k + j \in DOMAIN s /\ r[j] = s[k + j] /\ j \in Nat \ {0}
  OBVIOUS
<1> HIDE DEF r
<1>3. Carries(r, i) => Carries(s, i)
  BY <1>2 DEF Carries
<1>4. Single(s, i) => Single(r, i)
  <2> SUFFICES ASSUME Single(s, i), NEW j \in DOMAIN r, NEW l \in DOMAIN r,
                      Is(r[j], i), Is(r[l], i)
               PROVE  j = l
    BY DEF Single
  <2>1. k + j = k + l
    BY <1>2 DEF Single
  <2>. QED BY <1>2, <2>1
<1>5. Single(s, i) /\ Is(s[k], i) => ~Carries(r, i)
  <2> SUFFICES ASSUME Single(s, i), Is(s[k], i), NEW j \in DOMAIN r, Is(r[j], i)
               PROVE  FALSE
    BY DEF Carries
  <2>1. k + j = k
    BY <1>1, <1>2 DEF Single
  <2>. QED BY <1>2, <2>1
<1>. QED BY <1>3, <1>4, <1>5 DEF r

LEMMA CarriesTail ==
    ASSUME NEW s \in Seq(Frame), s # <<>>, NEW i
    PROVE  /\ Carries(Tail(s), i) => Carries(s, i)
           /\ Single(s, i) => Single(Tail(s), i)
           /\ Is(Head(s), i) => Carries(s, i)
           /\ Single(s, i) /\ Is(Head(s), i) => ~Carries(Tail(s), i)
<1>1. PICK k \in 1 .. Len(s) : k = 1
  OBVIOUS
<1>2. Tail(s) = SubSeq(s, k + 1, Len(s)) /\ Head(s) = s[k] /\ k \in DOMAIN s
  BY <1>1
<1> DEFINE r == SubSeq(s, k + 1, Len(s))
<1>3. /\ Carries(r, i) => Carries(s, i)
      /\ Single(s, i) => Single(r, i)
      /\ Single(s, i) /\ Is(s[k], i) => ~Carries(r, i)
  BY CarriesRest, Zenon
<1>4. Tail(s) = r
  BY <1>2
<1> HIDE DEF r
<1>. QED BY <1>2, <1>3, <1>4 DEF Carries

LEMMA CarriesConcat ==
    ASSUME NEW s \in Seq(Frame), NEW t \in Seq(Frame), NEW i
    PROVE  /\ Carries(s \o t, i) => Carries(s, i) \/ Carries(t, i)
           /\ Single(s, i) /\ ~Carries(t, i) => Single(s \o t, i)
           /\ ~Carries(s, i) /\ Single(t, i) => Single(s \o t, i)
<1> DEFINE r == s \o t
<1>1. Len(s) \in Nat /\ DOMAIN s = 1 .. Len(s) /\ DOMAIN t = 1 .. Len(t)
  OBVIOUS
<1>2. \A k \in DOMAIN r : /\ k \in Nat
                          /\ \/ k \in DOMAIN s /\ r[k] = s[k]
                             \/ k - Len(s) \in DOMAIN t /\ r[k] = t[k - Len(s)]
  OBVIOUS
<1> HIDE DEF r
<1>3. Carries(r, i) => Carries(s, i) \/ Carries(t, i)
  BY <1>2 DEF Carries
<1>4. Single(s, i) /\ ~Carries(t, i) => Single(r, i)
  BY <1>2 DEF Single, Carries
<1>5. ~Carries(s, i) /\ Single(t, i) => Single(r, i)
  <2> SUFFICES ASSUME ~Carries(s, i), Single(t, i), NEW j \in DOMAIN r, NEW l \in DOMAIN r,
                      Is(r[j], i), Is(r[l], i)
               PROVE  j = l
    BY DEF Single
  <2>1. j - Len(s) = l - Len(s)
    BY <1>2 DEF Single, Carries
  <2>. QED BY <1>1, <1>2, <2>1
<1>. QED BY <1>3, <1>4, <1>5 DEF r

\* The same for what onMessage was given.
Got(s, i) == \E k \in DOMAIN s : s[k] = i
GotOnce(s, i) == \A j, k \in DOMAIN s : s[j] = i /\ s[k] = i => j = k

LEMMA GotAppend ==
    ASSUME NEW s \in Seq(1 .. MaxMsgs), NEW v \in 1 .. MaxMsgs, NEW i
    PROVE  /\ Got(Append(s, v), i) => Got(s, i) \/ v = i
           /\ v # i /\ GotOnce(s, i) => GotOnce(Append(s, v), i)
           /\ ~Got(s, i) => GotOnce(Append(s, v), i)
<1> DEFINE t == Append(s, v)
<1>1. \A k \in DOMAIN t : (k \in DOMAIN s /\ t[k] = s[k]) \/ (k = Len(s) + 1 /\ t[k] = v)
  OBVIOUS
<1> HIDE DEF t
<1>2. Got(t, i) => Got(s, i) \/ v = i
  BY <1>1 DEF Got
<1>3. v # i /\ GotOnce(s, i) => GotOnce(t, i)
  BY <1>1 DEF GotOnce
<1>4. ~Got(s, i) => GotOnce(t, i)
  BY <1>1 DEF Got, GotOnce
<1>. QED BY <1>2, <1>3, <1>4 DEF t

\* What has become t was s before: no frame has come to it, and none has been doubled.
Fades(s, t) ==
    \A i : (Carries(t, i) => Carries(s, i)) /\ (Single(s, i) => Single(t, i))
WiresFade(w, v) == \A d \in Conns, m \in Nodes : Fades(w[d][m], v[d][m])

LEMMA FadesToNothing == \A s : Fades(s, <<>>) /\ Fades(s, s)
BY CarriesEmpty DEF Fades

LEMMA KeepFades == UNCHANGED wire => WiresFade(wire, wire')
BY FadesToNothing DEF WiresFade

\* A frame of the protocol carries no message.
LEMMA WrittenFades ==
    ASSUME NEW c \in Conns, NEW n \in Nodes, NEW f \in Frame, f.type # "MSG",
           NEW w \in Wires, WiresFade(wire, w), wire' = Written(w, c, n, f)
    PROVE  WiresFade(wire, wire')
<1> SUFFICES ASSUME NEW d \in Conns, NEW m \in Nodes PROVE Fades(wire[d][m], wire'[d][m])
  BY DEF WiresFade
<1>1. Written(w, c, n, f)[d][m] = IF d = c /\ m = Other(n) /\ Open(c, n) /\ Reaches(c, n)
                                  THEN Append(w[d][m], f) ELSE w[d][m]
  BY WrittenValue
<1>2. \A i : /\ Carries(Append(w[d][m], f), i) => Carries(w[d][m], i)
             /\ Single(w[d][m], i) => Single(Append(w[d][m], f), i)
  BY CarriesAppend DEF Wires, Is
<1>3. Fades(wire[d][m], w[d][m])
  BY DEF WiresFade
<1>. QED BY <1>1, <1>2, <1>3 DEF Fades

LEMMA RestFades ==
    ASSUME WireType, NEW c \in Conns, NEW n \in Nodes, wire[c][n] # <<>>
    PROVE  WiresFade(wire, Rest(c, n))
<1> DEFINE v == Tail(wire[c][n])
<1>1. Rest(c, n) = [wire EXCEPT ![c][n] = v]
  BY DEF Rest
<1>2. Fades(wire[c][n], v)
  BY CarriesTail DEF WireType, Fades
<1> HIDE DEF v
<1>3. \A d \in Conns, m \in Nodes :
        Rest(c, n)[d][m] = IF d = c /\ m = n THEN v ELSE wire[d][m]
  BY <1>1, PerEndValue DEF WireType
<1>. QED BY <1>2, <1>3, FadesToNothing DEF WiresFade

LEMMA CloseFades ==
    ASSUME WireType, NEW c \in Conns, NEW n \in Nodes, wire' = [wire EXCEPT ![c][n] = <<>>]
    PROVE  WiresFade(wire, wire')
<1>1. \A d \in Conns, m \in Nodes :
        wire'[d][m] = IF d = c /\ m = n THEN <<>> ELSE wire[d][m]
  BY PerEndValue DEF WireType
<1>. QED BY <1>1, FadesToNothing DEF WiresFade

LEMMA WiresFadeStep ==
    ASSUME LinkType, WireType, [Next]_vars, \A n \in Nodes : ~RunSendFrame(n)
    PROVE  WiresFade(wire, wire')
<1> USE BoundsAssumption
<1>1. \A t \in Control : Ctl(t) \in Frame /\ Ctl(t).type # "MSG"
  BY CtlIsFrame DEF Ctl, Control
<1>2. wire \in Wires /\ WiresFade(wire, wire)
  BY FadesToNothing DEF WireType, Wires, WiresFade
<1>3. ASSUME NEW n \in Nodes,
             UserActs(n) \/ StartDial(n) \/ TimerFires(n) \/ CancelledTimerRuns(n)
               \/ AcceptDuplicate(n) \/ AnswerTooLate(n)
      PROVE  UNCHANGED wire
  BY <1>3 DEF UserActs, ConnectToPeer, SendFrame, StartDial, TimerFires, CancelledTimerRuns,
     AcceptDuplicate, AnswerTooLate, tcpVars
<1>4. ASSUME NEW n \in Nodes, AcceptIncoming(n) \/ RejectIncoming(n) PROVE WiresFade(wire, wire')
  <2>1. PICK c \in Conns, b \in BOOLEAN : wire' = Written(wire, c, n, AckFrame(b))
    BY <1>4 DEF AcceptIncoming, RejectIncoming
  <2>2. AckFrame(b) \in Frame /\ AckFrame(b).type # "MSG"
    BY <1>1 DEF AckFrame, Control
  <2>. QED BY <1>2, <2>1, <2>2, WrittenFades
<1>5. ASSUME NEW n \in Nodes, FirstPing(n) \/ PingTick(n) PROVE WiresFade(wire, wire')
  <2>1. SendPing(n)
    BY <1>5 DEF FirstPing, PingTick
  <2>2. CASE UNCHANGED wire
    BY <2>2, KeepFades
  <2>3. CASE HasSocket(n) /\ wire' = Written(wire, entry[n], n, Ctl("PING"))
    <3>1. entry[n] \in Conns
      BY <2>3 DEF HasSocket, LinkType
    <3>2. Ctl("PING") \in Frame /\ Ctl("PING").type # "MSG"
      BY <1>1 DEF Control
    <3>. QED BY <1>2, <2>3, <3>1, <3>2, WrittenFades
  <2>. QED BY <2>1, <2>2, <2>3 DEF SendPing
<1>6. ASSUME NEW n \in Nodes, PongTimeout(n) PROVE WiresFade(wire, wire')
  <2>1. entry[n] \in Conns /\ Close(entry[n], n)
    BY <1>6 DEF PongTimeout, LinkType
  <2>. QED BY <2>1, CloseFades DEF Close
<1>7. ASSUME NEW n \in Nodes, Restart(n) PROVE WiresFade(wire, wire')
  <2>1. \A d \in Conns, m \in Nodes : wire'[d][m] = IF m = n THEN <<>> ELSE wire[d][m]
    BY <1>7 DEF Restart, WireType
  <2>. QED BY <2>1, FadesToNothing DEF WiresFade
<1>8. ASSUME NEW c \in Conns, NEW n \in Nodes,
             DialFails(c, n) \/ DialDuplicate(c, n) \/ Accept(c, n) \/ LateDialTimeout(c, n)
      PROVE  UNCHANGED wire
  BY <1>8 DEF DialFails, DialDuplicate, Accept, LateDialTimeout
<1>9. ASSUME NEW c \in Conns, NEW n \in Nodes, DialSucceeds(c, n) PROVE WiresFade(wire, wire')
  <2> DEFINE v == <<Ctl("CLIENT_HELLO")>>
  <2>1. \A i : ~Carries(v, i) /\ Single(v, i)
    BY DEF Carries, Single, Is, Ctl
  <2>2. wire' = [wire EXCEPT ![c][Other(n)] = v]
    BY <1>9 DEF DialSucceeds
  <2> HIDE DEF v
  <2>3. \A d \in Conns, m \in Nodes :
          wire'[d][m] = IF d = c /\ m = Other(n) THEN v ELSE wire[d][m]
    BY <2>2, OtherIsNode, PerEndValue DEF WireType
  <2>. QED BY <2>1, <2>3, FadesToNothing DEF WiresFade, Fades
<1>10. ASSUME NEW c \in Conns, NEW n \in Nodes, Receive(c, n), ~StaleRead(c, n)
       PROVE  WiresFade(wire, wire')
  <2>1. wire[c][n] # <<>> /\ Served(c, n) \in Conns
    BY <1>10 DEF Receive, Answer, OnHandshake, OnAckYes, OnAckNo, OnPong, OnMessage, Arrives,
       CanRead, Served, LinkType
  <2>2. Rest(c, n) \in Wires /\ WiresFade(wire, Rest(c, n))
    BY <2>1, RestType, RestFades DEF Wires
  <2>3. CASE Answer(c, n)
    <3>1. PICK t \in DOMAIN AnswerTo :
             wire' = Written(Rest(c, n), Served(c, n), n, Ctl(AnswerTo[t]))
      BY <2>3 DEF Answer
    <3>2. AnswerTo[t] \in Control
      BY DEF AnswerTo, Control
    <3>3. PICK s \in Conns : s = Served(c, n)
      BY <2>1
    <3>4. PICK f \in Frame : f = Ctl(AnswerTo[t]) /\ f.type # "MSG"
      BY <1>1, <3>2
    <3>5. PICK w \in Wires : w = Rest(c, n)
      BY <2>2
    <3>6. wire' = Written(w, s, n, f)
      BY <3>1, <3>3, <3>4, <3>5
    <3>. QED BY <2>2, <3>4, <3>5, <3>6, WrittenFades
  <2>4. CASE OnAckNo(c, n)
    <3>1. PICK s \in Conns : s = Served(c, n)
      BY <2>1
    <3>. QED BY <2>4, <3>1, CloseFades DEF OnAckNo, Close
  <2>5. CASE OnHandshake(c, n) \/ OnAckYes(c, n) \/ OnPong(c, n) \/ OnMessage(c, n)
    <3>1. wire' = Rest(c, n)
      BY <2>5 DEF OnHandshake, OnAckYes, OnPong, OnMessage
    <3>. QED BY <2>2, <3>1
  <2>. QED BY <1>10, <2>3, <2>4, <2>5 DEF Receive
<1>11. ASSUME NEW c \in Conns, NEW n \in Nodes, StaleRead(c, n) PROVE WiresFade(wire, wire')
  <2>1. PICK k \in 1 .. Len(wire[c][n]) :
           wire' = [wire EXCEPT ![c][n] = SubSeq(@, k + 1, Len(@))]
    BY <1>11 DEF StaleRead
  <2> DEFINE v == SubSeq(wire[c][n], k + 1, Len(wire[c][n]))
  <2>2. Fades(wire[c][n], v)
    BY CarriesRest DEF WireType, Fades
  <2>3. wire' = [wire EXCEPT ![c][n] = v]
    BY <2>1
  <2> HIDE DEF v
  <2>4. \A d \in Conns, m \in Nodes :
          wire'[d][m] = IF d = c /\ m = n THEN v ELSE wire[d][m]
    BY <2>3, PerEndValue DEF WireType
  <2>. QED BY <2>2, <2>4, FadesToNothing DEF WiresFade
<1>12. ASSUME NEW c \in Conns, NEW n \in Nodes,
              BufferOverflow(c, n) \/ PendingReadFails(c, n) \/ RunClose(c, n)
       PROVE  WiresFade(wire, wire')
  BY <1>12, CloseFades, KeepFades DEF BufferOverflow, PendingReadFails, RunClose, Close
<1>13. ASSUME NEW c \in Conns, NEW n \in Nodes, PeerReadFails(c, n) PROVE WiresFade(wire, wire')
  <2>1. entry[n] \in Conns /\ Close(entry[n], n)
    BY <1>13 DEF PeerReadFails, HandleDisconnect, LinkType
  <2>. QED BY <2>1, CloseFades DEF Close
<1>14. ASSUME NEW c \in Conns, Break(c) \/ Recycle(c) PROVE WiresFade(wire, wire')
  <2>1. \A d \in Conns, m \in Nodes : wire'[d][m] = IF d = c THEN <<>> ELSE wire[d][m]
    BY <1>14 DEF Break, Recycle, WireType
  <2>. QED BY <2>1, FadesToNothing DEF WiresFade
<1>15. CASE UNCHANGED vars
  BY <1>15, KeepFades DEF vars, tcpVars
<1>16. CASE UNCHANGED wire
  BY <1>16, KeepFades
<1>. QED
  BY <1>3, <1>4, <1>5, <1>6, <1>7, <1>8, <1>9, <1>10, <1>11, <1>12, <1>13, <1>14, <1>15,
     <1>16 DEF Next, UserAnswers, Receive

Kinds == {"outbox", "queue", "got", "stray", "wire"}
Ends == Conns \cup {NoConn}

\* Frame i is in the place of kind k at node n; c tells the wires apart.
Lies(i, k, n, c) ==
    \/ k = "outbox" /\ c = NoConn /\ Carries(outbox[n], i)
    \/ k = "queue" /\ c = NoConn /\ Carries(queue[n], i)
    \/ k = "got" /\ c = NoConn /\ Got(got[n], i)
    \/ k = "stray" /\ c = NoConn /\ i \in stray[n]
    \/ k = "wire" /\ c \in Conns /\ Carries(wire[c][n], i)

OnePlace(i) ==
    \A k, l \in Kinds, n, m \in Nodes, c, d \in Ends :
        Lies(i, k, n, c) /\ Lies(i, l, m, d) => k = l /\ n = m /\ c = d

OneCopy(i) ==
    \A n \in Nodes :
        /\ Single(outbox[n], i) /\ Single(queue[n], i) /\ GotOnce(got[n], i)
        /\ \A c \in Conns : Single(wire[c][n], i)

NotYet(i) == i > sent => \A k \in Kinds, n \in Nodes, c \in Ends : ~Lies(i, k, n, c)

Unique(i) == OneCopy(i) /\ OnePlace(i) /\ NotYet(i)
CopyInv == \A i \in 1 .. MaxMsgs : Unique(i)

\* A frame that comes to no new place.
LEMMA UniqueKept ==
    ASSUME NEW i \in 1 .. MaxMsgs, Unique(i), OneCopy(i)', UNCHANGED sent,
           \A k \in Kinds, n \in Nodes, c \in Ends : Lies(i, k, n, c)' => Lies(i, k, n, c)
    PROVE  Unique(i)'
<1>1. OnePlace(i)'
  BY DEF Unique, OnePlace
<1>2. NotYet(i)'
  BY DEF Unique, NotYet
<1>. QED BY <1>1, <1>2 DEF Unique

\* A frame that leaves its place for another.
LEMMA UniqueMoved ==
    ASSUME NEW i \in 1 .. MaxMsgs, OneCopy(i)', ~(i > sent)',
           NEW l \in Kinds, NEW m \in Nodes, NEW d \in Ends,
           \A k \in Kinds, n \in Nodes, c \in Ends :
              Lies(i, k, n, c)' => k = l /\ n = m /\ c = d
    PROVE  Unique(i)'
<1>1. OnePlace(i)'
  BY DEF OnePlace
<1>. QED BY <1>1 DEF Unique, NotYet

\* A frame that lies somewhere lies nowhere else, and has been sent.
LEMMA OnlyThere ==
    ASSUME NEW i \in 1 .. MaxMsgs, Unique(i),
           NEW l \in Kinds, NEW m \in Nodes, NEW d \in Ends, Lies(i, l, m, d)
    PROVE  /\ ~(i > sent)
           /\ \A k \in Kinds, n \in Nodes, c \in Ends :
                 Lies(i, k, n, c) => k = l /\ n = m /\ c = d
BY DEF Unique, OnePlace, NotYet

\* The steps in which no frame comes to a new place.
BoxesFade == \A n \in Nodes : Fades(outbox[n], outbox'[n]) /\ Fades(queue[n], queue'[n])

LEMMA UniqueFades ==
    ASSUME CopyInv, WiresFade(wire, wire'), BoxesFade, UNCHANGED <<got, stray, sent>>
    PROVE  CopyInv'
<1> SUFFICES ASSUME NEW i \in 1 .. MaxMsgs PROVE Unique(i)'
  BY DEF CopyInv
<1>1. Unique(i)
  BY DEF CopyInv
<1>2. OneCopy(i)'
  BY <1>1 DEF Unique, OneCopy, WiresFade, BoxesFade, Fades
<1>3. \A k \in Kinds, n \in Nodes, c \in Ends : Lies(i, k, n, c)' => Lies(i, k, n, c)
  BY DEF Lies, WiresFade, BoxesFade, Fades
<1>. QED BY <1>1, <1>2, <1>3, UniqueKept

LEMMA KeepBoxes == UNCHANGED <<outbox, queue>> => BoxesFade
BY FadesToNothing DEF BoxesFade

\* sendFrame posts a frame that is nowhere yet.
LEMMA SendUnique ==
    ASSUME MessageType, CopyInv, NEW n \in Nodes, SendFrame(n)
    PROVE  CopyInv'
<1> DEFINE f == Msg(sent + 1)
<1>1. /\ sent \in Nat /\ sent' = sent + 1 /\ sent + 1 \in 1 .. MaxMsgs
      /\ outbox' = [outbox EXCEPT ![n] = Append(outbox[n], f)]
      /\ UNCHANGED <<queue, got, stray, wire>>
  BY BoundsAssumption DEF SendFrame, MessageType, tcpVars
<1>2. f \in Frame /\ \A i : Is(f, i) <=> i = sent + 1
  BY <1>1 DEF Msg, Frame, Is
<1>3. \A m \in Nodes : outbox[m] \in Seq(Frame)
  BY AppFramesAreFrames DEF MessageType
<1> HIDE DEF f
<1>4. \A m \in Nodes : outbox'[m] = IF m = n THEN Append(outbox[n], f) ELSE outbox[m]
  BY <1>1 DEF MessageType
<1> SUFFICES ASSUME NEW i \in 1 .. MaxMsgs PROVE Unique(i)'
  BY DEF CopyInv
<1>5. Unique(i)
  BY DEF CopyInv
<1>6. CASE i = sent + 1
  <2>1. \A k \in Kinds, m \in Nodes, c \in Ends : ~Lies(i, k, m, c)
    BY <1>1, <1>5, <1>6 DEF Unique, NotYet
  <2>2. NoConn \in Ends /\ "outbox" \in Kinds
    BY DEF Ends, Kinds
  <2>3. \A m \in Nodes : ~Carries(outbox[m], i)
    BY <2>1, <2>2 DEF Lies
  <2>4. \A m \in Nodes : Single(outbox'[m], i)
    BY <1>2, <1>3, <1>4, <1>5, <2>3, CarriesAppend DEF Unique, OneCopy
  <2>5. OneCopy(i)'
    BY <1>1, <1>5, <2>4 DEF Unique, OneCopy
  <2>6. \A k \in Kinds, m \in Nodes, c \in Ends :
          Lies(i, k, m, c)' => k = "outbox" /\ m = n /\ c = NoConn
    <3> SUFFICES ASSUME NEW k \in Kinds, NEW m \in Nodes, NEW c \in Ends, Lies(i, k, m, c)'
                 PROVE  k = "outbox" /\ m = n /\ c = NoConn
      OBVIOUS
    <3>1. k = "outbox" /\ c = NoConn /\ Carries(outbox'[m], i)
      BY <1>1, <2>1 DEF Lies
    <3>. QED BY <1>4, <2>3, <3>1
  <2>7. ~(i > sent)'
    BY <1>1, <1>6
  <2>. QED BY <2>2, <2>5, <2>6, <2>7, UniqueMoved
<1>7. CASE i # sent + 1
  <2>1. \A m \in Nodes : /\ Carries(outbox'[m], i) => Carries(outbox[m], i)
                         /\ Single(outbox'[m], i)
    BY <1>2, <1>3, <1>4, <1>5, <1>7, CarriesAppend DEF Unique, OneCopy
  <2>2. OneCopy(i)'
    BY <1>1, <1>5, <2>1 DEF Unique, OneCopy
  <2>3. \A k \in Kinds, m \in Nodes, c \in Ends : Lies(i, k, m, c)' => Lies(i, k, m, c)
    BY <1>1, <2>1 DEF Lies
  <2>4. OnePlace(i)'
    BY <1>5, <2>3 DEF Unique, OnePlace
  <2>5. NotYet(i)'
    BY <1>1, <1>5, <1>7, <2>3 DEF Unique, NotYet
  <2>. QED BY <2>2, <2>4, <2>5 DEF Unique
<1>. QED BY <1>6, <1>7

\* drainMessageQueue moves the queue behind what is posted already.
LEMMA DrainUnique ==
    ASSUME MessageType, CopyInv, NEW n \in Nodes, DrainQueue(n), WiresFade(wire, wire'),
           UNCHANGED <<got, stray, sent>>
    PROVE  CopyInv'
<1> DEFINE b == outbox[n] \o queue[n]
<1>1. \A m \in Nodes : outbox[m] \in Seq(Frame) /\ queue[m] \in Seq(Frame)
  BY AppFramesAreFrames DEF MessageType
<1>2. \A i : /\ Carries(b, i) => Carries(outbox[n], i) \/ Carries(queue[n], i)
             /\ Single(outbox[n], i) /\ ~Carries(queue[n], i) => Single(b, i)
             /\ ~Carries(outbox[n], i) /\ Single(queue[n], i) => Single(b, i)
  BY <1>1, CarriesConcat
<1>3. outbox' = [outbox EXCEPT ![n] = b] /\ queue' = [queue EXCEPT ![n] = <<>>]
  BY DEF DrainQueue
<1> HIDE DEF b
<1>4. \A m \in Nodes : /\ outbox'[m] = IF m = n THEN b ELSE outbox[m]
                       /\ queue'[m] = IF m = n THEN <<>> ELSE queue[m]
  BY <1>3 DEF MessageType
<1> SUFFICES ASSUME NEW i \in 1 .. MaxMsgs PROVE Unique(i)'
  BY DEF CopyInv
<1>5. Unique(i)
  BY DEF CopyInv
<1>6. \A c \in Conns, m \in Nodes : /\ Carries(wire'[c][m], i) => Carries(wire[c][m], i)
                                    /\ Single(wire'[c][m], i)
  BY <1>5 DEF WiresFade, Fades, Unique, OneCopy
<1>7. NoConn \in Ends /\ "outbox" \in Kinds /\ "queue" \in Kinds
  BY DEF Ends, Kinds
<1>8. CASE Carries(queue[n], i)
  <2>1. Lies(i, "queue", n, NoConn)
    BY <1>8 DEF Lies
  <2>2. /\ ~(i > sent)
        /\ \A k \in Kinds, m \in Nodes, c \in Ends :
              Lies(i, k, m, c) => k = "queue" /\ m = n /\ c = NoConn
    BY <1>5, <1>7, <2>1, OnlyThere
  <2>3. \A m \in Nodes : ~Carries(outbox[m], i)
    BY <1>7, <2>2 DEF Lies
  <2>4. \A m \in Nodes : Single(outbox'[m], i) /\ Single(queue'[m], i)
    BY <1>2, <1>4, <1>5, <2>3, CarriesEmpty DEF Unique, OneCopy
  <2>5. OneCopy(i)'
    BY <1>5, <1>6, <2>4 DEF Unique, OneCopy
  <2>6. \A k \in Kinds, m \in Nodes, c \in Ends :
          Lies(i, k, m, c)' => k = "outbox" /\ m = n /\ c = NoConn
    <3> SUFFICES ASSUME NEW k \in Kinds, NEW m \in Nodes, NEW c \in Ends, Lies(i, k, m, c)'
                 PROVE  k = "outbox" /\ m = n /\ c = NoConn
      OBVIOUS
    <3>1. CASE k = "outbox"
      <4>1. c = NoConn /\ Carries(outbox'[m], i)
        BY <3>1 DEF Lies
      <4>. QED BY <1>4, <2>3, <3>1, <4>1
    <3>2. CASE k = "queue"
      <4>1. Carries(queue'[m], i) /\ c = NoConn
        BY <3>2 DEF Lies
      <4>2. m # n /\ Carries(queue[m], i)
        BY <1>4, <4>1, CarriesEmpty
      <4>3. Lies(i, "queue", m, NoConn)
        BY <4>2 DEF Lies
      <4>. QED BY <1>7, <2>2, <4>2, <4>3
    <3>3. CASE k # "outbox" /\ k # "queue"
      <4>1. Lies(i, k, m, c)
        BY <1>6, <3>3 DEF Lies
      <4>. QED BY <2>2, <3>3, <4>1
    <3>. QED BY <3>1, <3>2, <3>3
  <2>. QED BY <1>7, <2>2, <2>5, <2>6, UniqueMoved
<1>9. CASE ~Carries(queue[n], i)
  <2>1. \A m \in Nodes : Single(outbox'[m], i) /\ Single(queue'[m], i)
    BY <1>2, <1>4, <1>5, <1>9, CarriesEmpty DEF Unique, OneCopy
  <2>2. OneCopy(i)'
    BY <1>5, <1>6, <2>1 DEF Unique, OneCopy
  <2>3. \A m \in Nodes : /\ Carries(outbox'[m], i) => Carries(outbox[m], i)
                         /\ Carries(queue'[m], i) => Carries(queue[m], i)
    BY <1>2, <1>4, <1>9, CarriesEmpty
  <2>4. \A k \in Kinds, m \in Nodes, c \in Ends : Lies(i, k, m, c)' => Lies(i, k, m, c)
    <3> SUFFICES ASSUME NEW k \in Kinds, NEW m \in Nodes, NEW c \in Ends, Lies(i, k, m, c)'
                 PROVE  Lies(i, k, m, c)
      OBVIOUS
    <3>1. CASE k = "outbox"
      <4>1. c = NoConn /\ Carries(outbox'[m], i)
        BY <3>1 DEF Lies
      <4>2. Carries(outbox[m], i)
        BY <2>3, <4>1
      <4>. QED BY <3>1, <4>1, <4>2 DEF Lies
    <3>2. CASE k = "queue"
      <4>1. c = NoConn /\ Carries(queue'[m], i)
        BY <3>2 DEF Lies
      <4>2. Carries(queue[m], i)
        BY <2>3, <4>1
      <4>. QED BY <3>2, <4>1, <4>2 DEF Lies
    <3>3. CASE k # "outbox" /\ k # "queue"
      BY <1>6, <3>3 DEF Lies
    <3>. QED BY <3>1, <3>2, <3>3
  <2>. QED BY <1>5, <2>2, <2>4, UniqueKept
<1>. QED BY <1>8, <1>9

\* The posted lambda of sendFrame takes the first frame posted and puts it at the
\* end of the queue, or on the wire, or nowhere.
LEMMA QueuedUnique ==
    ASSUME MessageType, CopyInv, NEW n \in Nodes, outbox[n] # <<>>,
           outbox' = [outbox EXCEPT ![n] = Tail(@)], Enqueue(n, Head(outbox[n])),
           UNCHANGED <<wire, got, stray, sent>>
    PROVE  CopyInv'
<1> DEFINE f == Head(outbox[n])
           r == Tail(outbox[n])
           q == IF Len(queue[n]) < MaxQueueSize THEN Append(queue[n], f) ELSE queue[n]
<1>1. outbox[n] \in Seq(AppFrame) /\ f \in AppFrame
  BY DEF MessageType
<1>2. f \in Frame /\ \A m \in Nodes : outbox[m] \in Seq(Frame) /\ queue[m] \in Seq(Frame)
  BY <1>1, AppFramesAreFrames DEF MessageType
<1>3. \A i : /\ Carries(r, i) => Carries(outbox[n], i)
             /\ Single(outbox[n], i) => Single(r, i)
             /\ Is(f, i) => Carries(outbox[n], i)
             /\ Single(outbox[n], i) /\ Is(f, i) => ~Carries(r, i)
  BY <1>2, CarriesTail
<1>4. \A i : /\ Carries(q, i) => Carries(queue[n], i) \/ Is(f, i)
             /\ ~Is(f, i) /\ Single(queue[n], i) => Single(q, i)
             /\ ~Carries(queue[n], i) /\ Single(queue[n], i) => Single(q, i)
  BY <1>2, CarriesAppend
<1>5. outbox' = [outbox EXCEPT ![n] = r] /\ queue' = [queue EXCEPT ![n] = q]
  BY DEF Enqueue
<1> HIDE DEF f, r, q
<1>6. \A m \in Nodes : /\ outbox'[m] = IF m = n THEN r ELSE outbox[m]
                       /\ queue'[m] = IF m = n THEN q ELSE queue[m]
  BY <1>5 DEF MessageType
<1> SUFFICES ASSUME NEW i \in 1 .. MaxMsgs PROVE Unique(i)'
  BY DEF CopyInv
<1>7. Unique(i)
  BY DEF CopyInv
<1>8. NoConn \in Ends /\ "outbox" \in Kinds /\ "queue" \in Kinds
  BY DEF Ends, Kinds
<1>9. \A m \in Nodes : Single(outbox[m], i) /\ Single(queue[m], i)
  BY <1>7 DEF Unique, OneCopy
<1>10. CASE Is(f, i)
  <2>1. Lies(i, "outbox", n, NoConn)
    BY <1>3, <1>10 DEF Lies
  <2>2. /\ ~(i > sent)
        /\ \A k \in Kinds, m \in Nodes, c \in Ends :
              Lies(i, k, m, c) => k = "outbox" /\ m = n /\ c = NoConn
    BY <1>7, <1>8, <2>1, OnlyThere
  <2>3. \A m \in Nodes : ~Carries(queue[m], i)
    BY <1>8, <2>2 DEF Lies
  <2>4. \A m \in Nodes : Single(outbox'[m], i) /\ Single(queue'[m], i)
    BY <1>3, <1>4, <1>6, <1>9, <2>3
  <2>5. OneCopy(i)'
    BY <1>7, <2>4 DEF Unique, OneCopy
  <2>6. \A k \in Kinds, m \in Nodes, c \in Ends :
          Lies(i, k, m, c)' => k = "queue" /\ m = n /\ c = NoConn
    <3> SUFFICES ASSUME NEW k \in Kinds, NEW m \in Nodes, NEW c \in Ends, Lies(i, k, m, c)'
                 PROVE  k = "queue" /\ m = n /\ c = NoConn
      OBVIOUS
    <3>1. CASE k = "outbox"
      <4>1. c = NoConn /\ Carries(outbox'[m], i)
        BY <3>1 DEF Lies
      <4>2. m # n /\ Carries(outbox[m], i)
        BY <1>3, <1>6, <1>9, <1>10, <4>1
      <4>3. Lies(i, "outbox", m, NoConn)
        BY <4>2 DEF Lies
      <4>. QED BY <1>8, <2>2, <4>2, <4>3
    <3>2. CASE k = "queue"
      <4>1. Carries(queue'[m], i) /\ c = NoConn
        BY <3>2 DEF Lies
      <4>. QED BY <1>6, <2>3, <3>2, <4>1
    <3>3. CASE k # "outbox" /\ k # "queue"
      <4>1. Lies(i, k, m, c)
        BY <3>3 DEF Lies
      <4>. QED BY <2>2, <3>3, <4>1
    <3>. QED BY <3>1, <3>2, <3>3
  <2>. QED BY <1>8, <2>2, <2>5, <2>6, UniqueMoved
<1>11. CASE ~Is(f, i)
  <2>1. \A m \in Nodes : /\ Single(outbox'[m], i) /\ Single(queue'[m], i)
                         /\ Carries(outbox'[m], i) => Carries(outbox[m], i)
                         /\ Carries(queue'[m], i) => Carries(queue[m], i)
    BY <1>3, <1>4, <1>6, <1>9, <1>11
  <2>2. OneCopy(i)'
    BY <1>7, <2>1 DEF Unique, OneCopy
  <2>3. \A k \in Kinds, m \in Nodes, c \in Ends : Lies(i, k, m, c)' => Lies(i, k, m, c)
    BY <2>1 DEF Lies
  <2>. QED BY <1>7, <2>2, <2>3, UniqueKept
<1>. QED BY <1>10, <1>11

LEMMA PutOnWireUnique ==
    ASSUME LinkType, WireType, MessageType, CopyInv, NEW n \in Nodes, outbox[n] # <<>>,
           outbox' = [outbox EXCEPT ![n] = Tail(@)], HasSocket(n),
           wire' = Written(wire, entry[n], n, Head(outbox[n])),
           UNCHANGED <<queue, got, stray, sent>>
    PROVE  CopyInv'
<1> DEFINE f == Head(outbox[n])
           r == Tail(outbox[n])
<1>1. outbox[n] \in Seq(AppFrame) /\ f \in AppFrame
  BY DEF MessageType
<1>2. f \in Frame /\ \A m \in Nodes : outbox[m] \in Seq(Frame)
  BY <1>1, AppFramesAreFrames DEF MessageType
<1>3. \A i : /\ Carries(r, i) => Carries(outbox[n], i)
             /\ Single(outbox[n], i) => Single(r, i)
             /\ Is(f, i) => Carries(outbox[n], i)
             /\ Single(outbox[n], i) /\ Is(f, i) => ~Carries(r, i)
  BY <1>2, CarriesTail
<1>4. outbox' = [outbox EXCEPT ![n] = r]
  OBVIOUS
<1>5. PICK e \in Conns : e = entry[n]
  BY DEF HasSocket, LinkType
<1>6. wire' = Written(wire, e, n, f)
  BY <1>5
<1> HIDE DEF f, r
<1>7. \A m \in Nodes : outbox'[m] = IF m = n THEN r ELSE outbox[m]
  BY <1>4 DEF MessageType
<1>8. wire \in Wires /\ \A d \in Conns, m \in Nodes : wire[d][m] \in Seq(Frame)
  BY DEF WireType, Wires
<1>9. \A d \in Conns, m \in Nodes :
        \/ wire'[d][m] = wire[d][m]
        \/ d = e /\ m = Other(n) /\ wire'[d][m] = Append(wire[d][m], f)
  <2> SUFFICES ASSUME NEW d \in Conns, NEW m \in Nodes
               PROVE  \/ wire'[d][m] = wire[d][m]
                      \/ d = e /\ m = Other(n) /\ wire'[d][m] = Append(wire[d][m], f)
    OBVIOUS
  <2>1. Written(wire, e, n, f)[d][m] = IF d = e /\ m = Other(n) /\ Open(e, n) /\ Reaches(e, n)
                                       THEN Append(wire[d][m], f) ELSE wire[d][m]
    BY <1>2, <1>8, WrittenValue
  <2>. QED BY <1>6, <2>1
<1> SUFFICES ASSUME NEW i \in 1 .. MaxMsgs PROVE Unique(i)'
  BY DEF CopyInv
<1>10. Unique(i)
  BY DEF CopyInv
<1>11. /\ NoConn \in Ends /\ e \in Ends /\ Other(n) \in Nodes
       /\ "outbox" \in Kinds /\ "wire" \in Kinds
  BY OtherIsNode DEF Ends, Kinds
<1>12. \A m \in Nodes : Single(outbox[m], i) /\ \A d \in Conns : Single(wire[d][m], i)
  BY <1>10 DEF Unique, OneCopy
<1>13. \A d \in Conns, m \in Nodes :
         LET a == Append(wire[d][m], f) IN
         /\ Carries(a, i) => Carries(wire[d][m], i) \/ Is(f, i)
         /\ ~Is(f, i) => Single(a, i)
         /\ ~Carries(wire[d][m], i) => Single(a, i)
  BY <1>2, <1>8, <1>12, CarriesAppend
<1>14. CASE Is(f, i)
  <2>1. Lies(i, "outbox", n, NoConn)
    BY <1>3, <1>14 DEF Lies
  <2>2. /\ ~(i > sent)
        /\ \A k \in Kinds, m \in Nodes, c \in Ends :
              Lies(i, k, m, c) => k = "outbox" /\ m = n /\ c = NoConn
    BY <1>10, <1>11, <2>1, OnlyThere
  <2>3. \A d \in Conns, m \in Nodes : ~Carries(wire[d][m], i)
    <3> SUFFICES ASSUME NEW d \in Conns, NEW m \in Nodes, Carries(wire[d][m], i) PROVE FALSE
      OBVIOUS
    <3>1. Lies(i, "wire", m, d) /\ d \in Ends
      BY DEF Lies, Ends
    <3>. QED BY <1>11, <2>2, <3>1
  <2>4. \A m \in Nodes : Single(outbox'[m], i)
    BY <1>3, <1>7, <1>12
  <2>5. \A d \in Conns, m \in Nodes : Single(wire'[d][m], i)
    BY <1>9, <1>12, <1>13, <2>3
  <2>6. OneCopy(i)'
    BY <1>10, <2>4, <2>5 DEF Unique, OneCopy
  <2>7. \A k \in Kinds, m \in Nodes, c \in Ends :
          Lies(i, k, m, c)' => k = "wire" /\ m = Other(n) /\ c = e
    <3> SUFFICES ASSUME NEW k \in Kinds, NEW m \in Nodes, NEW c \in Ends, Lies(i, k, m, c)'
                 PROVE  k = "wire" /\ m = Other(n) /\ c = e
      OBVIOUS
    <3>1. CASE k = "outbox"
      <4>1. c = NoConn /\ Carries(outbox'[m], i)
        BY <3>1 DEF Lies
      <4>2. m # n /\ Carries(outbox[m], i)
        BY <1>3, <1>7, <1>12, <1>14, <4>1
      <4>3. Lies(i, "outbox", m, NoConn)
        BY <4>2 DEF Lies
      <4>. QED BY <1>11, <2>2, <4>2, <4>3
    <3>2. CASE k = "wire"
      <4>1. c \in Conns /\ Carries(wire'[c][m], i)
        BY <3>2 DEF Lies
      <4>. QED BY <1>9, <2>3, <3>2, <4>1
    <3>3. CASE k # "outbox" /\ k # "wire"
      <4>1. Lies(i, k, m, c)
        BY <3>3 DEF Lies
      <4>. QED BY <2>2, <3>3, <4>1
    <3>. QED BY <3>1, <3>2, <3>3
  <2>8. ~(i > sent)'
    BY <2>2
  <2>9. OnePlace(i)'
    BY <2>7 DEF OnePlace
  <2>. QED BY <2>6, <2>8, <2>9 DEF Unique, NotYet
<1>15. CASE ~Is(f, i)
  <2>1. \A m \in Nodes : /\ Single(outbox'[m], i)
                         /\ Carries(outbox'[m], i) => Carries(outbox[m], i)
    BY <1>3, <1>7, <1>12, <1>15
  <2>2. \A d \in Conns, m \in Nodes : /\ Single(wire'[d][m], i)
                                      /\ Carries(wire'[d][m], i) => Carries(wire[d][m], i)
    BY <1>9, <1>12, <1>13, <1>15
  <2>3. OneCopy(i)'
    BY <1>10, <2>1, <2>2 DEF Unique, OneCopy
  <2>4. \A k \in Kinds, m \in Nodes, c \in Ends : Lies(i, k, m, c)' => Lies(i, k, m, c)
    BY <2>1, <2>2 DEF Lies
  <2>. QED BY <1>10, <2>3, <2>4, UniqueKept
<1>. QED BY <1>14, <1>15

\* A frame read leaves the wire for onMessage.
LEMMA ReadUnique ==
    ASSUME LinkType, WireType, MessageType, CopyInv,
           NEW c \in Conns, NEW n \in Nodes, OnMessage(c, n)
    PROVE  CopyInv'
<1> DEFINE f == Head(wire[c][n])
           r == Tail(wire[c][n])
           anon == pendRead[c][n] /\ pending[n][c] = "anon"
           g == IF anon THEN got[n] ELSE Append(got[n], f.id)
           s == IF anon THEN stray[n] \cup {f.id} ELSE stray[n]
<1>1. /\ wire[c][n] # <<>> /\ f.type = "MSG"
      /\ wire' = [wire EXCEPT ![c][n] = r]
      /\ got' = [got EXCEPT ![n] = g] /\ stray' = [stray EXCEPT ![n] = s]
      /\ UNCHANGED <<outbox, queue, sent>>
  BY DEF OnMessage, Arrives, CanRead, Rest, MessageType, countVars
<1>2. wire[c][n] \in Seq(Frame) /\ f \in Frame /\ f.id \in 1 .. MaxMsgs
  BY <1>1 DEF WireType, Frame, Control
<1>3. \A i : /\ Carries(r, i) => Carries(wire[c][n], i)
             /\ Single(wire[c][n], i) => Single(r, i)
             /\ Is(f, i) => Carries(wire[c][n], i)
             /\ Single(wire[c][n], i) /\ Is(f, i) => ~Carries(r, i)
  BY <1>1, <1>2, CarriesTail
<1>4. PICK j \in 1 .. MaxMsgs : j = f.id /\ \A i : Is(f, i) <=> i = j
  BY <1>1, <1>2 DEF Is
<1>5. got[n] \in Seq(1 .. MaxMsgs)
  BY DEF MessageType
<1>6. \A i : /\ Got(g, i) => Got(got[n], i) \/ i = j
             /\ i # j /\ GotOnce(got[n], i) => GotOnce(g, i)
             /\ ~Got(got[n], i) /\ GotOnce(got[n], i) => GotOnce(g, i)
             /\ anon => g = got[n]
  BY <1>4, <1>5, GotAppend
<1>7. \A i : /\ i \in s => i \in stray[n] \/ i = j
             /\ ~anon => s = stray[n]
  BY <1>4
<1> HIDE DEF f, r, g, s, anon
<1>8. \A d \in Conns, m \in Nodes : wire'[d][m] = IF d = c /\ m = n THEN r ELSE wire[d][m]
  BY <1>1, PerEndValue DEF WireType
<1>9. \A m \in Nodes : /\ got'[m] = IF m = n THEN g ELSE got[m]
                       /\ stray'[m] = IF m = n THEN s ELSE stray[m]
  BY <1>1 DEF MessageType
<1> SUFFICES ASSUME NEW i \in 1 .. MaxMsgs PROVE Unique(i)'
  BY DEF CopyInv
<1>10. Unique(i)
  BY DEF CopyInv
<1>11. /\ NoConn \in Ends /\ c \in Ends
       /\ "got" \in Kinds /\ "stray" \in Kinds /\ "wire" \in Kinds
  BY DEF Ends, Kinds
<1>12. \A m \in Nodes : GotOnce(got[m], i) /\ \A d \in Conns : Single(wire[d][m], i)
  BY <1>10 DEF Unique, OneCopy
<1>13. \A d \in Conns, m \in Nodes : /\ Carries(wire'[d][m], i) => Carries(wire[d][m], i)
                                     /\ Single(wire'[d][m], i)
  BY <1>3, <1>8, <1>12
<1>14. CASE i = j
  <2>1. Lies(i, "wire", n, c)
    BY <1>3, <1>4, <1>14 DEF Lies
  <2>2. /\ ~(i > sent)
        /\ \A k \in Kinds, m \in Nodes, d \in Ends :
              Lies(i, k, m, d) => k = "wire" /\ m = n /\ d = c
    BY <1>10, <1>11, <2>1, OnlyThere
  <2>3. \A m \in Nodes : ~Got(got[m], i) /\ i \notin stray[m]
    BY <1>11, <2>2 DEF Lies
  <2>4. \A m \in Nodes : GotOnce(got'[m], i)
    BY <1>6, <1>9, <1>12, <2>3
  <2>5. OneCopy(i)'
    BY <1>1, <1>10, <1>13, <2>4 DEF Unique, OneCopy
  <2>6. PICK l \in Kinds : l = IF anon THEN "stray" ELSE "got"
    BY <1>11
  <2>7. \A k \in Kinds, m \in Nodes, d \in Ends :
          Lies(i, k, m, d)' => k = l /\ m = n /\ d = NoConn
    <3> SUFFICES ASSUME NEW k \in Kinds, NEW m \in Nodes, NEW d \in Ends, Lies(i, k, m, d)'
                 PROVE  k = l /\ m = n /\ d = NoConn
      OBVIOUS
    <3>1. CASE k = "wire"
      <4>1. d \in Conns /\ Carries(wire'[d][m], i)
        BY <3>1 DEF Lies
      <4>2. Carries(wire[d][m], i) /\ ~(d = c /\ m = n)
        BY <1>3, <1>4, <1>8, <1>12, <1>13, <1>14, <4>1
      <4>3. Lies(i, "wire", m, d)
        BY <4>1, <4>2 DEF Lies
      <4>. QED BY <1>11, <2>2, <4>2, <4>3
    <3>2. CASE k = "got"
      <4>1. d = NoConn /\ Got(got'[m], i)
        BY <3>2 DEF Lies
      <4>. QED BY <1>6, <1>9, <2>3, <2>6, <3>2, <4>1
    <3>3. CASE k = "stray"
      <4>1. d = NoConn /\ i \in stray'[m]
        BY <3>3 DEF Lies
      <4>. QED BY <1>7, <1>9, <2>3, <2>6, <3>3, <4>1
    <3>4. CASE k \notin {"wire", "got", "stray"}
      <4>1. Lies(i, k, m, d)
        BY <1>1, <3>4 DEF Lies
      <4>. QED BY <2>2, <3>4, <4>1
    <3>. QED BY <3>1, <3>2, <3>3, <3>4
  <2>8. ~(i > sent)'
    BY <1>1, <2>2
  <2>9. OnePlace(i)'
    BY <2>7 DEF OnePlace
  <2>. QED BY <2>5, <2>8, <2>9 DEF Unique, NotYet
<1>15. CASE i # j
  <2>1. \A m \in Nodes : /\ GotOnce(got'[m], i)
                         /\ Got(got'[m], i) => Got(got[m], i)
                         /\ i \in stray'[m] => i \in stray[m]
    BY <1>6, <1>7, <1>9, <1>12, <1>15
  <2>2. OneCopy(i)'
    BY <1>1, <1>10, <1>13, <2>1 DEF Unique, OneCopy
  <2>3. \A k \in Kinds, m \in Nodes, d \in Ends : Lies(i, k, m, d)' => Lies(i, k, m, d)
    BY <1>1, <1>13, <2>1 DEF Lies
  <2>. QED BY <1>1, <1>10, <2>2, <2>3, UniqueKept
<1>. QED BY <1>14, <1>15

\* No step puts a frame in two places.
LEMMA CopyStep ==
    ASSUME LinkType, WireType, MessageType, CopyInv, [Next]_vars
    PROVE  CopyInv'
<1> USE BoundsAssumption
<1> DEFINE Kept == WiresFade(wire, wire') /\ BoxesFade /\ UNCHANGED <<got, stray, sent>>
<1>1. Kept => CopyInv'
  BY UniqueFades
<1>2. ASSUME NEW n \in Nodes, RunSendFrame(n) PROVE CopyInv'
  <2>1. /\ outbox[n] # <<>> /\ outbox' = [outbox EXCEPT ![n] = Tail(@)]
        /\ UNCHANGED <<got, stray, sent>>
    BY <1>2 DEF RunSendFrame, countVars
  <2>2. CASE Enqueue(n, Head(outbox[n])) /\ UNCHANGED wire
    BY <2>1, <2>2, QueuedUnique
  <2>3. CASE /\ HasSocket(n) /\ wire' = Written(wire, entry[n], n, Head(outbox[n]))
             /\ UNCHANGED queue
    BY <2>1, <2>3, PutOnWireUnique
  <2>. QED BY <1>2, <2>2, <2>3 DEF RunSendFrame
<1>3. ASSUME NEW n \in Nodes, SendFrame(n) PROVE CopyInv'
  BY <1>3, SendUnique
<1>4. ASSUME NEW c \in Conns, NEW n \in Nodes, OnMessage(c, n) PROVE CopyInv'
  BY <1>4, ReadUnique
<1>5. CASE \A n \in Nodes : ~RunSendFrame(n)
  <2>1. WiresFade(wire, wire')
    BY <1>5, WiresFadeStep
  <2>2. ASSUME UNCHANGED <<outbox, queue, got, stray, sent>> PROVE CopyInv'
    BY <1>1, <2>1, <2>2, KeepBoxes
  <2>3. ASSUME NEW n \in Nodes, AcceptIncoming(n) PROVE CopyInv'
    <3>1. DrainQueue(n) /\ UNCHANGED <<got, stray, sent>>
      BY <2>3 DEF AcceptIncoming, countVars
    <3>. QED BY <2>1, <3>1, DrainUnique
  <2>4. ASSUME NEW c \in Conns, NEW n \in Nodes, OnAckYes(c, n) PROVE CopyInv'
    <3>1. DrainQueue(n) /\ UNCHANGED <<got, stray, sent>>
      BY <2>4 DEF OnAckYes, countVars
    <3>. QED BY <2>1, <3>1, DrainUnique
  <2>5. ASSUME NEW n \in Nodes,
               ConnectToPeer(n) \/ StartDial(n) \/ TimerFires(n) \/ CancelledTimerRuns(n)
                 \/ FirstPing(n) \/ PingTick(n) \/ PongTimeout(n)
                 \/ AcceptDuplicate(n) \/ RejectIncoming(n) \/ AnswerTooLate(n)
        PROVE  CopyInv'
    <3>1. UNCHANGED <<outbox, queue, got, stray, sent>>
      BY <2>5 DEF ConnectToPeer, StartDial, TimerFires, CancelledTimerRuns, FirstPing, PingTick,
         PongTimeout, AcceptDuplicate, RejectIncoming, AnswerTooLate, msgVars, countVars
    <3>. QED BY <2>2, <3>1
  <2>6. ASSUME NEW c \in Conns, NEW n \in Nodes,
               DialDuplicate(c, n) \/ DialSucceeds(c, n) \/ LateDialTimeout(c, n)
                 \/ Accept(c, n) \/ BufferOverflow(c, n) \/ PendingReadFails(c, n)
                 \/ RunClose(c, n)
        PROVE  CopyInv'
    <3>1. UNCHANGED <<outbox, queue, got, stray, sent>>
      BY <2>6 DEF DialDuplicate, DialSucceeds, LateDialTimeout, Accept, BufferOverflow,
         PendingReadFails, RunClose, msgVars, countVars
    <3>. QED BY <2>2, <3>1
  <2>7. ASSUME NEW c \in Conns, NEW n \in Nodes,
               Answer(c, n) \/ OnHandshake(c, n) \/ OnAckNo(c, n) \/ OnPong(c, n)
                 \/ StaleRead(c, n)
        PROVE  CopyInv'
    <3>1. UNCHANGED <<outbox, queue, got, stray, sent>>
      BY <2>7 DEF Answer, OnHandshake, OnAckNo, OnPong, StaleRead, msgVars, countVars
    <3>. QED BY <2>2, <3>1
  <2>8. ASSUME NEW n \in Nodes, UNCHANGED <<outbox, got, stray, sent>>,
               UNCHANGED queue \/ queue' = [queue EXCEPT ![n] = <<>>]
        PROVE  CopyInv'
    <3>1. \A m \in Nodes : queue'[m] = queue[m] \/ queue'[m] = <<>>
      BY <2>8 DEF MessageType
    <3>2. BoxesFade
      BY <2>8, <3>1, FadesToNothing DEF BoxesFade
    <3>. QED BY <1>1, <2>1, <2>8, <3>2
  <2>9. ASSUME NEW c \in Conns, NEW n \in Nodes, DialFails(c, n) \/ PeerReadFails(c, n)
        PROVE  CopyInv'
    <3>1. ScheduleReconnect(n) /\ UNCHANGED <<outbox, got, stray, sent>>
      BY <2>9 DEF DialFails, PeerReadFails, HandleDisconnect, countVars
    <3>. QED BY <2>8, <3>1 DEF ScheduleReconnect
  <2>10. ASSUME NEW n \in Nodes, Restart(n) PROVE CopyInv'
    <3>1. /\ \A m \in Nodes : /\ queue'[m] = queue[m] \/ queue'[m] = <<>>
                              /\ outbox'[m] = outbox[m] \/ outbox'[m] = <<>>
          /\ UNCHANGED <<got, stray, sent>>
      BY <2>10 DEF Restart, MessageType
    <3>2. BoxesFade
      BY <3>1, FadesToNothing DEF BoxesFade
    <3>. QED BY <1>1, <2>1, <3>1, <3>2
  <2>11. ASSUME NEW c \in Conns, Break(c) \/ Recycle(c) PROVE CopyInv'
    <3>1. UNCHANGED <<outbox, queue, got, stray, sent>>
      BY <2>11 DEF Break, Recycle, msgVars, countVars
    <3>. QED BY <2>2, <3>1
  <2>12. CASE UNCHANGED vars
    BY <2>2, <2>12 DEF vars, msgVars, countVars
  <2>. QED BY <1>3, <1>4, <1>5, <2>3, <2>4, <2>5, <2>6, <2>7, <2>9, <2>10, <2>11, <2>12
           DEF Next, UserActs, UserAnswers, Receive
<1>. QED BY <1>2, <1>5

LEMMA CopyInit == Init => CopyInv
<1> SUFFICES ASSUME Init PROVE CopyInv
  OBVIOUS
<1>1. \A n \in Nodes : /\ outbox[n] = <<>> /\ queue[n] = <<>> /\ got[n] = <<>> /\ stray[n] = {}
                       /\ \A c \in Conns : wire[c][n] = <<>>
  BY DEF Init, PerEnd
<1>2. \A i : ~Got(<<>>, i) /\ GotOnce(<<>>, i)
  BY DEF Got, GotOnce
<1>3. \A i, k, n, c : n \in Nodes => ~Lies(i, k, n, c)
  BY <1>1, <1>2, CarriesEmpty DEF Lies
<1>4. \A i : OneCopy(i)
  BY <1>1, <1>2, CarriesEmpty DEF OneCopy
<1>. QED BY <1>3, <1>4 DEF CopyInv, Unique, OnePlace, NotYet

\* Counting the copies of a frame in a sequence that holds at most one.
LEMMA CountSingle ==
    ASSUME NEW s, NEW i, Single(s, i)
    PROVE  Cardinality({k \in DOMAIN s : s[k].type = "MSG" /\ s[k].id = i})
              = IF Carries(s, i) THEN 1 ELSE 0
<1> DEFINE S == {k \in DOMAIN s : s[k].type = "MSG" /\ s[k].id = i}
<1>1. CASE Carries(s, i)
  <2>1. PICK k \in DOMAIN s : Is(s[k], i)
    BY <1>1 DEF Carries
  <2>2. S = {k}
    BY <2>1 DEF Single, Is
  <2>. QED BY <1>1, <2>2, FS_Singleton
<1>2. CASE ~Carries(s, i)
  <2>1. S = {}
    BY <1>2 DEF Carries, Is
  <2>. QED BY <1>2, <2>1, FS_EmptySet
<1>. QED BY <1>1, <1>2

LEMMA CountGot ==
    ASSUME NEW s, NEW i, GotOnce(s, i)
    PROVE  Cardinality({k \in DOMAIN s : s[k] = i}) = IF Got(s, i) THEN 1 ELSE 0
<1> DEFINE S == {k \in DOMAIN s : s[k] = i}
<1>1. CASE Got(s, i)
  <2>1. PICK k \in DOMAIN s : s[k] = i
    BY <1>1 DEF Got
  <2>2. S = {k}
    BY <2>1 DEF GotOnce
  <2>. QED BY <1>1, <2>2, FS_Singleton
<1>2. CASE ~Got(s, i)
  <2>1. S = {}
    BY <1>2 DEF Got
  <2>. QED BY <1>2, <2>1, FS_EmptySet
<1>. QED BY <1>1, <1>2

LEMMA CopiesAreFew == CopyInv => AtMostOnce
<1> SUFFICES ASSUME CopyInv, NEW i \in 1 .. MaxMsgs
             PROVE  /\ Copies(i)[1] <= 1
                    /\ \A c \in Conns : Copies(i)[1] + Copies(i)[2][c] <= 1
                    /\ \A c, d \in Conns : c # d => Copies(i)[2][c] + Copies(i)[2][d] <= 1
  BY DEF AtMostOnce
<1>1. OneCopy(i) /\ OnePlace(i)
  BY DEF CopyInv, Unique
<1> DEFINE ob(n) == IF Carries(outbox[n], i) THEN 1 ELSE 0
           qu(n) == IF Carries(queue[n], i) THEN 1 ELSE 0
           go(n) == IF Got(got[n], i) THEN 1 ELSE 0
           st(n) == IF i \in stray[n] THEN 1 ELSE 0
           wi(c, n) == IF Carries(wire[c][n], i) THEN 1 ELSE 0
           at(n) == ob(n) + qu(n) + go(n) + st(n)
           wires == [c \in Conns |-> wi(c, 1) + wi(c, 2)]
<1>2. Copies(i) = <<at(1) + at(2), wires>>
  <2>1. \A n \in Nodes :
          /\ Cardinality({k \in DOMAIN outbox[n] :
                              outbox[n][k].type = "MSG" /\ outbox[n][k].id = i}) = ob(n)
          /\ Cardinality({k \in DOMAIN queue[n] :
                              queue[n][k].type = "MSG" /\ queue[n][k].id = i}) = qu(n)
          /\ Cardinality({k \in DOMAIN got[n] : got[n][k] = i}) = go(n)
    BY <1>1, CountSingle, CountGot DEF OneCopy
  <2>2. \A c \in Conns, n \in Nodes :
          Cardinality({k \in DOMAIN wire[c][n] :
                         wire[c][n][k].type = "MSG" /\ wire[c][n][k].id = i}) = wi(c, n)
    BY <1>1, CountSingle DEF OneCopy
  <2> HIDE DEF ob, qu, go, wi
  <2>. QED BY <2>1, <2>2 DEF Copies, Nodes
<1>3. Copies(i)[1] = at(1) + at(2) /\ \A c \in Conns : Copies(i)[2][c] = wi(c, 1) + wi(c, 2)
  BY <1>2
<1>4. /\ \A n \in Nodes : /\ Lies(i, "outbox", n, NoConn) <=> Carries(outbox[n], i)
                          /\ Lies(i, "queue", n, NoConn) <=> Carries(queue[n], i)
                          /\ Lies(i, "got", n, NoConn) <=> Got(got[n], i)
                          /\ Lies(i, "stray", n, NoConn) <=> i \in stray[n]
      /\ \A c \in Conns, n \in Nodes : Lies(i, "wire", n, c) <=> Carries(wire[c][n], i)
  BY DEF Lies
<1>5. Kinds = {"outbox", "queue", "got", "stray", "wire"} /\ NoConn \in Ends /\ Conns \subseteq Ends
      /\ NoConn \notin Conns /\ 1 \in Nodes /\ 2 \in Nodes /\ Nodes = {1, 2}
  BY BoundsAssumption DEF Kinds, Ends, Nodes
<1>6. CASE \A k \in Kinds, n \in Nodes, c \in Ends : ~Lies(i, k, n, c)
  <2>1. \A n \in Nodes : ob(n) = 0 /\ qu(n) = 0 /\ go(n) = 0 /\ st(n) = 0
    BY <1>4, <1>5, <1>6
  <2>2. \A c \in Conns, n \in Nodes : wi(c, n) = 0
    BY <1>4, <1>5, <1>6
  <2> HIDE DEF ob, qu, go, st, wi
  <2>3. at(1) + at(2) = 0 /\ \A c \in Conns : wi(c, 1) + wi(c, 2) = 0
    BY <1>5, <2>1, <2>2
  <2> HIDE DEF at
  <2>. QED BY <1>3, <2>3
<1>7. ASSUME NEW k \in Kinds, NEW n \in Nodes, NEW c \in Ends, Lies(i, k, n, c)
      PROVE  /\ at(1) + at(2) = IF k = "wire" THEN 0 ELSE 1
             /\ \A d \in Conns : wi(d, 1) + wi(d, 2) = IF k = "wire" /\ d = c THEN 1 ELSE 0
  <2>1. \A l \in Kinds, m \in Nodes, d \in Ends : Lies(i, l, m, d) <=> l = k /\ m = n /\ d = c
    BY <1>1, <1>7 DEF OnePlace
  <2>2. k # "wire" <=> c = NoConn
    BY <1>5, <1>7 DEF Lies
  <2>3. \A m \in Nodes : /\ ob(m) = IF k = "outbox" /\ m = n THEN 1 ELSE 0
                         /\ qu(m) = IF k = "queue" /\ m = n THEN 1 ELSE 0
                         /\ go(m) = IF k = "got" /\ m = n THEN 1 ELSE 0
                         /\ st(m) = IF k = "stray" /\ m = n THEN 1 ELSE 0
    BY <1>4, <1>5, <2>1, <2>2
  <2>4. \A d \in Conns, m \in Nodes :
          wi(d, m) = IF k = "wire" /\ m = n /\ d = c THEN 1 ELSE 0
    BY <1>4, <1>5, <2>1
  <2> HIDE DEF ob, qu, go, st, wi
  <2>5. at(1) + at(2) = IF k = "wire" THEN 0 ELSE 1
    BY <1>5, <2>3
  <2>6. \A d \in Conns : wi(d, 1) + wi(d, 2) = IF k = "wire" /\ d = c THEN 1 ELSE 0
    BY <1>5, <2>4
  <2>. QED BY <2>5, <2>6
<1> HIDE DEF at, wi
<1>8. CASE \E k \in Kinds, n \in Nodes, c \in Ends : Lies(i, k, n, c)
  <2>1. PICK k \in Kinds, n \in Nodes, c \in Ends : Lies(i, k, n, c)
    BY <1>8
  <2>2. /\ at(1) + at(2) = IF k = "wire" THEN 0 ELSE 1
        /\ \A d \in Conns : wi(d, 1) + wi(d, 2) = IF k = "wire" /\ d = c THEN 1 ELSE 0
    BY <1>7, <2>1
  <2>. QED BY <1>3, <2>2
<1>. QED BY <1>6, <1>8

\* A frame handed to sendFrame is never in two places, whatever is queued, drained
\* again, written, lost with its connection or read under a temporary id: onMessage
\* is given no frame twice.
THEOREM NeverTwice == Spec => []AtMostOnce
<1>1. Init => LinkType /\ WireType /\ FlagType /\ RetryType /\ MessageType /\ CopyInv
  BY LinkTypeInit, RestTypeInit, CopyInit
<1>2. LinkType /\ WireType /\ FlagType /\ RetryType /\ MessageType /\ CopyInv /\ [Next]_vars
        => (LinkType /\ WireType /\ FlagType /\ RetryType /\ MessageType /\ CopyInv)'
  BY LinkTypeStep, WireTypeStep, FlagTypeStep, RetryTypeStep, MessageTypeStep, CopyStep
<1>3. CopyInv => AtMostOnce
  BY CopiesAreFew
<1>. QED BY <1>1, <1>2, <1>3, PTL DEF Spec
=============================================================================
