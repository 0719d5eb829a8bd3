------------------------------ MODULE PeerLink ------------------------------
(***************************************************************************)
(* The direct TCP link of NetworkManager (src/src/net/network.cpp) between *)
(* two nodes: dialling, the hello / challenge / handshake exchange, the    *)
(* user's accept or reject, the tie-break of mutual dials, disconnection,  *)
(* the reconnect timers, the keepalive and the offline message queue.      *)
(*                                                                         *)
(* Each node runs its handlers one at a time on its io_context thread, so  *)
(* a handler is one action.  TCP is a slot of Conns with a frame sequence  *)
(* per direction.  Node 2 has the greater UUID.  The address a node stores *)
(* for the other is right and both versions are compatible; refusals for  *)
(* other reasons than these are left out.                                  *)
(***************************************************************************)
EXTENDS Naturals, Sequences, FiniteSets

CONSTANTS
    Conns,                 \* TCP connection slots, reused once both ends are gone
    NoConn,                \* no connection
    MaxReconnectAttempts,  \* kMaxReconnectAttempts
    MaxQueueSize,          \* kMaxQueueSize
    MaxDials,              \* bound: calls of connectToPeer by the user
    MaxBreaks,             \* bound: silent losses of a path
    MaxRestarts,           \* bound: process restarts
    MaxMsgs,               \* bound: application frames handed to sendFrame
    MaxOrphans,            \* bound: reconnect timers tracked outside the map
    MaxAsks,               \* bound: incoming requests the UI has not answered
    Active,                \* bound: the nodes whose user dials and sends
    LateTimers,            \* the timers that may run out just before they are cancelled
    Oversize               \* may a peer overflow the read buffer?

ASSUME BoundsAssumption ==
    /\ NoConn \notin Conns
    /\ {MaxReconnectAttempts, MaxQueueSize, MaxDials, MaxBreaks, MaxRestarts,
        MaxMsgs, MaxOrphans, MaxAsks} \subseteq Nat
    /\ Active \subseteq {1, 2}
    /\ LateTimers \subseteq {"dial", "reconnect"}
    /\ Oversize \in BOOLEAN

Nodes == {1, 2}
Other(n) == 3 - n

Control == {"CLIENT_HELLO", "SERVER_HELLO", "UUID_CHALLENGE", "UUID_RESPONSE",
            "HANDSHAKE", "ACK_YES", "ACK_NO", "PING", "PONG"}

Frame == [type : Control, id : {0}] \cup [type : {"MSG"}, id : 1 .. MaxMsgs]
Ctl(t) == [type |-> t, id |-> 0]
AckYesAlways(accepted) == Ctl("ACK_YES")
AckFrame(accepted) == Ctl(IF accepted THEN "ACK_YES" ELSE "ACK_NO")
Msg(i) == [type |-> "MSG", id |-> i]

VARIABLES
    \* TCP and the sockets
    dialer,    \* [Conns -> node that dialled the slot, 0 if it is free]
    sock,      \* [Conns -> [Nodes -> state of that end]]
    wire,      \* [Conns -> [Nodes -> frames on their way to that end]]
    broken,    \* [Conns -> has the path gone silent?]
    closing,   \* [Conns -> [Nodes -> a posted or delayed close() of this end]]
    late,      \* [Conns -> expired dial timer whose handler has not run: "off", "queued", "aborted"]
    \* the maps of NetworkManager and the reads in progress
    pending,   \* [Nodes -> [Conns -> m_pending: "none", "anon", "known" (after HANDSHAKE)]]
    entry,     \* [Nodes -> the socket of m_peers[peer], NoConn if there is no entry]
    up,        \* [Nodes -> was onPeerConnected fired for the entry?]
    pendRead,  \* [Conns -> [Nodes -> async read started by startAsyncRead(tempId, true)]]
    peerRead,  \* [Conns -> [Nodes -> async read started by startAsyncRead(uuid, false)]]
    \* what the handlers have posted, and the UI's unanswered requests
    dialReq,   \* [Nodes -> a connectToPeer lambda is posted]
    asks,      \* [Nodes -> onIncomingRequest calls the UI has not answered]
    rejectReq, \* [Nodes -> a rejectIncoming lambda is posted]
    pingReq,   \* [Nodes -> a sendPing lambda is posted]
    \* reconnection
    rinfo,     \* [Nodes -> is there an m_reconnectInfo record?]
    attempts,  \* [Nodes -> m_reconnectAttempts]
    timer,     \* [Nodes -> is there a live timer in m_reconnectTimers?]
    orphan,    \* [Nodes -> live reconnect timers that are not in the map]
    cancelled, \* [Nodes -> is the handler of a cancelled timer still to run?]
    \* keepalive: "idle", "awaiting" a PONG, "expired" (the timeout closed the socket)
    ping,      \* [Nodes -> keepalive state of the entry]
    \* messages
    outbox,    \* [Nodes -> frames in posted sendFrame lambdas]
    queue,     \* [Nodes -> m_messageQueues[peer]]
    got,       \* [Nodes -> frames given to onMessage under the peer's UUID]
    stray,     \* [Nodes -> frames given to onMessage under a temporary id]
    \* counters behind the bounds
    dials, breaks, restarts, sent

tcpVars   == <<dialer, sock, wire, broken, closing, late>>
mapVars   == <<pending, entry, up, pendRead, peerRead>>
postVars  == <<dialReq, asks, rejectReq, pingReq>>
retryVars == <<rinfo, attempts, timer, orphan, cancelled>>
msgVars   == <<outbox, queue, got, stray>>
countVars == <<dials, breaks, restarts, sent>>
vars == <<tcpVars, mapVars, postVars, retryVars, ping, msgVars, countVars>>

PerEnd(v) == [c \in Conns |-> [n \in Nodes |-> v]]

Init ==
    /\ dialer = [c \in Conns |-> 0]
    /\ sock = PerEnd("none")
    /\ wire = PerEnd(<<>>)
    /\ broken = [c \in Conns |-> FALSE]
    /\ closing = PerEnd(FALSE)
    /\ late = [c \in Conns |-> "off"]
    /\ pending = [n \in Nodes |-> [c \in Conns |-> "none"]]
    /\ entry = [n \in Nodes |-> NoConn]
    /\ up = [n \in Nodes |-> FALSE]
    /\ pendRead = PerEnd(FALSE)
    /\ peerRead = PerEnd(FALSE)
    /\ dialReq = [n \in Nodes |-> FALSE]
    /\ asks = [n \in Nodes |-> 0]
    /\ rejectReq = [n \in Nodes |-> FALSE]
    /\ pingReq = [n \in Nodes |-> FALSE]
    /\ rinfo = [n \in Nodes |-> FALSE]
    /\ attempts = [n \in Nodes |-> 0]
    /\ timer = [n \in Nodes |-> FALSE]
    /\ orphan = [n \in Nodes |-> 0]
    /\ cancelled = [n \in Nodes |-> FALSE]
    /\ ping = [n \in Nodes |-> "idle"]
    /\ outbox = [n \in Nodes |-> <<>>]
    /\ queue = [n \in Nodes |-> <<>>]
    /\ got = [n \in Nodes |-> <<>>]
    /\ stray = [n \in Nodes |-> {}]
    /\ dials = 0 /\ breaks = 0 /\ restarts = 0 /\ sent = 0

-----------------------------------------------------------------------------
(* TCP. *)

Open(c, n) == sock[c][n] = "open"

\* The far end can still be written to: the kernel takes the bytes whether or
\* not the application has accepted the connection yet.
Reaches(c, n) == sock[c][Other(n)] \in {"backlog", "open"} /\ ~broken[c]

\* The duplicate test.  On the direct path an entry exists from the moment the
\* TCP connection does and its state is Connected.
ConnectedOnceUp(n) == up[n]
AlreadyConnected(n) == entry[n] # NoConn

\* The peer has an entry and its socket is open.
HasSocket(n) == entry[n] # NoConn /\ Open(entry[n], n)

\* The wires w after node n has written frame f to its end of c (writeFrame
\* ignores errors: a write to a dead connection vanishes).
Written(w, c, n, f) ==
    IF Open(c, n) /\ Reaches(c, n)
    THEN [w EXCEPT ![c][Other(n)] = Append(@, f)]
    ELSE w

\* Node n closes its end; what was on its way to it is lost.
Close(c, n) ==
    /\ sock' = [sock EXCEPT ![c][n] = "closed"]
    /\ wire' = [wire EXCEPT ![c][n] = <<>>]

\* A close of n's end that is posted or waits for a timer, which holds the socket.
NeverClose(c, n) == UNCHANGED closing
CloseLater(c, n) == closing' = [closing EXCEPT ![c][n] = Open(c, n) \/ @]

\* LateDialTimeout has cancelled the operations of n's socket.
Aborted(c, n) == dialer[c] = n /\ late[c] = "aborted"

\* A read of n on c is bound to complete with an error: its own end was closed,
\* its operations were cancelled, or it has come to the end of the stream.
MustFail(c, n) ==
    \/ sock[c][n] = "closed"
    \/ Aborted(c, n)
    \/ sock[c][Other(n)] = "closed" /\ wire[c][n] = <<>> /\ ~broken[c]

\* It may: a reset overtakes the data, or TCP gives the silent path up.
MayFail(c, n) == MustFail(c, n) \/ sock[c][Other(n)] = "closed" \/ broken[c]

-----------------------------------------------------------------------------
(* Reconnection. *)

\* scheduleReconnect.  Giving up forgets the peer and the queue but not the timers.
ScheduleReconnect(n) ==
    \/ /\ ~rinfo[n]
       /\ UNCHANGED <<retryVars, queue>>
    \/ /\ rinfo[n] /\ attempts[n] >= MaxReconnectAttempts
       /\ rinfo' = [rinfo EXCEPT ![n] = FALSE]
       /\ attempts' = [attempts EXCEPT ![n] = 0]
       /\ queue' = [queue EXCEPT ![n] = <<>>]
       /\ UNCHANGED <<timer, orphan, cancelled>>
    \/ /\ rinfo[n] /\ attempts[n] < MaxReconnectAttempts
       /\ timer' = [timer EXCEPT ![n] = TRUE]
       /\ cancelled' = [cancelled EXCEPT ![n] = @ \/ timer[n]]
       /\ UNCHANGED <<rinfo, attempts, orphan, queue>>

\* resetReconnectState: the attempt counter and the timer in the map.
ResetReconnectState(n) ==
    /\ attempts' = [attempts EXCEPT ![n] = 0]
    /\ timer' = [timer EXCEPT ![n] = FALSE]
    /\ cancelled' = [cancelled EXCEPT ![n] = @ \/ timer[n]]
    /\ UNCHANGED orphan

\* m_reconnectTimers.erase(uuid) in a timer's handler takes out whatever timer
\* is in the map: one that was put there since loses its owner.
EraseKillsTimer(n, k) ==
    /\ timer' = [timer EXCEPT ![n] = FALSE]
    /\ orphan' = [orphan EXCEPT ![n] = k]
LoseOwner(n, k) ==
    /\ timer' = [timer EXCEPT ![n] = FALSE]
    /\ orphan' = [orphan EXCEPT ![n] =
                     IF timer[n] /\ k < MaxOrphans THEN k + 1 ELSE k]

\* attemptReconnect: counts the attempt and posts connectToPeer.
AttemptReconnect(n) ==
    /\ attempts' = [attempts EXCEPT ![n] = IF rinfo[n] THEN @ + 1 ELSE @]
    /\ dialReq' = [dialReq EXCEPT ![n] = rinfo[n]]

\* A reconnect timer runs out.  Completions of cancelled timers are queued at
\* once and run long before the second a live one waits at least.
TimerFires(n) ==
    /\ ~cancelled[n] /\ ~dialReq[n]
    /\ \/ timer[n] /\ timer' = [timer EXCEPT ![n] = FALSE] /\ UNCHANGED orphan
       \/ orphan[n] > 0 /\ LoseOwner(n, orphan[n] - 1)
    /\ AttemptReconnect(n)
    /\ UNCHANGED <<tcpVars, mapVars, asks, rejectReq, pingReq, rinfo, cancelled,
                   ping, msgVars, countVars>>

\* The handler of a cancelled timer: the erase, and the attempt all the same if
\* the timer had run out before it was cancelled.
CancelledTimerRuns(n) ==
    /\ cancelled[n]
    /\ cancelled' = [cancelled EXCEPT ![n] = FALSE]
    /\ LoseOwner(n, orphan[n])
    /\ \/ UNCHANGED <<attempts, dialReq>>
       \/ "reconnect" \in LateTimers /\ ~dialReq[n] /\ AttemptReconnect(n)
    /\ UNCHANGED <<tcpVars, mapVars, asks, rejectReq, pingReq, rinfo, ping, msgVars,
                   countVars>>

-----------------------------------------------------------------------------
(* Dialling. *)

\* The user asks for a connection: connectToPeer posts its lambda.
ConnectToPeer(n) ==
    /\ n \in Active /\ dials < MaxDials /\ ~dialReq[n]
    /\ dials' = dials + 1
    /\ dialReq' = [dialReq EXCEPT ![n] = TRUE]
    /\ UNCHANGED <<tcpVars, mapVars, asks, rejectReq, pingReq, retryVars, ping,
                   msgVars, breaks, restarts, sent>>

Free(c) == dialer[c] = 0

\* The posted lambda: nothing if there is an entry (it is Connected), else
\* remember the address and start an asynchronous connect.
StartDial(n) ==
    /\ dialReq[n]
    /\ dialReq' = [dialReq EXCEPT ![n] = FALSE]
    /\ \/ /\ AlreadyConnected(n)
          /\ UNCHANGED <<tcpVars, rinfo>>
       \/ /\ ~AlreadyConnected(n)
          /\ \E c \in Conns :
                /\ Free(c)
                /\ dialer' = [dialer EXCEPT ![c] = n]
                /\ sock' = [sock EXCEPT ![c][n] = "dialing"]
          /\ rinfo' = [rinfo EXCEPT ![n] = TRUE]
          /\ UNCHANGED <<wire, broken, closing, late>>
    /\ UNCHANGED <<mapVars, asks, rejectReq, pingReq, attempts, timer, orphan,
                   cancelled, ping, msgVars, countVars>>

\* The connect fails: refused, unreachable, or cancelled by its 10 s timer.
DialFails(c, n) ==
    /\ sock[c][n] = "dialing"
    /\ sock' = [sock EXCEPT ![c][n] = "closed"]
    /\ ScheduleReconnect(n)
    /\ UNCHANGED <<dialer, wire, broken, closing, late, mapVars, postVars, ping,
                   outbox, got, stray, countVars>>

\* The connect succeeds while an entry exists: a duplicate, closed at once.  The
\* far end's kernel has a connection to accept all the same.
DialDuplicate(c, n) ==
    /\ sock[c][n] = "dialing"
    /\ AlreadyConnected(n)
    /\ sock' = [sock EXCEPT ![c] = [m \in Nodes |->
                   IF m = n THEN "closed" ELSE "backlog"]]
    /\ UNCHANGED <<dialer, wire, broken, closing, late, mapVars, postVars,
                   retryVars, ping, msgVars, countVars>>

\* The connect succeeds: the entry is Connected from here on, before any frame.
\* Cancelling the dial timer comes too late if it has just expired.
DialSucceeds(c, n) ==
    /\ sock[c][n] = "dialing"
    /\ ~AlreadyConnected(n)
    /\ sock' = [sock EXCEPT ![c] = [m \in Nodes |->
                   IF m = n THEN "open" ELSE "backlog"]]
    /\ wire' = [wire EXCEPT ![c][Other(n)] = <<Ctl("CLIENT_HELLO")>>]
    /\ \E q \in {"off"} \cup (IF "dial" \in LateTimers THEN {"queued"} ELSE {}) :
          late' = [late EXCEPT ![c] = q]
    /\ entry' = [entry EXCEPT ![n] = c]
    /\ up' = [up EXCEPT ![n] = FALSE]
    /\ ResetReconnectState(n)
    /\ pingReq' = [pingReq EXCEPT ![n] = TRUE]
    /\ peerRead' = [peerRead EXCEPT ![c][n] = TRUE]
    /\ UNCHANGED <<dialer, broken, closing, pending, pendRead, dialReq, asks,
                   rejectReq, rinfo, ping, msgVars, countVars>>

\* The handler of the expired dial timer cancels the operations of the socket:
\* the connect is over, the read is not.
LateDialTimeout(c, n) ==
    /\ dialer[c] = n /\ late[c] = "queued"
    /\ late' = [late EXCEPT ![c] = IF peerRead[c][n] THEN "aborted" ELSE "off"]
    /\ UNCHANGED <<dialer, sock, wire, broken, closing, mapVars, postVars,
                   retryVars, ping, msgVars, countVars>>

\* The acceptor takes a connection from the backlog under a temporary id.
Accept(c, n) ==
    /\ sock[c][n] = "backlog"
    /\ sock' = [sock EXCEPT ![c][n] = "open"]
    /\ pending' = [pending EXCEPT ![n][c] = "anon"]
    /\ pendRead' = [pendRead EXCEPT ![c][n] = TRUE]
    /\ UNCHANGED <<dialer, wire, broken, closing, late, entry, up, peerRead,
                   postVars, retryVars, ping, msgVars, countVars>>

-----------------------------------------------------------------------------
(* Reading.  A read serves the connection of m_pending it was started for, or *)
(* whatever connection m_peers holds for the peer when it completes.          *)

CanRead(c, n) ==
    /\ Open(c, n) /\ ~broken[c] /\ ~Aborted(c, n)
    /\ wire[c][n] # <<>>
    /\ \/ pendRead[c][n] /\ pending[n][c] # "none"
       \/ ~pendRead[c][n] /\ peerRead[c][n] /\ entry[n] # NoConn

Arrives(c, n, t) == CanRead(c, n) /\ Head(wire[c][n]).type = t

Rest(c, n) == [wire EXCEPT ![c][n] = Tail(@)]

\* The PeerConnection handed to handleFrame, by its socket.
Served(c, n) == IF pendRead[c][n] THEN c ELSE entry[n]

\* startAsyncRead after the frame: on the socket of the connection served.
ReadOnce(c, n) ==
    /\ peerRead' = IF pendRead[c][n] THEN peerRead ELSE [peerRead EXCEPT ![c][n] = FALSE]
    /\ UNCHANGED pendRead
ReadOn(c, n) ==
    /\ peerRead' = IF pendRead[c][n] THEN peerRead
                   ELSE [peerRead EXCEPT ![c][n] = FALSE, ![Served(c, n)][n] = TRUE]
    /\ UNCHANGED pendRead

\* The frames answered on the spot.  (expectedUuid is set on every dialled
\* connection, so SERVER_HELLO is answered by the challenge.)
AnswerTo == [t \in {"CLIENT_HELLO", "SERVER_HELLO", "UUID_CHALLENGE",
                    "UUID_RESPONSE", "PING"} |->
    CASE t = "CLIENT_HELLO"   -> "SERVER_HELLO"
      [] t = "SERVER_HELLO"   -> "UUID_CHALLENGE"
      [] t = "UUID_CHALLENGE" -> "UUID_RESPONSE"
      [] t = "UUID_RESPONSE"  -> "HANDSHAKE"
      [] t = "PING"           -> "PONG"]

Answer(c, n) ==
    /\ \E t \in DOMAIN AnswerTo :
          /\ Arrives(c, n, t)
          /\ wire' = Written(Rest(c, n), Served(c, n), n, Ctl(AnswerTo[t]))
    /\ ReadOn(c, n)
    /\ UNCHANGED <<dialer, sock, broken, closing, late, pending, entry, up,
                   postVars, retryVars, ping, msgVars, countVars>>

TieBreak(n) == rinfo[n] /\ n > Other(n)

\* HANDSHAKE: the connection gets its UUID.  If this node has dialled the peer
\* too, the one with the greater UUID closes the incoming connection; otherwise
\* the UI is asked.
OnHandshake(c, n) ==
    /\ Arrives(c, n, "HANDSHAKE")
    /\ wire' = Rest(c, n)
    /\ pending' = [pending EXCEPT ![n][c] = IF pendRead[c][n] THEN "known" ELSE @]
    /\ \/ /\ TieBreak(n)
          /\ CloseLater(Served(c, n), n)
          /\ UNCHANGED asks
       \/ /\ ~TieBreak(n)
          /\ asks' = [asks EXCEPT ![n] = IF @ < MaxAsks THEN @ + 1 ELSE @]
          /\ UNCHANGED closing
    /\ ReadOn(c, n)
    /\ UNCHANGED <<dialer, sock, broken, late, entry, up, dialReq, rejectReq,
                   pingReq, retryVars, ping, msgVars, countVars>>

\* drainMessageQueue posts the queued frames again, behind those already posted.
DrainACopy(n) == outbox' = [outbox EXCEPT ![n] = @ \o queue[n]] /\ UNCHANGED queue
DrainQueue(n) ==
    /\ outbox' = [outbox EXCEPT ![n] = @ \o queue[n]]
    /\ queue' = [queue EXCEPT ![n] = <<>>]

\* HANDSHAKE_ACK, accepted.
OnAckYes(c, n) ==
    /\ Arrives(c, n, "ACK_YES")
    /\ wire' = Rest(c, n)
    /\ up' = [up EXCEPT ![n] = TRUE]
    /\ DrainQueue(n)
    /\ ReadOn(c, n)
    /\ UNCHANGED <<dialer, sock, broken, closing, late, pending, entry, postVars,
                   retryVars, ping, got, stray, countVars>>

\* HANDSHAKE_ACK, rejected: the socket is closed; the read that follows fails.
OnAckNo(c, n) ==
    /\ Arrives(c, n, "ACK_NO")
    /\ Close(Served(c, n), n)
    /\ ReadOn(c, n)
    /\ UNCHANGED <<dialer, broken, closing, late, pending, entry, up, postVars,
                   retryVars, ping, msgVars, countVars>>

\* handlePong clears the flag of the connection served and cancels its timeout.
OnPong(c, n) ==
    /\ Arrives(c, n, "PONG")
    /\ wire' = Rest(c, n)
    /\ ping' = [ping EXCEPT ![n] = IF pendRead[c][n] THEN @ ELSE "idle"]
    /\ ReadOn(c, n)
    /\ UNCHANGED <<dialer, sock, broken, closing, late, pending, entry, up,
                   postVars, retryVars, msgVars, countVars>>

\* Any other frame goes to onMessage under the UUID of the connection, which is
\* the temporary id until HANDSHAKE has been handled.
OnMessage(c, n) ==
    /\ Arrives(c, n, "MSG")
    /\ wire' = Rest(c, n)
    /\ LET i == Head(wire[c][n]).id IN
       IF pendRead[c][n] /\ pending[n][c] = "anon"
       THEN stray' = [stray EXCEPT ![n] = @ \cup {i}] /\ UNCHANGED got
       ELSE got' = [got EXCEPT ![n] = Append(@, i)] /\ UNCHANGED stray
    /\ ReadOn(c, n)
    /\ UNCHANGED <<dialer, sock, broken, closing, late, pending, entry, up,
                   postVars, retryVars, ping, outbox, queue, countVars>>

\* The read a connection was accepted with is still the first in line on its
\* socket.  When it completes its m_pending record is gone: what it read, one
\* frame or more, is dropped and it is not renewed.
StaleRead(c, n) ==
    /\ Open(c, n) /\ ~broken[c] /\ wire[c][n] # <<>>
    /\ pendRead[c][n] /\ pending[n][c] = "none"
    /\ \E k \in 1 .. Len(wire[c][n]) :
          wire' = [wire EXCEPT ![c][n] = SubSeq(@, k + 1, Len(@))]
    /\ pendRead' = [pendRead EXCEPT ![c][n] = FALSE]
    /\ UNCHANGED <<dialer, sock, broken, closing, late, pending, entry, up,
                   peerRead, postVars, retryVars, ping, msgVars, countVars>>

\* More than kMaxBufferSize without a newline: the socket is closed and the
\* handler returns, without handleDisconnect and without another read.
BufferOverflow(c, n) ==
    /\ Oversize /\ CanRead(c, n)
    /\ Close(c, n)
    /\ pendRead' = [pendRead EXCEPT ![c][n] = FALSE]
    /\ peerRead' = [peerRead EXCEPT ![c][n] = pendRead[c][n] /\ @]
    /\ UNCHANGED <<dialer, broken, closing, late, pending, entry, up, postVars,
                   retryVars, ping, msgVars, countVars>>

\* A read of an incoming connection fails: its record goes, and the socket with it.
PendingReadFails(c, n) ==
    /\ pendRead[c][n] /\ MayFail(c, n)
    /\ pendRead' = [pendRead EXCEPT ![c][n] = FALSE]
    /\ pending' = [pending EXCEPT ![n][c] = "none"]
    /\ \/ pending[n][c] # "none" /\ Close(c, n)
       \/ pending[n][c] = "none" /\ UNCHANGED <<sock, wire>>
    /\ UNCHANGED <<dialer, broken, closing, late, entry, up, peerRead, postVars,
                   retryVars, ping, msgVars, countVars>>

\* handleDisconnect(uuid): whatever entry the peer has now is closed and erased.
HandleDisconnect(n) ==
    /\ ping' = [ping EXCEPT ![n] = "idle"]
    /\ Close(entry[n], n)
    /\ entry' = [entry EXCEPT ![n] = NoConn]
    /\ up' = [up EXCEPT ![n] = FALSE]
    /\ ScheduleReconnect(n)

\* The read of an established entry fails.
PeerReadFails(c, n) ==
    /\ peerRead[c][n] /\ ~pendRead[c][n] /\ MayFail(c, n)
    /\ entry[n] # NoConn
    /\ peerRead' = [peerRead EXCEPT ![c][n] = FALSE]
    /\ HandleDisconnect(n)
    /\ late' = [late EXCEPT ![c] = IF Aborted(c, n) THEN "off" ELSE @]
    /\ UNCHANGED <<dialer, broken, closing, pending, pendRead, postVars, outbox,
                   got, stray, countVars>>

\* The posted close of the tie-break, or the one 500 ms after a rejection.
RunClose(c, n) ==
    /\ closing[c][n]
    /\ closing' = [closing EXCEPT ![c][n] = FALSE]
    /\ Close(c, n)
    /\ UNCHANGED <<dialer, broken, late, mapVars, postVars, retryVars, ping,
                   msgVars, countVars>>

-----------------------------------------------------------------------------
(* The user's answer to an incoming request. *)

\* acceptIncoming finds no entry: an incoming connection with the peer's UUID,
\* any of them, becomes the entry.  The read it has in progress stays.
AcceptIncoming(n) ==
    /\ asks[n] > 0 /\ ~AlreadyConnected(n)
    /\ asks' = [asks EXCEPT ![n] = @ - 1]
    /\ \E c \in Conns :
          /\ pending[n][c] = "known"
          /\ pending' = [pending EXCEPT ![n][c] = "none"]
          /\ entry' = [entry EXCEPT ![n] = c]
          /\ up' = [up EXCEPT ![n] = TRUE]
          /\ wire' = Written(wire, c, n, AckFrame(TRUE))
          /\ peerRead' = [peerRead EXCEPT ![c][n] = TRUE]
    /\ rinfo' = [rinfo EXCEPT ![n] = TRUE]
    /\ pingReq' = [pingReq EXCEPT ![n] = TRUE]
    /\ DrainQueue(n)
    /\ UNCHANGED <<dialer, sock, broken, closing, late, pendRead, dialReq,
                   rejectReq, attempts, timer, orphan, cancelled, ping, got,
                   stray, countVars>>

\* It finds an entry: the incoming connection is a duplicate and rejectIncoming
\* is posted.
AcceptDuplicate(n) ==
    /\ asks[n] > 0 /\ AlreadyConnected(n) /\ ~rejectReq[n]
    /\ asks' = [asks EXCEPT ![n] = @ - 1]
    /\ rejectReq' = [rejectReq EXCEPT ![n] = TRUE]
    /\ UNCHANGED <<tcpVars, mapVars, dialReq, pingReq, retryVars, ping, msgVars,
                   countVars>>

\* rejectIncoming, posted by AcceptDuplicate or called by the user.
RejectIncoming(n) ==
    /\ \/ rejectReq[n] /\ rejectReq' = [rejectReq EXCEPT ![n] = FALSE] /\ UNCHANGED asks
       \/ asks[n] > 0 /\ asks' = [asks EXCEPT ![n] = @ - 1] /\ UNCHANGED rejectReq
    /\ \E c \in Conns :
          /\ pending[n][c] = "known"
          /\ pending' = [pending EXCEPT ![n][c] = "none"]
          /\ wire' = Written(wire, c, n, AckFrame(FALSE))
          /\ CloseLater(c, n)
    /\ UNCHANGED <<dialer, sock, broken, late, entry, up, pendRead, peerRead,
                   dialReq, pingReq, retryVars, ping, msgVars, countVars>>

\* Either finds no incoming connection of the peer any more.
AnswerTooLate(n) ==
    /\ \A c \in Conns : pending[n][c] # "known"
    /\ \/ rejectReq[n] /\ rejectReq' = [rejectReq EXCEPT ![n] = FALSE] /\ UNCHANGED asks
       \/ asks[n] > 0 /\ asks' = [asks EXCEPT ![n] = @ - 1] /\ UNCHANGED rejectReq
    /\ UNCHANGED <<tcpVars, mapVars, dialReq, pingReq, retryVars, ping, msgVars,
                   countVars>>

-----------------------------------------------------------------------------
(* Keepalive. *)

SendPingUnflagged(n) ==
    /\ wire' = IF HasSocket(n) THEN Written(wire, entry[n], n, Ctl("PING")) ELSE wire
    /\ UNCHANGED ping

\* sendPing: skipped without an entry, while a PONG is awaited, or on a closed socket.
SendPing(n) ==
    \/ /\ HasSocket(n) /\ ping[n] = "idle"
       /\ wire' = Written(wire, entry[n], n, Ctl("PING"))
       /\ ping' = [ping EXCEPT ![n] = "awaiting"]
    \/ /\ ~HasSocket(n) \/ ping[n] # "idle"
       /\ UNCHANGED <<wire, ping>>

\* The sendPing posted by startKeepalive.
FirstPing(n) ==
    /\ pingReq[n]
    /\ pingReq' = [pingReq EXCEPT ![n] = FALSE]
    /\ SendPing(n)
    /\ UNCHANGED <<dialer, sock, broken, closing, late, mapVars, dialReq, asks,
                   rejectReq, retryVars, msgVars, countVars>>

\* The ping timer of the entry runs out.
PingTick(n) ==
    /\ entry[n] # NoConn
    /\ SendPing(n)
    /\ UNCHANGED <<dialer, sock, broken, closing, late, mapVars, postVars,
                   retryVars, msgVars, countVars>>

\* Frames of type t on their way to node n over c, or held by a stale read.
InFlight(c, n, t) == \E i \in DOMAIN wire[c][n] : wire[c][n][i].type = t

\* The answer to a PING takes less than kPongTimeout on a path that works: the
\* timeout cannot beat a PING or a PONG that is still going to be read.
PongOverdue(n) ==
    LET c == entry[n] IN
    ~InFlight(c, Other(n), "PING") /\ ~InFlight(c, n, "PONG")

\* The PONG timeout closes the socket; the read that fails then does the rest.
PongTimeout(n) ==
    /\ ping[n] = "awaiting" /\ entry[n] # NoConn /\ PongOverdue(n)
    /\ ping' = [ping EXCEPT ![n] = "expired"]
    /\ Close(entry[n], n)
    /\ UNCHANGED <<dialer, broken, closing, late, mapVars, postVars, retryVars,
                   msgVars, countVars>>

-----------------------------------------------------------------------------
(* Messages. *)

\* sendFrame posts the frame.
SendFrame(n) ==
    /\ n \in Active /\ sent < MaxMsgs
    /\ sent' = sent + 1
    /\ outbox' = [outbox EXCEPT ![n] = Append(@, Msg(sent + 1))]
    /\ UNCHANGED <<tcpVars, mapVars, postVars, retryVars, ping, queue, got, stray,
                   dials, breaks, restarts>>

\* Queued if there is room, dropped if not.
Enqueue(n, f) ==
    queue' = [queue EXCEPT ![n] = IF Len(@) < MaxQueueSize THEN Append(@, f) ELSE @]

\* The posted lambda: the frame is queued if there is no open socket or the
\* write fails, which it may once the far end is out of reach.
RunSendFrame(n) ==
    /\ outbox[n] # <<>>
    /\ outbox' = [outbox EXCEPT ![n] = Tail(@)]
    /\ \/ /\ ~(HasSocket(n) /\ Reaches(entry[n], n))
          /\ Enqueue(n, Head(outbox[n]))
          /\ UNCHANGED wire
       \/ /\ HasSocket(n)
          /\ wire' = Written(wire, entry[n], n, Head(outbox[n]))
          /\ UNCHANGED queue
    /\ UNCHANGED <<dialer, sock, broken, closing, late, mapVars, postVars,
                   retryVars, ping, got, stray, countVars>>

-----------------------------------------------------------------------------
(* The environment. *)

\* The path of a connection goes silent; what is on it is lost.
Break(c) ==
    /\ breaks < MaxBreaks /\ ~broken[c]
    /\ \A n \in Nodes : sock[c][n] \in {"backlog", "open"}
    /\ breaks' = breaks + 1
    /\ broken' = [broken EXCEPT ![c] = TRUE]
    /\ wire' = [wire EXCEPT ![c] = [n \in Nodes |-> <<>>]]
    /\ UNCHANGED <<dialer, sock, closing, late, mapVars, postVars, retryVars,
                   ping, msgVars, dials, restarts, sent>>

\* The process of n ends and is started again: nothing of NetworkManager is
\* kept on disk, and the system closes its sockets.
Restart(n) ==
    /\ restarts < MaxRestarts
    /\ restarts' = restarts + 1
    /\ sock' = [c \in Conns |-> [sock[c] EXCEPT ![n] = IF @ = "none" THEN @ ELSE "closed"]]
    /\ wire' = [c \in Conns |-> [wire[c] EXCEPT ![n] = <<>>]]
    /\ closing' = [c \in Conns |-> [closing[c] EXCEPT ![n] = FALSE]]
    /\ late' = [c \in Conns |-> IF dialer[c] = n THEN "off" ELSE late[c]]
    /\ pending' = [pending EXCEPT ![n] = [c \in Conns |-> "none"]]
    /\ entry' = [entry EXCEPT ![n] = NoConn]
    /\ up' = [up EXCEPT ![n] = FALSE]
    /\ pendRead' = [c \in Conns |-> [pendRead[c] EXCEPT ![n] = FALSE]]
    /\ peerRead' = [c \in Conns |-> [peerRead[c] EXCEPT ![n] = FALSE]]
    /\ dialReq' = [dialReq EXCEPT ![n] = FALSE]
    /\ asks' = [asks EXCEPT ![n] = 0]
    /\ rejectReq' = [rejectReq EXCEPT ![n] = FALSE]
    /\ pingReq' = [pingReq EXCEPT ![n] = FALSE]
    /\ rinfo' = [rinfo EXCEPT ![n] = FALSE]
    /\ attempts' = [attempts EXCEPT ![n] = 0]
    /\ timer' = [timer EXCEPT ![n] = FALSE]
    /\ orphan' = [orphan EXCEPT ![n] = 0]
    /\ cancelled' = [cancelled EXCEPT ![n] = FALSE]
    /\ ping' = [ping EXCEPT ![n] = "idle"]
    /\ outbox' = [outbox EXCEPT ![n] = <<>>]
    /\ queue' = [queue EXCEPT ![n] = <<>>]
    /\ UNCHANGED <<dialer, broken, got, stray, dials, breaks, sent>>

\* Nothing refers to the slot any more: it is free for another connection.
Recycle(c) ==
    /\ ~Free(c)
    /\ \A n \in Nodes :
          /\ sock[c][n] \in {"none", "closed"}
          /\ pending[n][c] = "none" /\ entry[n] # c
          /\ ~pendRead[c][n] /\ ~peerRead[c][n] /\ ~closing[c][n]
    /\ late[c] # "queued"
    /\ dialer' = [dialer EXCEPT ![c] = 0]
    /\ sock' = [sock EXCEPT ![c] = [n \in Nodes |-> "none"]]
    /\ wire' = [wire EXCEPT ![c] = [n \in Nodes |-> <<>>]]
    /\ broken' = [broken EXCEPT ![c] = FALSE]
    /\ late' = [late EXCEPT ![c] = "off"]
    /\ UNCHANGED <<closing, mapVars, postVars, retryVars, ping, msgVars, countVars>>

-----------------------------------------------------------------------------

Receive(c, n) ==
    \/ Answer(c, n) \/ OnHandshake(c, n) \/ OnAckYes(c, n) \/ OnAckNo(c, n)
    \/ OnPong(c, n) \/ OnMessage(c, n) \/ StaleRead(c, n)

UserActs(n) == ConnectToPeer(n) \/ SendFrame(n)

UserAnswers(n) ==
    AcceptIncoming(n) \/ AcceptDuplicate(n) \/ RejectIncoming(n) \/ AnswerTooLate(n)

Next ==
    \/ \E n \in Nodes :
          \/ UserActs(n) \/ UserAnswers(n) \/ Restart(n)
          \/ StartDial(n) \/ TimerFires(n) \/ CancelledTimerRuns(n)
          \/ FirstPing(n) \/ PingTick(n) \/ PongTimeout(n) \/ RunSendFrame(n)
    \/ \E c \in Conns, n \in Nodes :
          \/ DialFails(c, n) \/ DialDuplicate(c, n) \/ DialSucceeds(c, n)
          \/ LateDialTimeout(c, n) \/ Accept(c, n) \/ Receive(c, n)
          \/ BufferOverflow(c, n) \/ PendingReadFails(c, n)
          \/ PeerReadFails(c, n) \/ RunClose(c, n)
    \/ \E c \in Conns : Break(c) \/ Recycle(c)

Spec == Init /\ [][Next]_vars

\* What the event loop and the timers guarantee.  Nothing is assumed of the user,
\* of the path, or of errors that only may happen.
HandlerFairness ==
    /\ \A n \in Nodes :
          /\ WF_vars(StartDial(n)) /\ WF_vars(CancelledTimerRuns(n))
          /\ WF_vars(TimerFires(n)) /\ WF_vars(FirstPing(n)) /\ WF_vars(PingTick(n))
          /\ WF_vars(PongTimeout(n)) /\ WF_vars(RunSendFrame(n))
    /\ \A c \in Conns, n \in Nodes :
          /\ WF_vars(DialFails(c, n) \/ DialDuplicate(c, n) \/ DialSucceeds(c, n))
          /\ WF_vars(LateDialTimeout(c, n)) /\ WF_vars(Accept(c, n))
          /\ WF_vars(Receive(c, n)) /\ WF_vars(RunClose(c, n))
          /\ WF_vars(MustFail(c, n) /\ PendingReadFails(c, n))
          /\ WF_vars(MustFail(c, n) /\ PeerReadFails(c, n))

FairSpec == Spec /\ HandlerFairness

-----------------------------------------------------------------------------
(* Properties. *)

\* The variables have their types.
TypeOK ==
    /\ dialer \in [Conns -> {0} \cup Nodes]
    /\ sock \in [Conns -> [Nodes -> {"none", "dialing", "backlog", "open", "closed"}]]
    /\ wire \in [Conns -> [Nodes -> Seq(Frame)]]
    /\ broken \in [Conns -> BOOLEAN]
    /\ closing \in [Conns -> [Nodes -> BOOLEAN]]
    /\ late \in [Conns -> {"off", "queued", "aborted"}]
    /\ pending \in [Nodes -> [Conns -> {"none", "anon", "known"}]]
    /\ entry \in [Nodes -> Conns \cup {NoConn}]
    /\ up \in [Nodes -> BOOLEAN]
    /\ pendRead \in [Conns -> [Nodes -> BOOLEAN]]
    /\ peerRead \in [Conns -> [Nodes -> BOOLEAN]]
    /\ dialReq \in [Nodes -> BOOLEAN]
    /\ asks \in [Nodes -> Nat]
    /\ rejectReq \in [Nodes -> BOOLEAN]
    /\ pingReq \in [Nodes -> BOOLEAN]
    /\ rinfo \in [Nodes -> BOOLEAN]
    /\ attempts \in [Nodes -> Nat]
    /\ timer \in [Nodes -> BOOLEAN]
    /\ orphan \in [Nodes -> Nat]
    /\ cancelled \in [Nodes -> BOOLEAN]
    /\ ping \in [Nodes -> {"idle", "awaiting", "expired"}]
    /\ outbox \in [Nodes -> Seq(Frame)]
    /\ queue \in [Nodes -> Seq(Frame)]
    /\ got \in [Nodes -> Seq(1 .. MaxMsgs)]
    /\ stray \in [Nodes -> SUBSET (1 .. MaxMsgs)]
    /\ dials \in Nat /\ breaks \in Nat /\ restarts \in Nat /\ sent \in 0 .. MaxMsgs

\* handleDisconnect(uuid) closes whatever connection the peer has at that time.
\* It is the connection whose read failed: an established read is never on
\* another socket than the entry's.
DisconnectHitsOwnSocket ==
    \A c \in Conns, n \in Nodes : peerRead[c][n] => entry[n] = c

\* Every record of m_peers and m_pending has a read in progress, the only thing
\* that ever removes it when the far end goes away.
EveryRecordIsRead ==
    \A c \in Conns, n \in Nodes :
        /\ entry[n] = c => peerRead[c][n]
        /\ pending[n][c] # "none" => pendRead[c][n]

\* No socket stays open without a record or a close that is still to run.
NoSocketLeaks ==
    \A c \in Conns, n \in Nodes :
        Open(c, n) => entry[n] = c \/ pending[n][c] # "none" \/ closing[c][n]

\* When the dialler is told it is connected, the acceptor has accepted that very
\* connection; from then on the acceptor can only have let go of it.
ConnectedMeansAccepted ==
    \A c \in Conns, n \in Nodes :
        dialer[c] = n /\ entry[n] = c /\ up[n] =>
            \/ entry[Other(n)] = c /\ up[Other(n)]
            \/ sock[c][Other(n)] = "closed"

\* The two nodes never both use links they believe to be up that are different
\* connections, each still held open by its other end.
OneLinkUp ==
    \A c, d \in Conns :
        /\ entry[1] = c /\ up[1] /\ Open(c, 1) /\ Open(c, 2)
        /\ entry[2] = d /\ up[2] /\ Open(d, 1) /\ Open(d, 2)
        => c = d

\* As long as a peer is remembered and not connected, a timer, a request or an
\* attempt to dial it is outstanding: losing track of a timer or failing in any
\* way never ends the attempts before their limit does.
LostPeerIsRedialled ==
    \A n \in Nodes :
        rinfo[n] /\ entry[n] = NoConn =>
            \/ timer[n] \/ orphan[n] > 0 \/ dialReq[n]
            \/ \E c \in Conns : sock[c][n] = "dialing"

\* Where frame i is: the number of its copies in the system.
Copies(i) ==
    LET In(s) == Cardinality({k \in DOMAIN s : s[k].type = "MSG" /\ s[k].id = i}) IN
    LET At(n) == In(outbox[n]) + In(queue[n])
                   + Cardinality({k \in DOMAIN got[n] : got[n][k] = i})
                   + (IF i \in stray[n] THEN 1 ELSE 0)
    IN  <<At(1) + At(2), [c \in Conns |-> In(wire[c][1]) + In(wire[c][2])]>>

\* No frame is ever in two places, so none is delivered twice, whatever is
\* queued, drained, written or lost.
AtMostOnce ==
    \A i \in 1 .. MaxMsgs :
        /\ Copies(i)[1] <= 1
        /\ \A c \in Conns : Copies(i)[1] + Copies(i)[2][c] <= 1
        /\ \A c, d \in Conns : c # d => Copies(i)[2][c] + Copies(i)[2][d] <= 1

\* An entry whose path went silent is eventually erased: the keepalive finds out.  (After
\* BufferOverflow nothing reads it any more, and nothing will erase it.)
SilentPathDetected ==
    \A n \in Nodes, c \in Conns :
        entry[n] = c /\ broken[c] ~> (entry[n] # c \/ ~broken[c] \/ ~peerRead[c][n])

=============================================================================
