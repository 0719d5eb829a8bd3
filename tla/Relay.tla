------------------------------- MODULE Relay -------------------------------
(***************************************************************************)
(* NetworkManager in the mode ClientServer (src/src/net/network.cpp): the  *)
(* connection of a node to the relay, the virtual peers of m_relayPeers    *)
(* that are reached through it, and requests, answers and messages that    *)
(* come while links to the relay go up and down.                           *)
(*                                                                         *)
(* The relay is external: it registers connections, forwards a frame to a  *)
(* registered node, and answers that the peer is offline otherwise.  What  *)
(* was on a link that is lost is lost; the relay knows before the node.    *)
(***************************************************************************)
EXTENDS Naturals, Sequences, FiniteSets

CONSTANTS
    Nodes,
    MaxDials,     \* bound: calls of connectToPeer in all
    MaxFrames,    \* bound: calls of sendFrame in all
    MaxLosses     \* bound: links and addresses lost, and buffers that overflow, in all

ASSUME RelayAssumption == MaxDials \in Nat /\ MaxFrames \in Nat /\ MaxLosses \in Nat

VARIABLES
    socket,      \* [Nodes -> m_relaySocket: "off", "dialling", "open", "lost" but taken for
                 \*  open, "waiting" for m_relayReconnectTimer, or "closed" for good]
    registered,  \* [Nodes -> m_relayRegistered]
    peers,       \* [Nodes -> [Nodes -> the state of the record in m_peers]]
    pending,     \* [Nodes -> the keys of m_pending]
    posted,      \* [Nodes -> [Nodes -> lambdas of sendFrame in the io_context's queue]]
    queued,      \* [Nodes -> [Nodes -> the length of m_messageQueues]]
    up, down,    \* [Nodes -> frames from the node to the relay, and to the node]
    known,       \* the nodes that are registered at the relay
    asked,       \* [Nodes -> the peers whose request the user is to answer]
    told,        \* [Nodes -> the peers the user was last told are connected]
    dials, sends, losses

sides == <<socket, registered, up, down, known>>
records == <<peers, pending, told>>
frames == <<posted, queued>>
relayBounds == <<dials, sends, losses>>
relayVars == <<sides, records, frames, asked, relayBounds>>

\* The frames.
Reg == [type |-> "REGISTER"]
Registered == [type |-> "REGISTERED"]
To(p, t) == [type |-> t, to |-> p]
From(p, t) == [type |-> t, from |-> p]
Offline(p) == [type |-> "OFFLINE", uuid |-> p]

RelayInit ==
    /\ socket = [n \in Nodes |-> "off"]
    /\ registered = [n \in Nodes |-> FALSE]
    /\ peers = [n \in Nodes |-> [p \in Nodes |-> "none"]]
    /\ pending = [n \in Nodes |-> {}]
    /\ asked = [n \in Nodes |-> {}] /\ told = [n \in Nodes |-> {}]
    /\ posted = [n \in Nodes |-> [p \in Nodes |-> 0]] /\ queued = posted
    /\ up = [n \in Nodes |-> <<>>] /\ down = up
    /\ known = {}
    /\ dials = 0 /\ sends = 0 /\ losses = 0

-----------------------------------------------------------------------------
(* The link to the relay. *)

\* m_relayPeers changes where m_peers does, so it is the peers with a record.
HasRecord(n, p) == peers[n][p] # "none"

Becomes(n, s) == socket' = [socket EXCEPT ![n] = s]

\* An error arms m_relayReconnectTimer; the read's also takes the registration back.
Forget(n) == Becomes(n, "off")
Retry(n) == Becomes(n, "waiting")

\* init: connectToRelay.  Without an address of the relay nothing is done: such a node is one
\* that has not started.
ConnectToRelay(n) ==
    /\ Becomes(n, "dialling")
    /\ UNCHANGED <<registered, up, down, known, records, frames, asked, relayBounds>>

ConnectFails(n) ==
    /\ socket[n] = "dialling"
    /\ Retry(n)
    /\ UNCHANGED <<registered, up, down, known, records, frames, asked, relayBounds>>

Connects(n) ==
    /\ socket[n] = "dialling"
    /\ Becomes(n, "open")
    /\ up' = [up EXCEPT ![n] = <<Reg>>]
    /\ UNCHANGED <<registered, down, known, records, frames, asked, relayBounds>>

\* The timer runs out: connectToRelay.
Redials(n) ==
    /\ socket[n] = "waiting"
    /\ Becomes(n, "dialling")
    /\ registered' = [registered EXCEPT ![n] = FALSE]
    /\ UNCHANGED <<up, down, known, records, frames, asked, relayBounds>>

\* By then the address may have gone from the settings, or be none: no more is tried.
NoAddress(n) ==
    /\ socket[n] = "waiting" /\ losses < MaxLosses
    /\ losses' = losses + 1
    /\ Becomes(n, "closed")
    /\ UNCHANGED <<registered, up, down, known, records, frames, asked, dials, sends>>

ReadFails(n) ==
    /\ socket[n] = "lost"
    /\ Retry(n)
    /\ registered' = [registered EXCEPT ![n] = FALSE]
    /\ UNCHANGED <<up, down, known, records, frames, asked, relayBounds>>

\* Gone for the relay, with what was on the link.
Unregister(n) ==
    /\ known' = known \ {n}
    /\ up' = [up EXCEPT ![n] = <<>>]
    /\ down' = [down EXCEPT ![n] = <<>>]

LinkLost(n) ==
    /\ socket[n] = "open" /\ losses < MaxLosses
    /\ losses' = losses + 1
    /\ Becomes(n, "lost")
    /\ Unregister(n)
    /\ UNCHANGED <<registered, records, frames, asked, dials, sends>>

\* More than kMaxBufferSize without an end of frame: closed, and read no more.
Overflows(n) ==
    /\ socket[n] = "open" /\ losses < MaxLosses
    /\ losses' = losses + 1
    /\ Becomes(n, "closed")
    /\ Unregister(n)
    /\ UNCHANGED <<registered, records, frames, asked, dials, sends>>

\* The relay takes a frame of n.
Forward(n) ==
    /\ up[n] # <<>>
    /\ LET f == Head(up[n]) IN
       IF f = Reg
       THEN /\ known' = known \cup {n}
            /\ down' = [down EXCEPT ![n] = Append(@, Registered)]
       ELSE /\ down' = IF f.to \in known
                       THEN [down EXCEPT ![f.to] = Append(@, From(n, f.type))]
                       ELSE [down EXCEPT ![n] = Append(@, Offline(f.to))]
            /\ UNCHANGED known
    /\ up' = [up EXCEPT ![n] = Tail(@)]
    /\ UNCHANGED <<socket, registered, records, frames, asked, relayBounds>>

\* sendViaRelay: dropped without a registration, lost on a link that is.
SendViaRelay(n, p, t) ==
    up' = IF registered[n] /\ socket[n] = "open"
          THEN [up EXCEPT ![n] = Append(@, To(p, t))]
          ELSE up

-----------------------------------------------------------------------------
(* What the user asks for. *)

\* A peer with a record is already connected or connecting.
ConnectToPeer(n, p) ==
    /\ n # p /\ socket[n] # "off" /\ dials < MaxDials
    /\ peers[n][p] = "none"
    /\ dials' = dials + 1
    /\ peers' = [peers EXCEPT ![n][p] = "Connecting"]
    /\ SendViaRelay(n, p, "HANDSHAKE")
    /\ UNCHANGED <<socket, registered, down, known, pending, told, frames, asked, sends, losses>>

\* sendFrame posts.
SendFrame(n, p) ==
    /\ n # p /\ socket[n] # "off" /\ sends < MaxFrames
    /\ sends' = sends + 1
    /\ posted' = [posted EXCEPT ![n][p] = @ + 1]
    /\ UNCHANGED <<sides, records, queued, asked, dials, losses>>

\* Its lambda: a virtual peer is written to, connected or not.  The queue is bounded by
\* kMaxQueueSize, which is above MaxFrames.
RunSendFrame(n, p) ==
    /\ posted[n][p] > 0
    /\ posted' = [posted EXCEPT ![n][p] = @ - 1]
    /\ IF HasRecord(n, p)
       THEN SendViaRelay(n, p, "OTHER") /\ UNCHANGED queued
       ELSE queued' = [queued EXCEPT ![n][p] = @ + 1] /\ UNCHANGED up
    /\ UNCHANGED <<socket, registered, down, known, records, asked, relayBounds>>

\* drainMessageQueue posts what is queued.
DrainMessageQueue(n, p) ==
    /\ posted' = [posted EXCEPT ![n][p] = @ + queued[n][p]]
    /\ queued' = [queued EXCEPT ![n][p] = 0]

Tells(n, p) == told' = [told EXCEPT ![n] = @ \cup {p}]
Answered(n, p) == asked' = [asked EXCEPT ![n] = @ \ {p}]

\* acceptIncoming: without a pending record nothing happens.  A second request of a peer
\* that is Connected is refused, but has no pending record either.
AcceptIncoming(n, p) ==
    /\ p \in asked[n]
    /\ Answered(n, p)
    /\ IF p \in pending[n] /\ peers[n][p] # "Connected"
       THEN /\ pending' = [pending EXCEPT ![n] = @ \ {p}]
            /\ peers' = [peers EXCEPT ![n][p] = "Connected"]
            /\ SendViaRelay(n, p, "ACCEPTED")
            /\ Tells(n, p)
            /\ DrainMessageQueue(n, p)
       ELSE UNCHANGED <<up, records, frames>>
    /\ UNCHANGED <<socket, registered, down, known, relayBounds>>

RejectIncoming(n, p) ==
    /\ p \in asked[n]
    /\ Answered(n, p)
    /\ pending' = [pending EXCEPT ![n] = @ \ {p}]
    /\ IF p \in pending[n] THEN SendViaRelay(n, p, "REFUSED") ELSE UNCHANGED up
    /\ UNCHANGED <<socket, registered, down, known, peers, told, frames, relayBounds>>

-----------------------------------------------------------------------------
(* Frames of the relay. *)

Takes(n, t) ==
    /\ down[n] # <<>> /\ Head(down[n]).type = t
    /\ down' = [down EXCEPT ![n] = Tail(@)]

OnRegistered(n) ==
    /\ Takes(n, "REGISTERED")
    /\ registered' = [registered EXCEPT ![n] = TRUE]
    /\ UNCHANGED <<socket, up, known, records, frames, asked, relayBounds>>

\* RELAY_PEER_OFFLINE: the record goes, whatever its state; a pending one stays.
IsConnected(n, p) == peers[n][p] = "Connected"
Gone(n, p) == HasRecord(n, p)
OnPeerOffline(n) ==
    /\ Takes(n, "OFFLINE")
    /\ LET p == Head(down[n]).uuid IN
       IF Gone(n, p)
       THEN /\ peers' = [peers EXCEPT ![n][p] = "none"]
            /\ told' = [told EXCEPT ![n] = @ \ {p}]
            /\ UNCHANGED pending
       ELSE UNCHANGED records
    /\ UNCHANGED <<socket, registered, up, known, frames, asked, relayBounds>>

\* handleRelayFrame: a frame of a peer without a record makes a pending one.
Sender(n) == Head(down[n]).from
HandleRelayFrame(n, t) ==
    /\ Takes(n, t)
    /\ pending' = IF HasRecord(n, Sender(n)) THEN pending
                  ELSE [pending EXCEPT ![n] = @ \cup {Sender(n)}]

OnHandshake(n) ==
    /\ HandleRelayFrame(n, "HANDSHAKE")
    /\ asked' = [asked EXCEPT ![n] = @ \cup {Sender(n)}]
    /\ UNCHANGED <<socket, registered, up, known, peers, told, frames, relayBounds>>

\* HANDSHAKE_ACK leaves the state of the record as it is.
AnyAnswer(n) == HandleRelayFrame(n, "ACCEPTED") \/ HandleRelayFrame(n, "REFUSED")
Acceptance(n) == HandleRelayFrame(n, "ACCEPTED")
OnAccepted(n) ==
    /\ Acceptance(n)
    /\ Tells(n, Sender(n))
    /\ DrainMessageQueue(n, Sender(n))
    /\ UNCHANGED <<socket, registered, up, known, peers, asked, relayBounds>>

\* A refusal is reported; any other frame goes to the listeners.
OnOther(n) ==
    /\ HandleRelayFrame(n, "REFUSED") \/ HandleRelayFrame(n, "OTHER")
    /\ UNCHANGED <<socket, registered, up, known, peers, told, frames, asked, relayBounds>>

Handles(n) ==
    \/ OnRegistered(n) \/ OnPeerOffline(n)
    \/ OnHandshake(n) \/ OnAccepted(n) \/ OnOther(n)

-----------------------------------------------------------------------------

RelayNext ==
    \/ \E n \in Nodes :
          \/ ConnectFails(n) \/ Connects(n) \/ Redials(n) \/ NoAddress(n) \/ ReadFails(n)
          \/ LinkLost(n) \/ Overflows(n) \/ Forward(n) \/ Handles(n)
    \/ \E n, p \in Nodes :
          \/ ConnectToPeer(n, p) \/ SendFrame(n, p) \/ RunSendFrame(n, p)
          \/ AcceptIncoming(n, p) \/ RejectIncoming(n, p)

\* The io_context runs what is ready, timers run out, the network loses no link for ever
\* without an error, the relay forwards and can be reached again and again.
RelayFairness ==
    \A n \in Nodes :
        /\ WF_relayVars(Redials(n)) /\ WF_relayVars(ReadFails(n))
        /\ SF_relayVars(Connects(n))
        /\ WF_relayVars(Forward(n)) /\ WF_relayVars(Handles(n))
        /\ \A p \in Nodes : WF_relayVars(RunSendFrame(n, p))
=============================================================================
