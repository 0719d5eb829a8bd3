---------------------------- MODULE NetworkModes ----------------------------
(***************************************************************************)
(* The start of NetworkManager (init, src/src/net/network.cpp) in the      *)
(* modes of port forwarding that set something going: the connections of   *)
(* nodes to the relay (Relay) and the search for a router (Upnp), which    *)
(* keep looking at the setting.                                            *)
(*                                                                         *)
(* All nodes start in one mode; Upnp is about the node Self.               *)
(***************************************************************************)
EXTENDS Relay, Upnp

CONSTANT Self

ASSUME ModesAssumption == Self \in Nodes

VARIABLES
    mode,        \* the setting portForwardingMode; "Disabled" stands for the other three
    started      \* the nodes on which init has run

modeVars == <<mode, started>>
vars == <<relayVars, upnpVars, modeVars>>

Init ==
    /\ mode \in {"ClientServer", "UpnpAuto"}
    /\ RelayInit
    /\ UpnpInit
    /\ started = {}

\* init, by mode.
InitRelay(n) ==
    /\ mode = "ClientServer"
    /\ ConnectToRelay(n)
    /\ UNCHANGED upnpVars

InitUpnp(n) ==
    /\ mode = "UpnpAuto" /\ n = Self
    /\ MapPort
    /\ UNCHANGED <<relayVars, notified, m_upnpMapped, refresh>>

InitNode(n) ==
    /\ n \notin started
    /\ started' = started \cup {n}
    /\ InitRelay(n) \/ InitUpnp(n)
    /\ UNCHANGED mode

\* The user turns UPnP off.  What reads the setting later sees it; nothing else happens.
TurnOff ==
    /\ mode = "UpnpAuto" /\ Self \in started
    /\ mode' = "Disabled"
    /\ UNCHANGED <<relayVars, upnpVars, started>>

UpnpOn == mode = "UpnpAuto"

Next ==
    \/ \E n \in Nodes : InitNode(n)
    \/ TurnOff
    \/ RelayNext /\ UNCHANGED <<upnpVars, modeVars>>
    \/ /\ \/ MapperNext \/ NotifyUpnpResult \/ RefreshIsDue \/ Refresh(UpnpOn)
          \/ Self \in started /\ UpnpOn /\ RetryUpnp
       /\ UNCHANGED <<relayVars, modeVars>>

Fairness == RelayFairness /\ MapperFairness

Spec == Init /\ [][Next]_vars /\ Fairness

-----------------------------------------------------------------------------
(* Properties. *)

\* When nothing is under way and no link was lost, who was told that a peer is connected
\* has a peer that was told so too: a request is accepted at one end and known at the other
\* (acceptIncoming, HANDSHAKE_ACK), or at neither.
BothAreTold ==
    losses = 0 /\ (\A n \in Nodes : up[n] = <<>> /\ down[n] = <<>>)
        => \A n, p \in Nodes : p \in told[n] <=> n \in told[p]

\* A node that lost the relay comes to be registered again, unless its buffer overflows or
\* the settings hold no address of the relay any more (connectToRelay, m_relayReconnectTimer).
RelayReturns ==
    \A n \in Nodes :
        socket[n] \in {"lost", "waiting"} ~>
            (registered[n] /\ n \in known) \/ socket[n] = "closed"

\* A peer that is gone for good and is written to is not shown any more, unless the writer
\* loses the relay (RELAY_PEER_OFFLINE).
Written(n, p) == \E i \in DOMAIN up[n] : up[n][i] # Reg /\ up[n][i].to = p
OfflineIsNoticed ==
    \A n, p \in Nodes :
        Written(n, p) /\ HasRecord(n, p) /\ socket[p] = "closed" ~>
            ~HasRecord(n, p) \/ socket[n] # "open"

\* Results come once per run, in the order of the runs, whatever handlers of a superseded
\* run or of an expired timer still come ("called exactly once, for the very latest run",
\* upnp.h:18).
ResultsInOrder ==
    \A i, j \in DOMAIN results : i < j => results[i].run < results[j].run

\* A run reports, unless a newer one supersedes it or the time of a request was up when
\* there was nothing to cancel or another address to try.
RunReports ==
    \A g \in Runs :
        m_generation = g ~>
            \/ m_generation # g
            \/ \E i \in DOMAIN results : results[i].run = g
            \/ job[g].time = "missed"
=============================================================================
