----------------------------- MODULE CallManager -----------------------------
(***************************************************************************)
(* Voice calls (src/src/calls/callmanager.cpp): the CallManagers of a set  *)
(* of nodes, the CALL_* frames between them and their two timers.          *)
(*                                                                         *)
(* The user's calls and handleSignaling run on the UI thread of a node,    *)
(* the timer callbacks on its io_context thread; m_mutex is held only      *)
(* around single reads and writes.  A handler of the UI thread is cut      *)
(* where the timer thread can come between two of its critical sections.   *)
(*                                                                         *)
(* m_generation is not a counter here: a timer armed under a generation    *)
(* that is over is one that is no longer armed.                            *)
(*                                                                         *)
(* sendFrame hands a frame to the io_context, which writes to the peer's   *)
(* socket.  The calls are taken to be made over links that are up: then    *)
(* frames arrive in the order of sending.  (A frame that waits in a queue  *)
(* for a link, network.cpp:1418-1431, can be overtaken by a later one.)    *)
(***************************************************************************)
EXTENDS Naturals, Sequences, FiniteSets

CONSTANTS
    Nodes,
    NoNode,
    MaxCalls,    \* bound: calls made in all
    MaxLosses,   \* bound: losses of a link with the frames on it
    MediaFails,  \* may the media engine fail to start?
    Preempt      \* may the two threads of a node interleave inside a handler?

ASSUME CallAssumption ==
    /\ NoNode \notin Nodes
    /\ MaxCalls \in Nat /\ MaxLosses \in Nat
    /\ MediaFails \in BOOLEAN /\ Preempt \in BOOLEAN

Calls == 1 .. MaxCalls
NoCall == 0

States == {"Idle", "Calling", "Ringing", "InCall", "Ended"}
Signals == [type : {"INVITE", "ACCEPT", "REJECT", "END"}, call : Calls]

VARIABLES
    state,      \* [Nodes -> m_state]
    call,       \* [Nodes -> m_callId]
    peer,       \* [Nodes -> m_peerUuid]
    media,      \* [Nodes -> the call the media engine runs for]
    callTimer,  \* [Nodes -> is the 30 s timer armed under the current generation?]
    endedTimer, \* [Nodes -> is a 1 s timer armed under the current generation?]
    callback,   \* [Nodes -> a timer callback past its test of the generation, which is
                \*           still the "current" one or "stale", or "none"]
    ui,         \* [Nodes -> what the UI thread has left to do in its handler]
    meddled,    \* the nodes where a timer's reset came in the middle of a handler or was
                \* a stale one and hit a running engine, and that have made no call since
    parties,    \* [Calls -> caller and callee, once the call has been made]
    accepted,   \* the calls whose callee sent CALL_ACCEPT
    net,        \* [Nodes -> [Nodes -> frames from the first to the second]]
    losses

nodeVars == <<state, call, peer, media, callTimer, endedTimer, callback, ui>>
vars == <<nodeVars, parties, accepted, net, losses, meddled>>

\* The locals of a handler: "invite" (to announce the call), "media" (to start the
\* engine), "talk" (to enter InCall), "end" (to arm the 1 s timer).
Done == [op |-> "done", call |-> NoCall, peer |-> NoNode]
Left(o, i, p) == [op |-> o, call |-> i, peer |-> p]

Nobody == [from |-> NoNode, to |-> NoNode]

Init ==
    /\ state = [n \in Nodes |-> "Idle"]
    /\ call = [n \in Nodes |-> NoCall]
    /\ peer = [n \in Nodes |-> NoNode]
    /\ media = [n \in Nodes |-> NoCall]
    /\ callTimer = [n \in Nodes |-> FALSE]
    /\ endedTimer = [n \in Nodes |-> FALSE]
    /\ callback = [n \in Nodes |-> "none"]
    /\ ui = [n \in Nodes |-> Done]
    /\ parties = [i \in Calls |-> Nobody]
    /\ accepted = {}
    /\ net = [n \in Nodes |-> [m \in Nodes |-> <<>>]]
    /\ losses = 0
    /\ meddled = {}

-----------------------------------------------------------------------------

\* The threads of n may be scheduled: the UI thread at the start of a handler, or
\* the timer thread.
UiFree(n) == ui[n].op = "done" /\ (Preempt \/ callback[n] = "none")
TimerFree(n) == callback[n] = "none" /\ (Preempt \/ ui[n].op = "done")

Send(w, n, m, t, i) == [w EXCEPT ![n][m] = Append(@, [type |-> t, call |-> i])]

\* cancelTimers: ++m_generation.
KeepTimers(n) == UNCHANGED <<callTimer, endedTimer, callback>>
CancelTimers(n) ==
    /\ callTimer' = [callTimer EXCEPT ![n] = FALSE]
    /\ endedTimer' = [endedTimer EXCEPT ![n] = FALSE]
    /\ callback' = [callback EXCEPT ![n] = IF @ = "current" THEN "stale" ELSE @]

\* The fields resetState clears.  The media engine is not among them.
Forget(n) ==
    /\ call' = [call EXCEPT ![n] = NoCall]
    /\ peer' = [peer EXCEPT ![n] = NoNode]
    /\ state' = [state EXCEPT ![n] = "Idle"]

ResetState(n) == CancelTimers(n) /\ Forget(n)

-----------------------------------------------------------------------------
(* The user. *)

\* initiateCall up to Calling.  The trial run of the engine ends in endCall().
InitiateCall(n, p) ==
    /\ UiFree(n) /\ p # n
    /\ state[n] = "Idle"
    /\ \E i \in Calls :
          /\ parties[i] = Nobody
          /\ \A j \in 1 .. i - 1 : parties[j] # Nobody
          /\ parties' = [parties EXCEPT ![i] = [from |-> n, to |-> p]]
          /\ state' = [state EXCEPT ![n] = "Calling"]
          /\ call' = [call EXCEPT ![n] = i]
          /\ peer' = [peer EXCEPT ![n] = p]
          /\ media' = [media EXCEPT ![n] = NoCall]
          /\ ui' = [ui EXCEPT ![n] = Left("invite", i, p)]
    /\ meddled' = meddled \ {n}
    /\ UNCHANGED <<callTimer, endedTimer, callback, accepted, net, losses>>

\* The rest of it: the timer is armed under the generation of now, CALL_INVITE goes out.
SendInvite(n) ==
    /\ ui[n].op = "invite"
    /\ ui' = [ui EXCEPT ![n] = Done]
    /\ callTimer' = [callTimer EXCEPT ![n] = TRUE]
    /\ net' = Send(net, n, ui[n].peer, "INVITE", ui[n].call)
    /\ UNCHANGED <<state, call, peer, media, endedTimer, callback, parties, accepted, losses,
                   meddled>>

\* acceptCall up to startMedia.
AcceptAtAnyTime(n) ==
    /\ UiFree(n)
    /\ ui' = [ui EXCEPT ![n] = Left("media", call[n], peer[n])]
    /\ UNCHANGED <<state, call, peer, media, callTimer, endedTimer, callback, parties,
                   accepted, net, losses, meddled>>
AcceptCall(n) ==
    /\ UiFree(n)
    /\ state[n] = "Ringing"
    /\ ui' = [ui EXCEPT ![n] = Left("media", call[n], peer[n])]
    /\ UNCHANGED <<state, call, peer, media, callTimer, endedTimer, callback, parties,
                   accepted, net, losses, meddled>>

RejectCall(n) ==
    /\ UiFree(n)
    /\ state[n] = "Ringing"
    /\ net' = Send(net, n, peer[n], "REJECT", call[n])
    /\ ResetState(n)
    /\ UNCHANGED <<media, ui, parties, accepted, losses, meddled>>

\* The engine stops and the state is Ended; the 1 s timer is armed after that.  The code
\* looks at the state and sets it in two critical sections (265-272 and 282).  A reset of
\* the timer thread between the two is taken to come after the second: a node that then is
\* Ended without a call until the new timer runs out is Idle here, with that timer armed.
Ended(n) ==
    /\ media' = [media EXCEPT ![n] = NoCall]
    /\ state' = [state EXCEPT ![n] = "Ended"]
    /\ ui' = [ui EXCEPT ![n] = Left("end", NoCall, NoNode)]

EndCall(n) ==
    /\ UiFree(n)
    /\ state[n] # "Idle"
    /\ net' = IF state[n] # "Ended" /\ call[n] # NoCall /\ peer[n] # NoNode
              THEN Send(net, n, peer[n], "END", call[n]) ELSE net
    /\ Ended(n)
    /\ UNCHANGED <<call, peer, callTimer, endedTimer, callback, parties, accepted, losses,
                   meddled>>

ForgetToArm(n) ==
    /\ ui[n].op = "end"
    /\ ui' = [ui EXCEPT ![n] = Done]
    /\ UNCHANGED <<state, call, peer, media, callTimer, endedTimer, callback, parties,
                   accepted, net, losses, meddled>>
ArmEndedTimer(n) ==
    /\ ui[n].op = "end"
    /\ ui' = [ui EXCEPT ![n] = Done]
    /\ endedTimer' = [endedTimer EXCEPT ![n] = TRUE]
    /\ UNCHANGED <<state, call, peer, media, callTimer, callback, parties, accepted, net,
                   losses, meddled>>

-----------------------------------------------------------------------------
(* startMedia and what follows it, in acceptCall and on CALL_ACCEPT. *)

\* No session, no key or no engine: the call is given up, and nobody is told.  An
\* engine that still runs for an earlier call passes for a start (isInCall).
MediaDoesNotStart(n) ==
    /\ ui[n].op = "media"
    /\ MediaFails \/ peer[n] = NoNode
    /\ ResetState(n)
    /\ ui' = [ui EXCEPT ![n] = IF media[n] = NoCall THEN Done ELSE [@ EXCEPT !.op = "talk"]]
    /\ UNCHANGED <<media, parties, accepted, net, losses, meddled>>

MediaStarts(n) ==
    /\ ui[n].op = "media" /\ peer[n] # NoNode
    /\ media' = [media EXCEPT ![n] = ui[n].call]
    /\ ui' = [ui EXCEPT ![n] = [@ EXCEPT !.op = "talk"]]
    /\ UNCHANGED <<state, call, peer, callTimer, endedTimer, callback, parties, accepted,
                   net, losses, meddled>>

\* The callee announces its port; both enter InCall, whatever the state is by now.
Talk(n) ==
    /\ ui[n].op = "talk"
    /\ LET i == ui[n].call IN
       \/ /\ parties[i].to = n
          /\ accepted' = accepted \cup {i}
          /\ net' = Send(net, n, ui[n].peer, "ACCEPT", i)
       \/ parties[i].from = n /\ UNCHANGED <<accepted, net>>
    /\ state' = [state EXCEPT ![n] = "InCall"]
    /\ ui' = [ui EXCEPT ![n] = Done]
    /\ UNCHANGED <<call, peer, media, callTimer, endedTimer, callback, parties, losses, meddled>>

-----------------------------------------------------------------------------
(* handleSignaling. *)

Arrives(m, n, t) == UiFree(n) /\ net[m][n] # <<>> /\ Head(net[m][n]).type = t
Rest(m, n) == [net EXCEPT ![m][n] = Tail(@)]
Named(m, n) == Head(net[m][n]).call

\* Is the frame about the call in progress?
AnyCall(m, n) == TRUE
SameCall(m, n) == call[n] = Named(m, n)

OnInvite(m, n) ==
    /\ Arrives(m, n, "INVITE")
    /\ \/ /\ state[n] # "Idle"
          /\ net' = Send(Rest(m, n), n, m, "REJECT", Named(m, n))
          /\ UNCHANGED <<state, call, peer>>
       \/ /\ state[n] = "Idle"
          /\ net' = Rest(m, n)
          /\ state' = [state EXCEPT ![n] = "Ringing"]
          /\ call' = [call EXCEPT ![n] = Named(m, n)]
          /\ peer' = [peer EXCEPT ![n] = m]
    /\ UNCHANGED <<media, callTimer, endedTimer, callback, ui, parties, accepted, losses, meddled>>

OnAccept(m, n) ==
    /\ Arrives(m, n, "ACCEPT") /\ state[n] = "Calling" /\ SameCall(m, n)
    /\ net' = Rest(m, n)
    /\ CancelTimers(n)
    /\ ui' = [ui EXCEPT ![n] = Left("media", call[n], m)]
    /\ UNCHANGED <<state, call, peer, media, parties, accepted, losses, meddled>>

OnReject(m, n) ==
    /\ Arrives(m, n, "REJECT") /\ state[n] = "Calling" /\ SameCall(m, n)
    /\ net' = Rest(m, n)
    /\ ResetState(n)
    /\ UNCHANGED <<media, ui, parties, accepted, losses, meddled>>

Active(n) == state[n] \in {"InCall", "Ringing", "Calling"}

OnEnd(m, n) ==
    /\ Arrives(m, n, "END") /\ Active(n) /\ SameCall(m, n)
    /\ net' = Rest(m, n)
    /\ Ended(n)
    /\ UNCHANGED <<call, peer, callTimer, endedTimer, callback, parties, accepted, losses,
                   meddled>>

\* A frame about another call, or that comes too late, is ignored.
Ignore(m, n) ==
    /\ \/ /\ Arrives(m, n, "ACCEPT") \/ Arrives(m, n, "REJECT")
          /\ ~(state[n] = "Calling" /\ SameCall(m, n))
       \/ Arrives(m, n, "END") /\ ~(Active(n) /\ SameCall(m, n))
    /\ net' = Rest(m, n)
    /\ UNCHANGED <<nodeVars, parties, accepted, losses, meddled>>

-----------------------------------------------------------------------------
(* The timers. *)

\* A timer runs out and its callback finds its generation to be the current one.
TimerExpires(n) ==
    /\ TimerFree(n)
    /\ \/ callTimer[n] /\ callTimer' = [callTimer EXCEPT ![n] = FALSE] /\ UNCHANGED endedTimer
       \/ endedTimer[n] /\ endedTimer' = [endedTimer EXCEPT ![n] = FALSE] /\ UNCHANGED callTimer
    /\ callback' = [callback EXCEPT ![n] = "current"]
    /\ UNCHANGED <<state, call, peer, media, ui, parties, accepted, net, losses, meddled>>

\* It then calls resetState, without another look, even in the middle of a handler of the
\* UI thread or, when it has become stale, in a call that talks.
Meddles(n) == ui[n].op # "done" \/ (callback[n] = "stale" /\ media[n] # NoCall)
TimerResets(n) ==
    /\ callback[n] # "none"
    /\ callback' = [callback EXCEPT ![n] = "none"]
    /\ callTimer' = [callTimer EXCEPT ![n] = FALSE]
    /\ endedTimer' = [endedTimer EXCEPT ![n] = FALSE]
    /\ Forget(n)
    /\ meddled' = IF Meddles(n) THEN meddled \cup {n} ELSE meddled
    /\ UNCHANGED <<media, ui, parties, accepted, net, losses>>

\* The link between two nodes is lost with the frames on it.
LoseLink(n, m) ==
    /\ losses < MaxLosses
    /\ net[n][m] # <<>> \/ net[m][n] # <<>>
    /\ losses' = losses + 1
    /\ net' = [net EXCEPT ![n][m] = <<>>, ![m][n] = <<>>]
    /\ UNCHANGED <<nodeVars, parties, accepted, meddled>>

-----------------------------------------------------------------------------

User(n) ==
    \/ \E p \in Nodes : InitiateCall(n, p)
    \/ AcceptCall(n) \/ RejectCall(n) \/ EndCall(n)

Continue(n) ==
    \/ SendInvite(n) \/ ArmEndedTimer(n)
    \/ MediaDoesNotStart(n) \/ MediaStarts(n) \/ Talk(n)

Signaling(m, n) ==
    \/ OnInvite(m, n) \/ OnAccept(m, n) \/ OnReject(m, n) \/ OnEnd(m, n) \/ Ignore(m, n)

Next ==
    \/ \E n \in Nodes : User(n) \/ Continue(n) \/ TimerExpires(n) \/ TimerResets(n)
    \/ \E m, n \in Nodes : Signaling(m, n) \/ LoseLink(m, n)

Spec == Init /\ [][Next]_vars

\* The threads run and timers run out.  The user need not do anything, and no frame need
\* ever arrive.
FairSpec ==
    /\ Spec
    /\ \A n \in Nodes :
          WF_vars(Continue(n)) /\ WF_vars(TimerExpires(n)) /\ WF_vars(TimerResets(n))

-----------------------------------------------------------------------------
(* Properties. *)

\* The variables have their types.
TypeOK ==
    /\ state \in [Nodes -> States]
    /\ call \in [Nodes -> Calls \cup {NoCall}]
    /\ peer \in [Nodes -> Nodes \cup {NoNode}]
    /\ media \in [Nodes -> Calls \cup {NoCall}]
    /\ callTimer \in [Nodes -> BOOLEAN]
    /\ endedTimer \in [Nodes -> BOOLEAN]
    /\ callback \in [Nodes -> {"none", "current", "stale"}]
    /\ ui \in [Nodes -> [op : {"done", "end"}, call : {NoCall}, peer : {NoNode}]
                     \cup [op : {"invite", "media", "talk"}, call : Calls, peer : Nodes]]
    /\ parties \in [Calls -> [from : Nodes \cup {NoNode}, to : Nodes \cup {NoNode}]]
    /\ accepted \in SUBSET Calls
    /\ net \in [Nodes -> [Nodes -> Seq(Signals)]]
    /\ losses \in 0 .. MaxLosses
    /\ meddled \subseteq Nodes

\* The caller is in a call only if the callee has accepted that very call.
CallerTalksToAcceptor ==
    \A n \in Nodes :
        state[n] = "InCall" /\ call[n] # NoCall /\ parties[call[n]].from = n
            => call[n] \in accepted

\* A caller who is in a call with a callee that is in a call with it is in the same
\* call, so the two derived the same media key.  (Two callees need not be: each may
\* have accepted an invitation the other has given up.)
CallerSharesTheCall ==
    \A n, m \in Nodes :
        /\ state[n] = "InCall" /\ peer[n] = m /\ call[n] # NoCall
        /\ parties[call[n]].from = n
        /\ state[m] = "InCall" /\ peer[m] = n
        => call[n] = call[m]

\* The engine (microphone, UDP port) runs for the call in progress and for no other,
\* and stops with it.
MediaOnlyInCall(n) ==
    media[n] # NoCall => /\ media[n] = call[n]
                         /\ state[n] = "InCall" \/ ui[n].op = "talk"

\* A node that is not Idle is one party of its call and its peer is the other one,
\* whatever calls, refusals, failures and timeouts came before; an Idle one has neither.
PartyToTheCall(n) ==
    \/ state[n] = "Idle" /\ call[n] = NoCall /\ peer[n] = NoNode
    \/ /\ state[n] # "Idle" /\ call[n] # NoCall /\ peer[n] # n
       /\ {parties[call[n]].from, parties[call[n]].to} = {n, peer[n]}

\* What a node believes hangs together: state, call, peer and engine.  It does so although
\* timers run out between the steps of the handlers, until one of them resets the node in
\* the middle of a handler, or a stale one while it talks; and again from its next call on.
NodeIsConsistent == \A n \in Nodes \ meddled : PartyToTheCall(n) /\ MediaOnlyInCall(n)

\* A timer callback that has become stale does not change the state of the present call.
StaleCallbackDropped ==
    [][\A n \in Nodes : callback[n] = "stale" /\ TimerResets(n) => state'[n] = state[n]]_vars

\* The two states that wait for a timer are left: an unanswered call is given up, and
\* Ended passes, whatever else happens.
WaitingEnds ==
    \A n \in Nodes :
        /\ state[n] = "Calling" ~> state[n] # "Calling"
        /\ state[n] = "Ended" ~> state[n] = "Idle"

\* What the nodes of this specification do is a history of agreed calls: the promises of
\* Agreement are kept through glare, late answers, timeouts, losses and failing engines.
\* A node talks in its call while it is InCall.
talking == [n \in Nodes |-> IF state[n] = "InCall" THEN call[n] ELSE NoCall]

Promise == INSTANCE Agreement WITH agreed <- accepted
CallsAreAgreed == Promise!Spec

=============================================================================
