----------------------------- MODULE RemoteShell -----------------------------
(***************************************************************************)
(* Remote shell sessions (src/src/shell/): the RemoteShellManagers of a    *)
(* set of nodes, the SHELL_* frames between them, the shell processes with *)
(* the threads that read them, and the user's windows.                     *)
(*                                                                         *)
(* A handler holds m_mutex from beginning to end, so it is one action on   *)
(* whichever thread it runs.  A session record's process field stands for  *)
(* inactivityTimer as well: spawnProcess makes both, cleanupSession clears *)
(* both.  SHELL_DATA is left out: all the initiator does with it is to     *)
(* show it, its inactivityTimer being null.  So is an input the receiver   *)
(* refuses: the initiator's sendInput applies the same test before it.     *)
(***************************************************************************)
EXTENDS Naturals, Sequences, FiniteSets

CONSTANTS
    Nodes,
    NoNode,
    kMaxConcurrentSessions,
    MaxRequests,     \* bound: sessions asked for in all
    MaxAnswers,      \* bound: answers to the question for the password in all
    MaxActivity,     \* bound: inputs sent and outputs read in all
    MaxLosses,       \* bound: losses of a link with the frames on it
    MaxStops,        \* bound: nodes that shut down
    WrongPasswords,  \* may the user mistype the password?
    SpawnFails       \* may the shell fail to start?

ASSUME ShellAssumption ==
    /\ NoNode \notin Nodes
    /\ kMaxConcurrentSessions \in Nat
    /\ MaxRequests \in Nat /\ MaxAnswers \in Nat /\ MaxActivity \in Nat
    /\ MaxLosses \in Nat /\ MaxStops \in Nat
    /\ WrongPasswords \in BOOLEAN /\ SpawnFails \in BOOLEAN

Ids == 1 .. MaxRequests

VARIABLES
    sessions,   \* [Nodes -> m_sessions]
    asked,      \* [Ids -> initiator and receiver, once the session has been asked for]
    proc,       \* [Ids -> the shell the receiver started for the session]
    exits,      \* [Nodes -> sessions whose exit the reader thread has posted]
    expired,    \* [Nodes -> timer handlers that are queued and can no longer be cancelled]
    ui,         \* [Nodes -> [Ids -> what the user is shown]]
    alive,      \* the nodes whose manager has not been destroyed
    entered,    \* the sessions for which the initiator's user typed the right password
    silent,     \* history: the sessions whose shell was ended without an event
    net,        \* [Nodes -> [Nodes -> frames from the first to the second]]
    activity, losses, answers

counters == <<activity, losses, answers>>
vars == <<sessions, asked, proc, exits, expired, ui, alive, entered, silent, net, counters>>

SessionData ==
    [role : {"none", "Initiator", "Receiver"}, peer : Nodes \cup {NoNode}, otp : BOOLEAN,
     process : BOOLEAN, armed : BOOLEAN, timerGeneration : Nat]
NoSession == [role |-> "none", peer |-> NoNode, otp |-> FALSE, process |-> FALSE,
              armed |-> FALSE, timerGeneration |-> 0]
Session(r, p) == [NoSession EXCEPT !.role = r, !.peer = p, !.otp = (r = "Receiver")]
Nobody == [from |-> NoNode, to |-> NoNode]

Frames ==
    [type : {"REQUEST", "CHALLENGE", "ACCEPT", "REJECT", "INPUT"}, id : Ids]
        \cup [type : {"RESPONSE"}, id : Ids, right : BOOLEAN]
        \cup [type : {"KILL"}, id : Ids, reason : {"terminated", "exited", "timeout", "failed"}]

Init ==
    /\ sessions = [n \in Nodes |-> [s \in Ids |-> NoSession]]
    /\ asked = [s \in Ids |-> Nobody]
    /\ proc = [s \in Ids |-> "none"]
    /\ exits = [n \in Nodes |-> {}]
    /\ expired = [n \in Nodes |-> {}]
    /\ ui = [n \in Nodes |-> [s \in Ids |-> "closed"]]
    /\ alive = Nodes
    /\ entered = {} /\ silent = {}
    /\ net = [n \in Nodes |-> [m \in Nodes |-> <<>>]]
    /\ activity = 0
    /\ losses = 0
    /\ answers = 0

-----------------------------------------------------------------------------

Exists(n, s) == sessions[n][s].role # "none"
Open(n) == {s \in Ids : Exists(n, s)}
Full(n) == Cardinality(Open(n)) >= kMaxConcurrentSessions

Msg(t, s) == [type |-> t, id |-> s]
KillMsg(s, r) == [type |-> "KILL", id |-> s, reason |-> r]

\* Frames for a node that has shut down go nowhere.
Send(w, n, m, fs) == IF m \in alive THEN [w EXCEPT ![n][m] = @ \o fs] ELSE w

Put(n, s, sd) == sessions' = [sessions EXCEPT ![n][s] = sd]
Emplace(n, s, sd) == IF Exists(n, s) THEN UNCHANGED sessions ELSE Put(n, s, sd)
Show(n, s, v) == ui' = [ui EXCEPT ![n][s] = v]

\* ShellProcess::kill: SIGKILL to m_pid; the process stays a zombie until the reader
\* thread, now detached, has waited for it.
Killed(p) == IF p = "running" THEN "zombie" ELSE p

\* cleanupSession.  The handlers of a timer that has run out stay queued.
EraseOnly(n, s) == Put(n, s, NoSession) /\ UNCHANGED proc
CleanupSession(n, s) ==
    /\ Put(n, s, NoSession)
    /\ proc' = IF sessions[n][s].process THEN [proc EXCEPT ![s] = Killed(@)] ELSE proc

\* cleanupSession with no event to go with it.
EndSilently(n, s) ==
    /\ CleanupSession(n, s)
    /\ silent' = IF sessions[n][s].process THEN silent \cup {s} ELSE silent

\* resetInactivityTimer, for a session whose timer exists.
Rearmed(sd) == [sd EXCEPT !.armed = TRUE, !.timerGeneration = @ + 1]

\* spawnProcess.
NeverTimed(sd) == [sd EXCEPT !.otp = FALSE, !.process = TRUE]
Spawned(sd) == Rearmed([sd EXCEPT !.otp = FALSE, !.process = TRUE])

\* ShellProcess::start: the process and its reader thread.
ShellStarts(s) == proc' = [proc EXCEPT ![s] = "running"]

\* Ends a session with a SHELL_KILL to the peer and onSessionEnded here.
EndUnreported(w, n, s, reason) ==
    /\ net' = Send(w, n, sessions[n][s].peer, <<KillMsg(s, reason)>>)
    /\ CleanupSession(n, s)
    /\ UNCHANGED ui
End(w, n, s, reason) ==
    /\ net' = Send(w, n, sessions[n][s].peer, <<KillMsg(s, reason)>>)
    /\ CleanupSession(n, s)
    /\ Show(n, s, "closed")

-----------------------------------------------------------------------------
(* The user, who learns of a session only through an event with its id. *)

RequestShell(n, p) ==
    /\ n \in alive /\ p # n /\ ~Full(n)
    /\ \E s \in Ids :
          /\ asked[s] = Nobody
          /\ \A r \in 1 .. s - 1 : asked[r] # Nobody
          /\ asked' = [asked EXCEPT ![s] = [from |-> n, to |-> p]]
          /\ Put(n, s, Session("Initiator", p))
          /\ net' = Send(net, n, p, <<Msg("REQUEST", s)>>)
    /\ UNCHANGED <<proc, exits, expired, ui, alive, entered, silent, counters>>

\* The receiver's user closes the dialog, perhaps when the shell runs already.
RejectRequest(n, s) ==
    /\ ui[n][s] = "otp" \/ (ui[n][s] = "monitor" /\ Exists(n, s))
    /\ ui' = IF ui[n][s] = "otp" THEN [ui EXCEPT ![n][s] = "closed"] ELSE ui
    /\ \/ /\ Exists(n, s)
          /\ net' = Send(net, n, sessions[n][s].peer, <<Msg("REJECT", s)>>)
          /\ EndSilently(n, s)
       \/ ~Exists(n, s) /\ UNCHANGED <<net, sessions, proc, silent>>
    /\ UNCHANGED <<asked, exits, expired, alive, entered, counters>>

\* Nothing keeps the user from answering again.
RespondToChallenge(n, s, right) ==
    /\ ui[n][s] \in {"password", "answered", "window"} /\ sessions[n][s].role = "Initiator"
    /\ answers < MaxAnswers
    /\ answers' = answers + 1
    /\ ui' = IF ui[n][s] = "password" THEN [ui EXCEPT ![n][s] = "answered"] ELSE ui
    /\ entered' = IF right THEN entered \cup {s} ELSE entered
    /\ net' = Send(net, n, sessions[n][s].peer,
                   <<[type |-> "RESPONSE", id |-> s, right |-> right]>>)
    /\ UNCHANGED <<sessions, asked, proc, exits, expired, alive, silent, activity, losses>>

KillSession(n, s) ==
    /\ ui[n][s] # "closed" /\ Exists(n, s)
    /\ End(net, n, s, "terminated")
    /\ UNCHANGED <<asked, exits, expired, alive, entered, silent, counters>>

\* An input that matches a forbidden pattern ends in killSession instead.
SendInput(n, s) ==
    /\ ui[n][s] = "window" /\ sessions[n][s].role = "Initiator"
    /\ activity < MaxActivity
    /\ activity' = activity + 1
    /\ net' = Send(net, n, sessions[n][s].peer, <<Msg("INPUT", s)>>)
    /\ UNCHANGED <<sessions, asked, proc, exits, expired, ui, alive, entered, silent>>
    /\ UNCHANGED <<losses, answers>>

-----------------------------------------------------------------------------
(* handleSignaling and handleDecryptedData. *)

Arrives(m, n, t) == n \in alive /\ net[m][n] # <<>> /\ Head(net[m][n]).type = t
Rest(m, n) == [net EXCEPT ![m][n] = Tail(@)]
Named(m, n) == Head(net[m][n]).id
Role(m, n) == sessions[n][Named(m, n)].role

BusyInSilence(m, n) ==
    /\ Arrives(m, n, "REQUEST") /\ Full(n)
    /\ net' = Rest(m, n)
    /\ UNCHANGED <<sessions, asked, proc, exits, expired, ui, alive, entered, silent, counters>>
OnRequestBusy(m, n) ==
    /\ Arrives(m, n, "REQUEST") /\ Full(n)
    /\ net' = Send(Rest(m, n), n, m, <<Msg("REJECT", Named(m, n))>>)
    /\ UNCHANGED <<sessions, asked, proc, exits, expired, ui, alive, entered, silent, counters>>

OnRequest(m, n) ==
    /\ Arrives(m, n, "REQUEST") /\ ~Full(n)
    /\ Emplace(n, Named(m, n), Session("Receiver", m))
    /\ Show(n, Named(m, n), "otp")
    /\ net' = Send(Rest(m, n), n, m, <<Msg("CHALLENGE", Named(m, n))>>)
    /\ UNCHANGED <<asked, proc, exits, expired, alive, entered, silent, counters>>

OnChallenge(m, n) ==
    /\ Arrives(m, n, "CHALLENGE") /\ Role(m, n) = "Initiator"
    /\ Show(n, Named(m, n), "password")
    /\ net' = Rest(m, n)
    /\ UNCHANGED <<sessions, asked, proc, exits, expired, alive, entered, silent, counters>>

AnyPassword(n, f) == sessions[n][f.id].otp
Matches(n, f) == f.right /\ sessions[n][f.id].otp

\* SHELL_ACCEPT goes out before the process is started.
OnResponse(m, n) ==
    /\ Arrives(m, n, "RESPONSE") /\ Role(m, n) = "Receiver"
    /\ LET s == Named(m, n) IN
       \/ /\ ~Matches(n, Head(net[m][n]))
          /\ net' = Send(Rest(m, n), n, m, <<Msg("REJECT", s)>>)
          /\ EndSilently(n, s)
          /\ UNCHANGED ui
       \/ /\ Matches(n, Head(net[m][n]))
          /\ net' = Send(Rest(m, n), n, m, <<Msg("ACCEPT", s)>>)
          /\ ShellStarts(s)
          /\ Put(n, s, Spawned(sessions[n][s]))
          /\ Show(n, s, "monitor")
          /\ UNCHANGED silent
       \/ /\ Matches(n, Head(net[m][n])) /\ SpawnFails
          /\ net' = Send(Rest(m, n), n, m, <<Msg("ACCEPT", s), KillMsg(s, "failed")>>)
          /\ Put(n, s, NoSession)
          /\ Show(n, s, "closed")
          /\ UNCHANGED <<proc, silent>>
    /\ UNCHANGED <<asked, exits, expired, alive, entered, counters>>

OnAccept(m, n) ==
    /\ Arrives(m, n, "ACCEPT") /\ Role(m, n) = "Initiator"
    /\ Show(n, Named(m, n), "window")
    /\ net' = Rest(m, n)
    /\ UNCHANGED <<sessions, asked, proc, exits, expired, alive, entered, silent, counters>>

\* Both clean up and report, whatever the role.
OnRejectOrKill(m, n) ==
    /\ Arrives(m, n, "REJECT") \/ Arrives(m, n, "KILL")
    /\ Role(m, n) # "none"
    /\ CleanupSession(n, Named(m, n))
    /\ Show(n, Named(m, n), "closed")
    /\ net' = Rest(m, n)
    /\ UNCHANGED <<asked, exits, expired, alive, entered, silent, counters>>

OnInput(m, n) ==
    /\ Arrives(m, n, "INPUT")
    /\ LET s == Named(m, n) IN
       /\ Role(m, n) = "Receiver" /\ sessions[n][s].process
       /\ Put(n, s, Rearmed(sessions[n][s]))
    /\ net' = Rest(m, n)
    /\ UNCHANGED <<asked, proc, exits, expired, ui, alive, entered, silent, counters>>

\* A frame about a session that is not there, or not in this role.
Ignore(m, n) ==
    /\ \/ (Arrives(m, n, "CHALLENGE") \/ Arrives(m, n, "ACCEPT")) /\ Role(m, n) # "Initiator"
       \/ Arrives(m, n, "RESPONSE") /\ Role(m, n) # "Receiver"
       \/ Arrives(m, n, "INPUT") /\ ~sessions[n][Named(m, n)].process
       \/ (Arrives(m, n, "REJECT") \/ Arrives(m, n, "KILL")) /\ Role(m, n) = "none"
    /\ net' = Rest(m, n)
    /\ UNCHANGED <<sessions, asked, proc, exits, expired, ui, alive, entered, silent, counters>>

-----------------------------------------------------------------------------
(* The process with its reader thread, the timer, and what they post to the io thread. *)

Dies(s) ==
    /\ proc[s] = "running"
    /\ proc' = [proc EXCEPT ![s] = "zombie"]
    /\ UNCHANGED <<sessions, asked, exits, expired, ui, alive, entered, silent, net, counters>>

\* The reader thread comes to the end of the output, waits for the process and calls
\* onExit, which posts through the manager.
Reap(s) ==
    /\ proc[s] = "zombie"
    /\ proc' = [proc EXCEPT ![s] = "reaped"]
    /\ exits' = [exits EXCEPT ![asked[s].to] = @ \cup {s}]
    /\ UNCHANGED <<sessions, asked, expired, ui, alive, entered, silent, net, counters>>

OnExit(n, s) ==
    /\ n \in alive /\ s \in exits[n]
    /\ exits' = [exits EXCEPT ![n] = @ \ {s}]
    /\ \/ Exists(n, s) /\ End(net, n, s, "exited")
       \/ ~Exists(n, s) /\ UNCHANGED <<sessions, proc, ui, net>>
    /\ UNCHANGED <<asked, expired, alive, entered, silent, counters>>

\* Of an output, that it rearms the timer.
OnOutput(n, s) ==
    /\ sessions[n][s].process
    /\ activity < MaxActivity
    /\ activity' = activity + 1
    /\ Put(n, s, Rearmed(sessions[n][s]))
    /\ UNCHANGED <<asked, proc, exits, expired, ui, alive, entered, silent, net, losses, answers>>

TimerExpires(n, s) ==
    /\ sessions[n][s].armed
    /\ Put(n, s, [sessions[n][s] EXCEPT !.armed = FALSE])
    /\ expired' = [expired EXCEPT ![n] = @ \cup {<<s, sessions[n][s].timerGeneration>>}]
    /\ UNCHANGED <<asked, proc, exits, ui, alive, entered, silent, net, counters>>

AnyTimer(n, e) == Exists(n, e[1])
Current(n, e) == Exists(n, e[1]) /\ sessions[n][e[1]].timerGeneration = e[2]

OnTimer(n) ==
    /\ n \in alive
    /\ \E e \in expired[n] :
          /\ expired' = [expired EXCEPT ![n] = @ \ {e}]
          /\ \/ Current(n, e) /\ End(net, n, e[1], "timeout")
             \/ ~Current(n, e) /\ UNCHANGED <<sessions, proc, ui, net>>
    /\ UNCHANGED <<asked, exits, alive, entered, silent, counters>>

-----------------------------------------------------------------------------

\* ~App: the manager is destroyed with its sessions, and the process soon ends.
Stop(n) ==
    /\ n \in alive /\ Cardinality(Nodes \ alive) < MaxStops
    /\ alive' = alive \ {n}
    /\ proc' = [s \in Ids |-> IF sessions[n][s].process THEN Killed(proc[s]) ELSE proc[s]]
    /\ sessions' = [sessions EXCEPT ![n] = [s \in Ids |-> NoSession]]
    /\ ui' = [ui EXCEPT ![n] = [s \in Ids |-> "closed"]]
    /\ expired' = [expired EXCEPT ![n] = {}]
    /\ net' = [m \in Nodes |-> [net[m] EXCEPT ![n] = <<>>]]
    /\ UNCHANGED <<asked, exits, entered, silent, counters>>

LoseLink(n, m) ==
    /\ losses < MaxLosses
    /\ net[n][m] # <<>> \/ net[m][n] # <<>>
    /\ losses' = losses + 1
    /\ net' = [net EXCEPT ![n][m] = <<>>, ![m][n] = <<>>]
    /\ UNCHANGED <<sessions, asked, proc, exits, expired, ui, alive, entered, silent>>
    /\ UNCHANGED <<activity, answers>>

User(n) ==
    \/ \E p \in Nodes : RequestShell(n, p)
    \/ \E s \in Ids : RejectRequest(n, s) \/ KillSession(n, s) \/ SendInput(n, s)

Answer(n, s) ==
    \/ RespondToChallenge(n, s, TRUE)
    \/ WrongPasswords /\ RespondToChallenge(n, s, FALSE)

Receive(m, n) ==
    \/ OnRequestBusy(m, n) \/ OnRequest(m, n) \/ OnChallenge(m, n) \/ OnResponse(m, n)
    \/ OnAccept(m, n) \/ OnRejectOrKill(m, n) \/ OnInput(m, n) \/ Ignore(m, n)

Next ==
    \/ \E n \in Nodes : User(n) \/ OnTimer(n) \/ Stop(n)
    \/ \E n \in Nodes, s \in Ids :
          Answer(n, s) \/ OnExit(n, s) \/ OnOutput(n, s) \/ TimerExpires(n, s)
    \/ \E s \in Ids : Dies(s) \/ Reap(s)
    \/ \E m, n \in Nodes : Receive(m, n) \/ LoseLink(m, n)

Spec == Init /\ [][Next]_vars

\* Frames arrive, timers run out, threads run.  The user need not do anything, and a
\* shell need not exit.
FairSpec ==
    /\ Spec
    /\ \A n \in Nodes : WF_vars(OnTimer(n))
    /\ \A m, n \in Nodes : WF_vars(Receive(m, n))
    /\ \A n \in Nodes, s \in Ids : WF_vars(OnExit(n, s)) /\ WF_vars(TimerExpires(n, s))
    /\ \A s \in Ids : WF_vars(Reap(s))

-----------------------------------------------------------------------------
(* Properties. *)

\* The variables have their types.
TypeOK ==
    /\ sessions \in [Nodes -> [Ids -> SessionData]]
    /\ asked \in [Ids -> [from : Nodes, to : Nodes] \cup {Nobody}]
    /\ proc \in [Ids -> {"none", "running", "zombie", "reaped"}]
    /\ exits \in [Nodes -> SUBSET Ids]
    /\ expired \in [Nodes -> SUBSET (Ids \X Nat)]
    /\ ui \in [Nodes -> [Ids -> {"closed", "otp", "password", "answered", "window", "monitor"}]]
    /\ alive \subseteq Nodes
    /\ entered \subseteq Ids /\ silent \subseteq Ids
    /\ net \in [Nodes -> [Nodes -> Seq(Frames)]]
    /\ activity \in 0 .. MaxActivity
    /\ losses \in 0 .. MaxLosses /\ answers \in 0 .. MaxAnswers

\* No shell outlives its session: while one runs, its receiver's manager is there and holds
\* the session with the process, whichever way sessions were refused, killed, timed out.
ProcessHasSession ==
    \A s \in Ids : proc[s] = "running" => sessions[asked[s].to][s].process

\* A shell has been started only for a session whose initiator typed the right password.
RunsAfterPassword == \A s \in Ids : proc[s] # "none" => s \in entered

\* No node runs more shells than sessions allowed, processes that are being killed aside.
ShellsBounded ==
    \A n \in Nodes :
        Cardinality({s \in Ids : proc[s] = "running" /\ asked[s].to = n}) <= kMaxConcurrentSessions

\* No link has failed and no node has stopped: neither tells the other side anything.
Calm == losses = 0 /\ alive = Nodes

\* Whatever ended a session has closed what the user was shown of it (onRejected,
\* onSessionEnded): no question for the password and no window is left without its session.
\* The dialog that shows the receiver the password stays open after a wrong one
\* (remoteshellmanager.cpp:251), and so does the receiver's window when a shell that runs is
\* ended by a further answer or by a late rejectRequest (:251, :91).
EndIsReported ==
    \A n \in Nodes, s \in Ids :
        ui[n][s] \notin {"closed", "otp"} /\ (ui[n][s] = "monitor" => s \notin silent) =>
            Exists(n, s)

\* A session is timed out only if nothing has gone through it since its timer ran out, even
\* if the timer's handler was queued before.
ActiveIsNotTimedOut ==
    [][\A n, m \in Nodes, s \in Ids :
          /\ Len(net'[n][m]) > Len(net[n][m])
          /\ net'[n][m][Len(net'[n][m])] = KillMsg(s, "timeout")
          => ~sessions[n][s].armed]_vars

\* A session that only one of the two has will be had by both or by neither.
OneSided(s) == asked[s] # Nobody /\ (Exists(asked[s].from, s) # Exists(asked[s].to, s))
BothOrNeither == \A s \in Ids : OneSided(s) ~> (~OneSided(s) \/ ~Calm)

\* A shell nobody uses any more is ended.
SilentShellEnds == \A s \in Ids : proc[s] = "running" ~> proc[s] # "running"

=============================================================================
