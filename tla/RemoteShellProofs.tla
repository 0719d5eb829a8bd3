-------------------------- MODULE RemoteShellProofs --------------------------
(* Theorems about RemoteShell, for every set of nodes, every limit on the  *)
(* sessions of a node and every bound, whatever is lost, mistyped or fails: *)
(* who has a shell (NoOrphanShell, PasswordFirst, FewShells), what users    *)
(* are shown of a session, and when it may be timed out.                    *)
EXTENDS RemoteShell, FiniteSetTheorems, TLAPS

USE DEF counters

Networks == [Nodes -> [Nodes -> Seq(Frames)]]

-----------------------------------------------------------------------------
(* The inductive invariant.  A frame is about a session that was asked for; *)
(* a request goes to the receiver and a right password was typed.           *)

Known(n, a, e) ==
    {f \in Frames : /\ a[f.id] # Nobody
                    /\ f.type = "REQUEST" => a[f.id].to = n
                    /\ f.type = "RESPONSE" => (f.right => f.id \in e)}

NetInv(w, a, e) ==
    /\ w \in Networks
    /\ \A m, n \in Nodes : w[m][n] \in Seq(Known(n, a, e))

\* A session is with a peer that asked for it or was asked; its password is gone when its
\* process is there.
SessionTrue(sd, n, s, a) ==
    /\ sd.role # "none" => a[s] # Nobody /\ sd.peer \in Nodes
    /\ sd.role = "Receiver" => a[s].to = n
    /\ sd.otp => sd.role = "Receiver"
    /\ sd.process => sd.role = "Receiver" /\ ~sd.otp
    /\ sd.armed => sd.process

SessionsInv ==
    /\ sessions \in [Nodes -> [Ids -> SessionData]]
    /\ asked \in [Ids -> [from : Nodes, to : Nodes] \cup {Nobody}]
    /\ \A n \in Nodes, s \in Ids : SessionTrue(sessions[n][s], n, s, asked)

SlotsInv == \A n \in Nodes : Cardinality(Open(n)) <= kMaxConcurrentSessions

ProcInv ==
    /\ proc \in [Ids -> {"none", "running", "zombie", "reaped"}]
    /\ entered \subseteq Ids
    /\ \A s \in Ids :
          /\ proc[s] # "none" => asked[s] # Nobody /\ s \in entered
          /\ proc[s] = "running" => sessions[asked[s].to][s].process

Core == SessionsInv /\ SlotsInv /\ ProcInv

Others ==
    /\ exits \in [Nodes -> SUBSET Ids]
    /\ expired \in [Nodes -> SUBSET (Ids \X Nat)]
    /\ ui \in [Nodes -> [Ids -> {"closed", "otp", "password", "answered", "window", "monitor"}]]
    /\ alive \subseteq Nodes /\ silent \subseteq Ids
    /\ activity \in 0 .. MaxActivity
    /\ losses \in 0 .. MaxLosses /\ answers \in 0 .. MaxAnswers

IInv == Core /\ NetInv(net, asked, entered) /\ Others

\* What no step takes back.
Grown ==
    /\ entered \subseteq entered'
    /\ \A s \in Ids : asked[s] # Nobody => asked'[s] = asked[s]

-----------------------------------------------------------------------------
(* Frames. *)

LEMMA SeqMonotone ==
    ASSUME NEW S, NEW T, S \subseteq T, NEW q \in Seq(S)
    PROVE  q \in Seq(T)
OBVIOUS

LEMMA NetGrown ==
    ASSUME NEW w, NetInv(w, asked, entered), Grown
    PROVE  NetInv(w, asked', entered')
<1> SUFFICES ASSUME NEW m \in Nodes, NEW n \in Nodes
             PROVE  w[m][n] \in Seq(Known(n, asked', entered'))
  BY DEF NetInv
<1>1. ASSUME NEW f \in Known(n, asked, entered) PROVE f \in Known(n, asked', entered')
  <2>1. f \in Frames /\ f.id \in Ids
    BY DEF Known, Frames
  <2> QED
    BY <2>1 DEF Known, Grown
<1>2. Known(n, asked, entered) \subseteq Known(n, asked', entered')
  BY <1>1
<1>3. w[m][n] \in Seq(Known(n, asked, entered))
  BY DEF NetInv
<1> QED
  BY <1>2, <1>3, SeqMonotone

LEMMA NetSend ==
    ASSUME NEW w, NEW a, NEW e, NetInv(w, a, e), NEW n \in Nodes, NEW m \in Nodes,
           NEW fs \in Seq(Known(m, a, e))
    PROVE  NetInv(Send(w, n, m, fs), a, e)
<1> DEFINE v == Send(w, n, m, fs)
<1>1. CASE m \notin alive
  BY <1>1 DEF Send
<1>2. CASE m \in alive
  <2>1. v = [w EXCEPT ![n][m] = @ \o fs]
    BY <1>2 DEF Send
  <2>2. w[n][m] \in Seq(Known(m, a, e)) /\ w \in Networks
    BY DEF NetInv
  <2>3. w[n][m] \o fs \in Seq(Known(m, a, e))
    BY <2>2
  <2>4. Known(m, a, e) \subseteq Frames
    BY DEF Known
  <2>5. w[n][m] \o fs \in Seq(Frames)
    BY <2>3, <2>4, SeqMonotone
  <2>6. v \in Networks
    BY <2>1, <2>2, <2>5 DEF Networks
  <2>7. ASSUME NEW p \in Nodes, NEW q \in Nodes PROVE v[p][q] \in Seq(Known(q, a, e))
    <3>1. v[p][q] = IF p = n /\ q = m THEN w[n][m] \o fs ELSE w[p][q]
      BY <2>1, <2>2 DEF Networks
    <3> QED
      BY <2>3, <3>1 DEF NetInv
  <2> QED
    BY <2>6, <2>7 DEF NetInv
<1> QED
  BY <1>1, <1>2

LEMMA NetRest ==
    ASSUME NEW a, NEW e, NetInv(net, a, e), NEW m \in Nodes, NEW n \in Nodes, net[m][n] # <<>>
    PROVE  /\ NetInv(Rest(m, n), a, e)
           /\ Head(net[m][n]) \in Known(n, a, e)
           /\ Named(m, n) \in Ids
<1> DEFINE v == Rest(m, n)
<1>1. net[m][n] \in Seq(Known(n, a, e)) /\ net \in Networks /\ net[m][n] \in Seq(Frames)
  BY DEF NetInv, Networks
<1>2. Tail(net[m][n]) \in Seq(Known(n, a, e)) /\ Tail(net[m][n]) \in Seq(Frames)
  BY <1>1
<1>3. Head(net[m][n]) \in Known(n, a, e)
  BY <1>1
<1>4. v \in Networks
  BY <1>1, <1>2 DEF Rest, Networks
<1>5. ASSUME NEW p \in Nodes, NEW q \in Nodes PROVE v[p][q] \in Seq(Known(q, a, e))
  <2>1. v[p][q] = IF p = m /\ q = n THEN Tail(net[m][n]) ELSE net[p][q]
    BY <1>1 DEF Rest, Networks
  <2> QED
    BY <1>2, <2>1 DEF NetInv
<1>6. Head(net[m][n]).id \in Ids
  BY <1>3 DEF Known, Frames
<1> QED
  BY <1>3, <1>4, <1>5, <1>6 DEF NetInv, Named

\* Frames that are neither requests nor right answers need only be of a known session.
LEMMA PlainFrames ==
    ASSUME NEW a, NEW e, NEW n, NEW s \in Ids, a[s] # Nobody
    PROVE  /\ \A t \in {"CHALLENGE", "ACCEPT", "REJECT", "INPUT"} :
                 <<Msg(t, s)>> \in Seq(Known(n, a, e))
           /\ \A r \in {"terminated", "exited", "timeout", "failed"} :
                 /\ <<KillMsg(s, r)>> \in Seq(Known(n, a, e))
                 /\ <<Msg("ACCEPT", s), KillMsg(s, r)>> \in Seq(Known(n, a, e))
<1>1. ASSUME NEW t \in {"CHALLENGE", "ACCEPT", "REJECT", "INPUT"}
      PROVE  Msg(t, s) \in Known(n, a, e)
  BY DEF Msg, Known, Frames
<1>2. ASSUME NEW r \in {"terminated", "exited", "timeout", "failed"}
      PROVE  KillMsg(s, r) \in Known(n, a, e)
  BY DEF KillMsg, Known, Frames
<1> QED
  BY <1>1, <1>2

-----------------------------------------------------------------------------
(* Sessions and processes. *)

LEMMA OpenFinite ==
    ASSUME NEW n \in Nodes
    PROVE  IsFiniteSet(Open(n)) /\ Cardinality(Open(n)) \in Nat
<1>1. IsFiniteSet(Ids)
  BY ShellAssumption, FS_Interval DEF Ids
<1>2. IsFiniteSet(Open(n))
  BY <1>1, FS_Subset DEF Open
<1> QED
  BY <1>2, FS_CardinalityType

\* One session takes another value: a slot is filled only where there is one.
LEMMA CorePut ==
    ASSUME Core, NEW n \in Nodes, NEW s \in Ids, NEW sd \in SessionData, Put(n, s, sd),
           asked' \in [Ids -> [from : Nodes, to : Nodes] \cup {Nobody}], Grown,
           SessionTrue(sd, n, s, asked'),
           \/ Exists(n, s) \/ sd.role = "none" \/ ~Full(n),
           ProcInv'
    PROVE  Core'
<1>0. sessions' = [sessions EXCEPT ![n][s] = sd] /\ sessions \in [Nodes -> [Ids -> SessionData]]
  BY DEF Put, Core, SessionsInv
<1>1. \A p \in Nodes, t \in Ids :
         sessions'[p][t] = IF p = n /\ t = s THEN sd ELSE sessions[p][t]
  BY <1>0
<1>2. SessionsInv'
  <2>1. sessions' \in [Nodes -> [Ids -> SessionData]]
    BY <1>0
  <2>2. ASSUME NEW p \in Nodes, NEW t \in Ids PROVE SessionTrue(sessions'[p][t], p, t, asked')
    <3>1. CASE p = n /\ t = s
      BY <1>1, <3>1
    <3>2. CASE ~(p = n /\ t = s)
      <4>1. SessionTrue(sessions[p][t], p, t, asked) /\ sessions'[p][t] = sessions[p][t]
        BY <1>1, <3>2 DEF Core, SessionsInv
      <4> QED
        BY <4>1 DEF SessionTrue, Grown
    <3> QED
      BY <3>1, <3>2
  <2> QED
    BY <2>1, <2>2 DEF SessionsInv
<1>3. SlotsInv'
  <2> SUFFICES ASSUME NEW p \in Nodes PROVE Cardinality(Open(p)') <= kMaxConcurrentSessions
    BY DEF SlotsInv
  <2>1. Cardinality(Open(p)) <= kMaxConcurrentSessions
    BY DEF Core, SlotsInv
  <2>2. CASE p = n /\ ~Full(n)
    <3>1. Open(n)' \subseteq Open(n) \cup {s}
      BY <1>1 DEF Open, Exists
    <3>2. /\ IsFiniteSet(Open(n) \cup {s})
          /\ Cardinality(Open(n) \cup {s}) <= Cardinality(Open(n)) + 1
      <4>1. IsFiniteSet(Open(n)) /\ Cardinality(Open(n)) \in Nat
        BY OpenFinite
      <4>2. /\ IsFiniteSet(Open(n) \cup {s})
            /\ \/ Cardinality(Open(n) \cup {s}) = Cardinality(Open(n))
               \/ Cardinality(Open(n) \cup {s}) = Cardinality(Open(n)) + 1
        BY <4>1, FS_AddElement, Zenon
      <4> QED
        BY <4>1, <4>2
    <3>3. Cardinality(Open(n)') <= Cardinality(Open(n) \cup {s})
      BY <3>1, <3>2, FS_Subset
    <3>4. ~(Cardinality(Open(n)) >= kMaxConcurrentSessions)
      BY <2>2, OpenFinite, ShellAssumption DEF Full
    <3>5. Cardinality(Open(n)') \in Nat /\ Cardinality(Open(n) \cup {s}) \in Nat
      BY <3>1, <3>2, FS_Subset, FS_CardinalityType
    <3> QED
      BY <2>2, <3>2, <3>3, <3>4, <3>5, OpenFinite, ShellAssumption
  <2>3. CASE p # n \/ Exists(n, s) \/ sd.role = "none"
    <3>1. Open(p)' \subseteq Open(p)
      BY <1>1, <2>3 DEF Open, Exists
    <3>2. Cardinality(Open(p)') <= Cardinality(Open(p)) /\ Cardinality(Open(p)') \in Nat
      BY <3>1, OpenFinite, FS_Subset, FS_CardinalityType
    <3> QED
      BY <2>1, <3>2, OpenFinite, ShellAssumption
  <2> QED
    BY <2>2, <2>3
<1> QED
  BY <1>2, <1>3 DEF Core

LEMMA NoSessionTrue ==
    ASSUME NEW n, NEW s, NEW a
    PROVE  NoSession \in SessionData /\ SessionTrue(NoSession, n, s, a)
BY DEF NoSession, SessionData, SessionTrue

\* A process whose session is ended does not go on running.
LEMMA CoreCleanup ==
    ASSUME Core, NEW n \in Nodes, NEW s \in Ids, CleanupSession(n, s), UNCHANGED <<asked, entered>>
    PROVE  Core' /\ Grown
<1>1. Grown
  BY DEF Grown
<1>2. ProcInv'
  <2>0. /\ sessions' = [sessions EXCEPT ![n][s] = NoSession]
        /\ sessions \in [Nodes -> [Ids -> SessionData]]
        /\ asked \in [Ids -> [from : Nodes, to : Nodes] \cup {Nobody}]
        /\ proc \in [Ids -> {"none", "running", "zombie", "reaped"}]
        /\ proc' = IF sessions[n][s].process THEN [proc EXCEPT ![s] = Killed(@)] ELSE proc
    BY DEF CleanupSession, Put, Core, SessionsInv, ProcInv
  <2>1. proc' \in [Ids -> {"none", "running", "zombie", "reaped"}]
    BY <2>0 DEF Killed
  <2>2. ASSUME NEW t \in Ids, proc'[t] # "none" PROVE asked[t] # Nobody /\ t \in entered
    <3>1. proc[t] # "none"
      BY <2>0, <2>2 DEF Killed
    <3> QED
      BY <3>1 DEF Core, ProcInv
  <2>3. ASSUME NEW t \in Ids, proc'[t] = "running" PROVE sessions'[asked[t].to][t].process
    <3>1. proc[t] = "running" /\ ~(t = s /\ sessions[n][s].process)
      BY <2>0, <2>3 DEF Killed
    <3>2. sessions[asked[t].to][t].process /\ asked[t].to \in Nodes
      BY <2>0, <3>1 DEF Core, ProcInv
    <3> QED
      BY <2>0, <3>1, <3>2
  <2> QED
    BY <2>1, <2>2, <2>3 DEF Core, ProcInv, CleanupSession
<1>3. Put(n, s, NoSession) /\ NoSession.role = "none"
  BY DEF CleanupSession, NoSession
<1>4. asked' \in [Ids -> [from : Nodes, to : Nodes] \cup {Nobody}]
  BY DEF Core, SessionsInv
<1> QED
  BY <1>1, <1>2, <1>3, <1>4, NoSessionTrue, CorePut

LEMMA CoreKept ==
    ASSUME Core, UNCHANGED <<sessions, asked, proc>>, entered \subseteq entered', entered' \subseteq Ids
    PROVE  Core' /\ Grown
BY DEF Core, SessionsInv, SlotsInv, ProcInv, Open, Exists, Grown

\* A session that keeps its process, and the processes as they are.
LEMMA CoreUpdate ==
    ASSUME Core, NEW n \in Nodes, NEW s \in Ids, NEW sd \in SessionData, Put(n, s, sd),
           UNCHANGED <<asked, entered, proc>>, Exists(n, s),
           SessionTrue(sd, n, s, asked), sd.process = sessions[n][s].process
    PROVE  Core' /\ Grown
<1>1. Grown
  BY DEF Grown
<1>2. ProcInv'
  <2>0. /\ sessions' = [sessions EXCEPT ![n][s] = sd]
        /\ sessions \in [Nodes -> [Ids -> SessionData]]
        /\ asked \in [Ids -> [from : Nodes, to : Nodes] \cup {Nobody}]
    BY DEF Put, Core, SessionsInv
  <2>1. ASSUME NEW t \in Ids, proc[t] = "running" PROVE sessions'[asked[t].to][t].process
    <3>1. sessions[asked[t].to][t].process /\ asked[t].to \in Nodes
      BY <2>0, <2>1 DEF Core, ProcInv
    <3> QED
      BY <2>0, <3>1
  <2> QED
    BY <2>1 DEF Core, ProcInv
<1>3. asked' \in [Ids -> [from : Nodes, to : Nodes] \cup {Nobody}]
  BY DEF Core, SessionsInv
<1> QED
  BY <1>1, <1>2, <1>3, CorePut

-----------------------------------------------------------------------------
(* One lemma for each action. *)

LEMMA StepInv ==
    ASSUME IInv, Core', Grown, NetInv(net', asked, entered), Others'
    PROVE  IInv'
BY NetGrown DEF IInv

\* A session that exists is with a node and was asked for.
LEMMA Peer ==
    ASSUME Core, NEW n \in Nodes, NEW s \in Ids, Exists(n, s)
    PROVE  sessions[n][s].peer \in Nodes /\ asked[s] # Nobody
BY DEF Core, SessionsInv, SessionTrue, Exists

LEMMA EndStep ==
    ASSUME IInv, NEW n \in Nodes, NEW s \in Ids, Exists(n, s), UNCHANGED <<asked, entered>>,
           NEW r \in {"terminated", "exited", "timeout", "failed"}, End(net, n, s, r)
    PROVE  /\ Core' /\ Grown /\ NetInv(net', asked, entered)
           /\ ui' = [ui EXCEPT ![n][s] = "closed"]
<1> USE DEF IInv
<1>1. Core' /\ Grown
  BY CoreCleanup DEF End
<1>2. sessions[n][s].peer \in Nodes /\ asked[s] # Nobody
  BY Peer
<1>3. <<KillMsg(s, r)>> \in Seq(Known(sessions[n][s].peer, asked, entered))
  BY <1>2, PlainFrames
<1>4. NetInv(Send(net, n, sessions[n][s].peer, <<KillMsg(s, r)>>), asked, entered)
  BY <1>2, <1>3, NetSend
<1> QED
  BY <1>1, <1>4 DEF End, Show

LEMMA RequestShellStep ==
    ASSUME IInv, NEW n \in Nodes, NEW p \in Nodes, RequestShell(n, p)
    PROVE  IInv'
<1> USE DEF IInv
<1>0. PICK s \in Ids :
        /\ asked[s] = Nobody
        /\ asked' = [asked EXCEPT ![s] = [from |-> n, to |-> p]]
        /\ Put(n, s, Session("Initiator", p))
        /\ net' = Send(net, n, p, <<Msg("REQUEST", s)>>)
  BY DEF RequestShell
<1> DEFINE sd == Session("Initiator", p)
<1>1. /\ UNCHANGED <<proc, exits, expired, ui, alive, entered, silent, counters>>
      /\ ~Full(n)
  BY DEF RequestShell
<1>2. asked \in [Ids -> [from : Nodes, to : Nodes] \cup {Nobody}]
  BY DEF Core, SessionsInv
<1>3. /\ asked' \in [Ids -> [from : Nodes, to : Nodes] \cup {Nobody}]
      /\ Grown
      /\ asked'[s] # Nobody /\ asked'[s].to = p
      /\ \A t \in Ids \ {s} : asked'[t] = asked[t]
  BY <1>0, <1>1, <1>2, ShellAssumption DEF Grown, Nobody
<1>4. sd \in SessionData /\ SessionTrue(sd, n, s, asked')
  BY <1>3 DEF Session, NoSession, SessionData, SessionTrue
<1>5. ProcInv'
  <2>0. sessions' = [sessions EXCEPT ![n][s] = sd] /\ sessions \in [Nodes -> [Ids -> SessionData]]
    BY <1>0 DEF Put, Core, SessionsInv
  <2>1. ASSUME NEW t \in Ids, proc[t] # "none" PROVE t # s /\ asked'[t] # Nobody /\ t \in entered
    BY <1>0, <1>3, <2>1 DEF Core, ProcInv
  <2>2. ASSUME NEW t \in Ids, proc[t] = "running" PROVE sessions'[asked'[t].to][t].process
    <3>1. t # s /\ asked'[t] = asked[t] /\ asked[t].to \in Nodes
      BY <1>2, <1>3, <2>1, <2>2 DEF Core, ProcInv
    <3>2. sessions[asked[t].to][t].process
      BY <2>2 DEF Core, ProcInv
    <3> QED
      BY <2>0, <3>1, <3>2
  <2> QED
    BY <1>1, <2>1, <2>2 DEF Core, ProcInv
<1>6. Core'
  BY <1>0, <1>1, <1>3, <1>4, <1>5, CorePut
<1>7. NetInv(net', asked', entered')
  <2>1. NetInv(net, asked', entered')
    BY <1>3, NetGrown
  <2>2. Msg("REQUEST", s) \in Known(p, asked', entered')
    BY <1>3 DEF Msg, Known, Frames
  <2>3. <<Msg("REQUEST", s)>> \in Seq(Known(p, asked', entered'))
    BY <2>2
  <2>4. NetInv(Send(net, n, p, <<Msg("REQUEST", s)>>), asked', entered')
    BY <2>1, <2>3, NetSend
  <2> QED
    BY <1>0, <2>4
<1> QED
  BY <1>1, <1>6, <1>7 DEF Others

LEMMA SilentType ==
    ASSUME IInv, NEW n \in Nodes, NEW s \in Ids, EndSilently(n, s) \/ UNCHANGED silent
    PROVE  silent' \subseteq Ids
BY DEF IInv, Others, EndSilently

LEMMA RejectRequestStep ==
    ASSUME IInv, NEW n \in Nodes, NEW s \in Ids, RejectRequest(n, s)
    PROVE  IInv'
<1> USE DEF IInv
<1>1. Others'
  BY SilentType DEF RejectRequest, Others
<1>2. CASE /\ Exists(n, s) /\ EndSilently(n, s)
           /\ net' = Send(net, n, sessions[n][s].peer, <<Msg("REJECT", s)>>)
  <2>1. Core' /\ Grown
    BY <1>2, CoreCleanup DEF RejectRequest, EndSilently
  <2>2. sessions[n][s].peer \in Nodes /\ asked[s] # Nobody
    BY <1>2, Peer
  <2>3. <<Msg("REJECT", s)>> \in Seq(Known(sessions[n][s].peer, asked, entered))
    BY <2>2, PlainFrames
  <2>4. NetInv(net', asked, entered)
    BY <1>2, <2>2, <2>3, NetSend
  <2> QED
    BY <1>1, <2>1, <2>4, StepInv
<1>3. CASE UNCHANGED <<net, sessions, proc>>
  <2>1. Core' /\ Grown
    BY <1>3, CoreKept DEF RejectRequest, Core, ProcInv
  <2> QED
    BY <1>1, <1>3, <2>1, StepInv
<1> QED
  BY <1>2, <1>3 DEF RejectRequest

LEMMA RespondToChallengeStep ==
    ASSUME IInv, NEW n \in Nodes, NEW s \in Ids, NEW right \in BOOLEAN,
           RespondToChallenge(n, s, right)
    PROVE  IInv'
<1> USE DEF IInv
<1> DEFINE f == [type |-> "RESPONSE", id |-> s, right |-> right]
           p == sessions[n][s].peer
<1>1. Others'
  BY ShellAssumption DEF RespondToChallenge, Others
<1>2. /\ entered \subseteq entered' /\ entered' \subseteq Ids
      /\ right => s \in entered'
  BY DEF RespondToChallenge, Core, ProcInv
<1>3. Core' /\ Grown
  BY <1>2, CoreKept DEF RespondToChallenge
<1>4. p \in Nodes /\ asked[s] # Nobody /\ asked' = asked
  BY Peer DEF RespondToChallenge, Exists
<1>5. NetInv(net', asked', entered')
  <2>1. NetInv(net, asked', entered')
    BY <1>3, NetGrown
  <2>2. f \in Known(p, asked', entered')
    BY <1>2, <1>4 DEF Known, Frames
  <2>3. <<f>> \in Seq(Known(p, asked', entered'))
    BY <2>2
  <2>4. NetInv(Send(net, n, p, <<f>>), asked', entered')
    BY <1>4, <2>1, <2>3, NetSend
  <2> QED
    BY <2>4 DEF RespondToChallenge
<1> QED
  BY <1>1, <1>3, <1>5

LEMMA KillSessionStep ==
    ASSUME IInv, NEW n \in Nodes, NEW s \in Ids, KillSession(n, s)
    PROVE  IInv'
<1>1. /\ Core' /\ Grown /\ NetInv(net', asked, entered)
      /\ ui' = [ui EXCEPT ![n][s] = "closed"]
  BY EndStep DEF KillSession
<1>2. Others'
  BY <1>1 DEF KillSession, Others, IInv
<1> QED
  BY <1>1, <1>2, StepInv

LEMMA SendInputStep ==
    ASSUME IInv, NEW n \in Nodes, NEW s \in Ids, SendInput(n, s)
    PROVE  IInv'
<1> USE DEF IInv
<1>1. Others'
  BY ShellAssumption DEF SendInput, Others
<1>2. Core' /\ Grown
  BY CoreKept DEF SendInput, Core, ProcInv
<1>3. sessions[n][s].peer \in Nodes /\ asked[s] # Nobody
  BY Peer DEF SendInput, Exists
<1>4. <<Msg("INPUT", s)>> \in Seq(Known(sessions[n][s].peer, asked, entered))
  BY <1>3, PlainFrames
<1>5. NetInv(net', asked, entered)
  BY <1>3, <1>4, NetSend DEF SendInput
<1> QED
  BY <1>1, <1>2, <1>5, StepInv

\* A frame that arrives is about a session that was asked for.
LEMMA Arrival ==
    ASSUME IInv, NEW m \in Nodes, NEW n \in Nodes, net[m][n] # <<>>
    PROVE  /\ Named(m, n) \in Ids /\ asked[Named(m, n)] # Nobody
           /\ NetInv(Rest(m, n), asked, entered)
           /\ Head(net[m][n]).type = "REQUEST" => asked[Named(m, n)].to = n
           /\ Head(net[m][n]).type = "RESPONSE" =>
                 (Head(net[m][n]).right => Named(m, n) \in entered)
<1>1. /\ Head(net[m][n]) \in Known(n, asked, entered) /\ Named(m, n) \in Ids
      /\ NetInv(Rest(m, n), asked, entered)
  BY NetRest DEF IInv
<1> QED
  BY <1>1 DEF Known, Named

\* The handlers that leave the sessions alone and send at most a plain frame back.
LEMMA AnswerStep ==
    ASSUME IInv, NEW m \in Nodes, NEW n \in Nodes, net[m][n] # <<>>,
           UNCHANGED <<sessions, asked, proc, entered>>, Others',
           \/ net' = Rest(m, n)
           \/ net' = Send(Rest(m, n), n, m, <<Msg("REJECT", Named(m, n))>>)
    PROVE  IInv'
<1> USE DEF IInv
<1>1. Core' /\ Grown
  BY CoreKept DEF Core, ProcInv
<1>2. <<Msg("REJECT", Named(m, n))>> \in Seq(Known(m, asked, entered))
  BY Arrival, PlainFrames
<1>3. NetInv(net', asked, entered)
  BY <1>2, Arrival, NetSend
<1> QED
  BY <1>1, <1>3, StepInv

LEMMA SilentStep ==
    ASSUME IInv, NEW m \in Nodes, NEW n \in Nodes,
           OnRequestBusy(m, n) \/ OnChallenge(m, n) \/ OnAccept(m, n) \/ Ignore(m, n)
    PROVE  IInv'
<1>1. /\ net[m][n] # <<>>
      /\ UNCHANGED <<sessions, asked, proc, entered>>
      /\ \/ net' = Rest(m, n)
         \/ net' = Send(Rest(m, n), n, m, <<Msg("REJECT", Named(m, n))>>)
  BY DEF OnRequestBusy, OnChallenge, OnAccept, Ignore, Arrives, Role
<1>2. Others'
  <2>0. Others /\ UNCHANGED <<exits, expired, alive, silent, counters>>
    BY DEF OnRequestBusy, OnChallenge, OnAccept, Ignore, IInv
  <2>1. CASE UNCHANGED ui
    BY <2>0, <2>1 DEF Others
  <2>2. CASE Show(n, Named(m, n), "password") \/ Show(n, Named(m, n), "window")
    <3>0. ui \in [Nodes -> [Ids ->
               {"closed", "otp", "password", "answered", "window", "monitor"}]]
      BY <2>0 DEF Others
    <3>1. ui' \in [Nodes -> [Ids ->
                {"closed", "otp", "password", "answered", "window", "monitor"}]]
      BY <2>2, <3>0 DEF Show
    <3> QED
      BY <2>0, <3>1 DEF Others
  <2> QED
    BY <2>1, <2>2 DEF OnRequestBusy, OnChallenge, OnAccept, Ignore
<1> QED
  BY <1>1, <1>2, AnswerStep

LEMMA OnRequestStep ==
    ASSUME IInv, NEW m \in Nodes, NEW n \in Nodes, OnRequest(m, n)
    PROVE  IInv'
<1> USE DEF IInv
<1> DEFINE s == Named(m, n)
           sd == Session("Receiver", m)
<1>0. /\ net[m][n] # <<>> /\ ~Full(n) /\ UNCHANGED <<asked, proc, entered>>
      /\ s \in Ids /\ asked[s] # Nobody /\ asked[s].to = n
  BY Arrival DEF OnRequest, Arrives
<1>1. Others'
  BY DEF OnRequest, Show, Others
<1>2. sd \in SessionData /\ SessionTrue(sd, n, s, asked)
  BY <1>0 DEF Session, NoSession, SessionData, SessionTrue
<1>3. ASSUME UNCHANGED sessions PROVE Core'
  <2>1. /\ UNCHANGED <<sessions, asked, proc>>
        /\ entered \subseteq entered' /\ entered' \subseteq Ids
    BY <1>0, <1>3 DEF Core, ProcInv
  <2>2. Core' /\ Grown
    BY <2>1, CoreKept
  <2> QED
    BY <2>2
<1>4. ASSUME ~Exists(n, s), Put(n, s, sd) PROVE Core'
  <2>0. /\ sessions' = [sessions EXCEPT ![n][s] = sd]
        /\ sessions \in [Nodes -> [Ids -> SessionData]]
        /\ asked \in [Ids -> [from : Nodes, to : Nodes] \cup {Nobody}]
        /\ ~sessions[n][s].process
    BY <1>0, <1>4 DEF Put, Core, SessionsInv, SessionTrue, Exists
  <2>1. ASSUME NEW t \in Ids, proc[t] = "running" PROVE sessions'[asked[t].to][t].process
    <3>1. sessions[asked[t].to][t].process /\ asked[t].to \in Nodes
      BY <2>0, <2>1 DEF Core, ProcInv
    <3>2. ~(asked[t].to = n /\ t = s)
      BY <2>0, <3>1
    <3> QED
      BY <2>0, <3>1, <3>2
  <2>2. ProcInv'
    BY <1>0, <2>1 DEF Core, ProcInv
  <2>3. Grown
    BY <1>0 DEF Grown
  <2>4. asked' \in [Ids -> [from : Nodes, to : Nodes] \cup {Nobody}] /\ asked' = asked
    BY <1>0, <2>0
  <2>5. SessionTrue(sd, n, s, asked')
    BY <1>2, <2>4
  <2> HIDE DEF s, sd
  <2> QED
    BY <1>0, <1>2, <1>4, <2>2, <2>3, <2>4, <2>5, CorePut
<1>5. Core' /\ Grown
  <2>1. Grown
    BY <1>0 DEF Grown
  <2> QED
    BY <1>3, <1>4, <2>1 DEF OnRequest, Emplace
<1>6. NetInv(net', asked, entered)
  <2>1. <<Msg("CHALLENGE", s)>> \in Seq(Known(m, asked, entered))
    BY <1>0, PlainFrames
  <2> QED
    BY <1>0, <2>1, Arrival, NetSend DEF OnRequest
<1> QED
  BY <1>1, <1>5, <1>6, StepInv

LEMMA OnRejectOrKillStep ==
    ASSUME IInv, NEW m \in Nodes, NEW n \in Nodes, OnRejectOrKill(m, n)
    PROVE  IInv'
<1> USE DEF IInv
<1>0. net[m][n] # <<>> /\ Named(m, n) \in Ids
  BY Arrival DEF OnRejectOrKill, Arrives
<1>1. Others'
  BY DEF OnRejectOrKill, Show, Others
<1>2. Core' /\ Grown
  BY <1>0, CoreCleanup DEF OnRejectOrKill
<1>3. NetInv(net', asked, entered)
  BY <1>0, Arrival DEF OnRejectOrKill
<1> QED
  BY <1>1, <1>2, <1>3, StepInv

LEMMA RearmedType ==
    ASSUME NEW sd \in SessionData
    PROVE  Rearmed(sd) \in SessionData
<1>1. sd.timerGeneration \in Nat
  BY DEF SessionData
<1>2. sd.timerGeneration + 1 \in Nat
  BY <1>1
<1> QED
  BY <1>2 DEF Rearmed, SessionData

\* The password matches: the process is there and the password is gone.
LEMMA SpawnStep ==
    ASSUME IInv, NEW n \in Nodes, NEW s \in Ids, sessions[n][s].role = "Receiver",
           s \in entered, UNCHANGED <<asked, entered>>,
           proc' = [proc EXCEPT ![s] = "running"],
           Put(n, s, Spawned(sessions[n][s]))
    PROVE  Core' /\ Grown
<1> USE DEF IInv
<1> DEFINE sd == Spawned(sessions[n][s])
<1>0. /\ sessions' = [sessions EXCEPT ![n][s] = sd]
      /\ sessions \in [Nodes -> [Ids -> SessionData]]
      /\ asked \in [Ids -> [from : Nodes, to : Nodes] \cup {Nobody}]
      /\ proc \in [Ids -> {"none", "running", "zombie", "reaped"}]
      /\ asked[s] # Nobody /\ asked[s].to = n
  BY DEF Put, Core, SessionsInv, ProcInv, SessionTrue
<1>1. sd \in SessionData /\ SessionTrue(sd, n, s, asked) /\ sd.process
  <2>1. sessions[n][s] \in SessionData /\ SessionTrue(sessions[n][s], n, s, asked)
    BY DEF Core, SessionsInv
  <2>2. [sessions[n][s] EXCEPT !.otp = FALSE, !.process = TRUE] \in SessionData
    BY <2>1 DEF SessionData
  <2>3. sd \in SessionData
    BY <2>2, RearmedType DEF Spawned
  <2>4. /\ sd.role = "Receiver" /\ sd.peer = sessions[n][s].peer
        /\ sd.otp = FALSE /\ sd.process = TRUE
    BY <2>1 DEF Spawned, Rearmed, SessionData
  <2> QED
    BY <1>0, <2>1, <2>3, <2>4 DEF SessionTrue
<1>2. Grown
  BY DEF Grown
<1>3. ASSUME NEW t \in Ids, proc'[t] = "running" PROVE sessions'[asked[t].to][t].process
  <2>1. CASE t = s
    BY <1>0, <1>1, <2>1
  <2>2. CASE t # s
    <3>1. proc[t] = "running"
      BY <1>0, <1>3, <2>2
    <3>2. sessions[asked[t].to][t].process /\ asked[t].to \in Nodes
      BY <1>0, <3>1 DEF Core, ProcInv
    <3> QED
      BY <1>0, <2>2, <3>2
  <2> QED
    BY <2>1, <2>2
<1>4. ProcInv'
  BY <1>0, <1>3 DEF Core, ProcInv
<1> QED
  BY <1>0, <1>1, <1>2, <1>4, CorePut DEF Exists

LEMMA OnResponseStep ==
    ASSUME IInv, NEW m \in Nodes, NEW n \in Nodes, OnResponse(m, n)
    PROVE  IInv'
<1> USE DEF IInv
<1> DEFINE s == Named(m, n)
           f == Head(net[m][n])
<1>0. /\ net[m][n] # <<>> /\ f.type = "RESPONSE" /\ sessions[n][s].role = "Receiver"
      /\ s \in Ids /\ asked[s] # Nobody /\ UNCHANGED <<asked, entered>>
      /\ NetInv(Rest(m, n), asked, entered)
  BY Arrival DEF OnResponse, Arrives, Role
<1>1. CASE /\ net' = Send(Rest(m, n), n, m, <<Msg("REJECT", s)>>)
           /\ EndSilently(n, s)
           /\ UNCHANGED ui
  <2>1. Core' /\ Grown
    BY <1>0, <1>1, CoreCleanup DEF EndSilently
  <2>2. <<Msg("REJECT", s)>> \in Seq(Known(m, asked, entered))
    BY <1>0, PlainFrames
  <2>3. NetInv(net', asked, entered)
    BY <1>0, <1>1, <2>2, NetSend
  <2>4. Others'
    BY <1>0, <1>1, SilentType DEF OnResponse, Others
  <2> QED
    BY <2>1, <2>3, <2>4, StepInv
<1>2. CASE /\ Matches(n, f)
           /\ net' = Send(Rest(m, n), n, m, <<Msg("ACCEPT", s)>>)
           /\ ShellStarts(s)
           /\ Put(n, s, Spawned(sessions[n][s]))
           /\ Show(n, s, "monitor")
           /\ UNCHANGED silent
  <2>0. s \in entered
    BY <1>0, <1>2, Arrival DEF Matches
  <2>1. Core' /\ Grown
    BY <1>0, <1>2, <2>0, SpawnStep DEF ShellStarts
  <2>2. <<Msg("ACCEPT", s)>> \in Seq(Known(m, asked, entered))
    BY <1>0, PlainFrames
  <2>3. NetInv(net', asked, entered)
    BY <1>0, <1>2, <2>2, NetSend
  <2>4. Others'
    BY <1>2 DEF OnResponse, Others, Show
  <2> QED
    BY <2>1, <2>3, <2>4, StepInv
<1>3. CASE /\ Matches(n, f)
           /\ net' = Send(Rest(m, n), n, m, <<Msg("ACCEPT", s), KillMsg(s, "failed")>>)
           /\ Put(n, s, NoSession)
           /\ Show(n, s, "closed")
           /\ UNCHANGED <<proc, silent>>
  <2>0. ~sessions[n][s].process
    BY <1>0, <1>3 DEF Matches, Named, Core, SessionsInv, SessionTrue
  <2>1. CleanupSession(n, s)
    BY <1>3, <2>0 DEF CleanupSession
  <2>2. Core' /\ Grown
    BY <1>0, <2>1, CoreCleanup
  <2>3. <<Msg("ACCEPT", s), KillMsg(s, "failed")>> \in Seq(Known(m, asked, entered))
    BY <1>0, PlainFrames
  <2>4. NetInv(net', asked, entered)
    BY <1>0, <1>3, <2>3, NetSend
  <2>5. Others'
    BY <1>3 DEF OnResponse, Others, Show
  <2> QED
    BY <2>2, <2>4, <2>5, StepInv
<1> QED
  BY <1>1, <1>2, <1>3 DEF OnResponse

\* What rearms or runs out a timer changes nothing else of the session.
LEMMA TimerFields ==
    ASSUME IInv, NEW n \in Nodes, NEW s \in Ids, sessions[n][s].process,
           UNCHANGED <<asked, entered, proc>>,
           \/ Put(n, s, Rearmed(sessions[n][s]))
           \/ Put(n, s, [sessions[n][s] EXCEPT !.armed = FALSE])
    PROVE  Core' /\ Grown
<1> USE DEF IInv
<1>1. sessions[n][s] \in SessionData /\ SessionTrue(sessions[n][s], n, s, asked)
  BY DEF Core, SessionsInv
<1>2. Exists(n, s)
  BY <1>1 DEF SessionTrue, Exists
<1>3. CASE Put(n, s, Rearmed(sessions[n][s]))
  <2>1. /\ Rearmed(sessions[n][s]) \in SessionData
        /\ SessionTrue(Rearmed(sessions[n][s]), n, s, asked)
        /\ Rearmed(sessions[n][s]).process = sessions[n][s].process
    <3>1. Rearmed(sessions[n][s]) \in SessionData
      BY <1>1, RearmedType
    <3>2. /\ Rearmed(sessions[n][s]).role = sessions[n][s].role
          /\ Rearmed(sessions[n][s]).peer = sessions[n][s].peer
          /\ Rearmed(sessions[n][s]).otp = sessions[n][s].otp
          /\ Rearmed(sessions[n][s]).process = sessions[n][s].process
      BY <1>1 DEF Rearmed, SessionData
    <3> QED
      BY <1>1, <3>1, <3>2 DEF SessionTrue
  <2> QED
    BY <1>2, <1>3, <2>1, CoreUpdate
<1>4. CASE Put(n, s, [sessions[n][s] EXCEPT !.armed = FALSE])
  <2> DEFINE sd == [sessions[n][s] EXCEPT !.armed = FALSE]
  <2>1. /\ sd \in SessionData /\ SessionTrue(sd, n, s, asked)
        /\ sd.process = sessions[n][s].process
    BY <1>1 DEF SessionData, SessionTrue
  <2> QED
    BY <1>2, <1>4, <2>1, CoreUpdate
<1> QED
  BY <1>3, <1>4

LEMMA OnInputStep ==
    ASSUME IInv, NEW m \in Nodes, NEW n \in Nodes, OnInput(m, n)
    PROVE  IInv'
<1>0. net[m][n] # <<>> /\ Named(m, n) \in Ids
  BY Arrival DEF OnInput, Arrives
<1>1. Core' /\ Grown
  BY <1>0, TimerFields DEF OnInput
<1>2. NetInv(net', asked, entered)
  BY <1>0, Arrival DEF OnInput
<1>3. Others'
  BY DEF OnInput, IInv, Others
<1> QED
  BY <1>1, <1>2, <1>3, StepInv

LEMMA DiesStep ==
    ASSUME IInv, NEW s \in Ids, Dies(s) \/ Reap(s)
    PROVE  IInv'
<1> USE DEF IInv
<1>1. Others'
  <2>1. exits' \in [Nodes -> SUBSET Ids]
    BY DEF Dies, Reap, Others
  <2> QED
    BY <2>1 DEF Dies, Reap, Others
<1>2. /\ UNCHANGED <<sessions, asked, entered>> /\ proc[s] # "none"
      /\ proc \in [Ids -> {"none", "running", "zombie", "reaped"}]
      /\ proc' = [proc EXCEPT ![s] = "zombie"] \/ proc' = [proc EXCEPT ![s] = "reaped"]
  BY DEF Dies, Reap, Core, ProcInv
<1>3. /\ proc' \in [Ids -> {"none", "running", "zombie", "reaped"}]
      /\ \A t \in Ids : /\ proc'[t] # "none" => proc[t] # "none"
                        /\ proc'[t] = "running" => proc[t] = "running"
  BY <1>2
<1>4. ProcInv'
  BY <1>2, <1>3 DEF Core, ProcInv
<1>5. Core' /\ Grown
  BY <1>2, <1>4 DEF Core, SessionsInv, SlotsInv, Open, Exists, Grown
<1>6. NetInv(net', asked, entered)
  BY DEF Dies, Reap
<1> QED
  BY <1>1, <1>5, <1>6, StepInv

LEMMA OnExitStep ==
    ASSUME IInv, NEW n \in Nodes, NEW s \in Ids, OnExit(n, s)
    PROVE  IInv'
<1> USE DEF IInv
<1>1. /\ exits' \in [Nodes -> SUBSET Ids]
      /\ UNCHANGED <<asked, entered, expired, alive, silent, counters>>
  BY DEF OnExit, Others
<1>2. CASE Exists(n, s) /\ End(net, n, s, "exited")
  <2>1. /\ Core' /\ Grown /\ NetInv(net', asked, entered)
        /\ ui' = [ui EXCEPT ![n][s] = "closed"]
    BY <1>1, <1>2, EndStep
  <2>2. Others'
    BY <1>1, <2>1 DEF Others
  <2> QED
    BY <2>1, <2>2, StepInv
<1>3. CASE UNCHANGED <<sessions, proc, ui, net>>
  <2>1. Core' /\ Grown
    BY <1>1, <1>3, CoreKept DEF Core, ProcInv
  <2>2. Others'
    BY <1>1, <1>3 DEF Others
  <2> QED
    BY <1>3, <2>1, <2>2, StepInv
<1> QED
  BY <1>2, <1>3 DEF OnExit

LEMMA OnTimerStep ==
    ASSUME IInv, NEW n \in Nodes, OnTimer(n)
    PROVE  IInv'
<1> USE DEF IInv
<1>0. PICK e \in expired[n] :
        /\ expired' = [expired EXCEPT ![n] = @ \ {e}]
        /\ \/ Current(n, e) /\ End(net, n, e[1], "timeout")
           \/ ~Current(n, e) /\ UNCHANGED <<sessions, proc, ui, net>>
  BY DEF OnTimer
<1>1. /\ expired' \in [Nodes -> SUBSET (Ids \X Nat)] /\ e[1] \in Ids
      /\ UNCHANGED <<asked, entered, exits, alive, silent, counters>>
  BY <1>0 DEF OnTimer, Others
<1>2. CASE Current(n, e) /\ End(net, n, e[1], "timeout")
  <2>1. /\ Core' /\ Grown /\ NetInv(net', asked, entered)
        /\ ui' = [ui EXCEPT ![n][e[1]] = "closed"]
    BY <1>1, <1>2, EndStep DEF Current
  <2>2. Others'
    BY <1>1, <2>1 DEF Others
  <2> QED
    BY <2>1, <2>2, StepInv
<1>3. CASE UNCHANGED <<sessions, proc, ui, net>>
  <2>1. Core' /\ Grown
    BY <1>1, <1>3, CoreKept DEF Core, ProcInv
  <2>2. Others'
    BY <1>1, <1>3 DEF Others
  <2> QED
    BY <1>3, <2>1, <2>2, StepInv
<1> QED
  BY <1>0, <1>2, <1>3

LEMMA OnOutputStep ==
    ASSUME IInv, NEW n \in Nodes, NEW s \in Ids, OnOutput(n, s)
    PROVE  IInv'
<1>1. Core' /\ Grown
  BY TimerFields DEF OnOutput
<1>2. Others'
  BY ShellAssumption DEF OnOutput, IInv, Others
<1>3. NetInv(net', asked, entered)
  BY DEF OnOutput, IInv
<1> QED
  BY <1>1, <1>2, <1>3, StepInv

LEMMA TimerExpiresStep ==
    ASSUME IInv, NEW n \in Nodes, NEW s \in Ids, TimerExpires(n, s)
    PROVE  IInv'
<1> USE DEF IInv
<1> DEFINE sd == [sessions[n][s] EXCEPT !.armed = FALSE]
<1>1. /\ sessions[n][s] \in SessionData /\ SessionTrue(sessions[n][s], n, s, asked)
      /\ Exists(n, s)
      /\ Put(n, s, sd) /\ UNCHANGED <<asked, entered, proc>>
  BY DEF TimerExpires, Core, SessionsInv, SessionTrue, Exists
<1>2. /\ sd \in SessionData /\ SessionTrue(sd, n, s, asked)
      /\ sd.process = sessions[n][s].process
  BY <1>1 DEF SessionData, SessionTrue
<1>3. Core' /\ Grown
  <2> HIDE DEF sd
  <2> QED
    BY <1>1, <1>2, CoreUpdate
<1>4. Others'
  <2>1. <<s, sessions[n][s].timerGeneration>> \in Ids \X Nat
    BY <1>1 DEF SessionData
  <2>2. expired' \in [Nodes -> SUBSET (Ids \X Nat)]
    BY <2>1 DEF TimerExpires, Others
  <2> QED
    BY <2>2 DEF TimerExpires, Others
<1>5. NetInv(net', asked, entered)
  BY DEF TimerExpires
<1> QED
  BY <1>3, <1>4, <1>5, StepInv

LEMMA EmptyKnown ==
    ASSUME NEW w \in Networks, NetInv(net, asked, entered),
           \A p, q \in Nodes : w[p][q] = net[p][q] \/ w[p][q] = <<>>
    PROVE  NetInv(w, asked, entered)
<1>1. ASSUME NEW p \in Nodes, NEW q \in Nodes PROVE w[p][q] \in Seq(Known(q, asked, entered))
  <2>1. <<>> \in Seq(Known(q, asked, entered)) /\ net[p][q] \in Seq(Known(q, asked, entered))
    BY DEF NetInv
  <2> QED
    BY <2>1
<1> QED
  BY <1>1 DEF NetInv

LEMMA LoseLinkStep ==
    ASSUME IInv, NEW n \in Nodes, NEW m \in Nodes, LoseLink(n, m)
    PROVE  IInv'
<1> USE DEF IInv
<1>1. Others'
  BY ShellAssumption DEF LoseLink, Others
<1>2. Core' /\ Grown
  BY CoreKept DEF LoseLink, Core, ProcInv
<1>3. NetInv(net', asked, entered)
  <2>0. <<>> \in Seq(Frames) /\ net \in Networks
    BY DEF NetInv
  <2> DEFINE w == [net EXCEPT ![n][m] = <<>>]
  <2>1. w \in Networks /\ \A p, q \in Nodes : w[p][q] = net[p][q] \/ w[p][q] = <<>>
    BY <2>0 DEF Networks
  <2>2. net' = [w EXCEPT ![m][n] = <<>>]
    BY DEF LoseLink
  <2> HIDE DEF w
  <2>3. net' \in Networks /\ \A p, q \in Nodes : net'[p][q] = w[p][q] \/ net'[p][q] = <<>>
    BY <2>0, <2>1, <2>2 DEF Networks
  <2>4. \A p, q \in Nodes : net'[p][q] = net[p][q] \/ net'[p][q] = <<>>
    BY <2>1, <2>3
  <2> QED
    BY <2>3, <2>4, EmptyKnown
<1> QED
  BY <1>1, <1>2, <1>3, StepInv

LEMMA StopStep ==
    ASSUME IInv, NEW n \in Nodes, Stop(n)
    PROVE  IInv'
<1> USE DEF IInv
<1>0. /\ sessions \in [Nodes -> [Ids -> SessionData]]
      /\ asked \in [Ids -> [from : Nodes, to : Nodes] \cup {Nobody}]
      /\ proc \in [Ids -> {"none", "running", "zombie", "reaped"}]
      /\ sessions' = [sessions EXCEPT ![n] = [s \in Ids |-> NoSession]]
      /\ proc' = [s \in Ids |-> IF sessions[n][s].process THEN Killed(proc[s]) ELSE proc[s]]
      /\ UNCHANGED <<asked, entered>>
  BY DEF Stop, Core, SessionsInv, ProcInv
<1>1. Others'
  <2>1. /\ ui' \in [Nodes -> [Ids ->
                {"closed", "otp", "password", "answered", "window", "monitor"}]]
        /\ expired' \in [Nodes -> SUBSET (Ids \X Nat)] /\ alive' \subseteq Nodes
    BY DEF Stop, Others
  <2> QED
    BY <2>1 DEF Stop, Others
<1>2. \A p \in Nodes, s \in Ids :
         sessions'[p][s] = IF p = n THEN NoSession ELSE sessions[p][s]
  BY <1>0
<1>3. SessionsInv'
  <2>1. sessions' \in [Nodes -> [Ids -> SessionData]]
    BY <1>0, NoSessionTrue
  <2>2. ASSUME NEW p \in Nodes, NEW s \in Ids PROVE SessionTrue(sessions'[p][s], p, s, asked)
    BY <1>2, NoSessionTrue DEF Core, SessionsInv
  <2> QED
    BY <1>0, <2>1, <2>2 DEF SessionsInv
<1>4. SlotsInv'
  <2> SUFFICES ASSUME NEW p \in Nodes PROVE Cardinality(Open(p)') <= kMaxConcurrentSessions
    BY DEF SlotsInv
  <2>1. Open(p)' \subseteq Open(p)
    BY <1>2 DEF Open, Exists, NoSession
  <2>2. Cardinality(Open(p)') <= Cardinality(Open(p)) /\ Cardinality(Open(p)') \in Nat
    BY <2>1, OpenFinite, FS_Subset, FS_CardinalityType
  <2>3. Cardinality(Open(p)) <= kMaxConcurrentSessions
    BY DEF Core, SlotsInv
  <2> QED
    BY <2>2, <2>3, OpenFinite, ShellAssumption
<1>5. ProcInv'
  <2>1. /\ proc' \in [Ids -> {"none", "running", "zombie", "reaped"}]
        /\ \A t \in Ids : proc'[t] # "none" => proc[t] # "none"
    BY <1>0 DEF Killed
  <2>2. ASSUME NEW t \in Ids, proc'[t] = "running" PROVE sessions'[asked[t].to][t].process
    <3>1. proc[t] = "running" /\ ~sessions[n][t].process
      BY <1>0, <2>2 DEF Killed
    <3>2. sessions[asked[t].to][t].process /\ asked[t].to \in Nodes
      BY <1>0, <3>1 DEF Core, ProcInv
    <3>3. asked[t].to # n
      BY <3>1, <3>2
    <3> QED
      BY <1>2, <3>2, <3>3
  <2> QED
    BY <1>0, <2>1, <2>2 DEF Core, ProcInv
<1>6. NetInv(net', asked, entered)
  <2>1. net' = [m \in Nodes |-> [net[m] EXCEPT ![n] = <<>>]] /\ net \in Networks
    BY DEF Stop, NetInv
  <2>2. net' \in Networks /\ \A p, q \in Nodes : net'[p][q] = net[p][q] \/ net'[p][q] = <<>>
    BY <2>1 DEF Networks
  <2> QED
    BY <2>2, EmptyKnown
<1> QED
  BY <1>0, <1>1, <1>3, <1>4, <1>5, <1>6, StepInv DEF Core, Grown

-----------------------------------------------------------------------------

LEMMA InitInv == Init => IInv
<1> SUFFICES ASSUME Init PROVE IInv
  OBVIOUS
<1>1. SessionsInv
  <2>1. \A n \in Nodes, s \in Ids : sessions[n][s] = NoSession
    BY DEF Init
  <2> QED
    BY <2>1, NoSessionTrue DEF Init, SessionsInv
<1>2. SlotsInv
  <2> SUFFICES ASSUME NEW n \in Nodes PROVE Cardinality(Open(n)) <= kMaxConcurrentSessions
    BY DEF SlotsInv
  <2>1. Open(n) = {}
    BY DEF Init, Open, Exists, NoSession
  <2> QED
    BY <2>1, FS_EmptySet, ShellAssumption
<1>3. ProcInv
  BY DEF Init, ProcInv
<1>4. NetInv(net, asked, entered)
  <2>1. net \in Networks
    BY DEF Init, Networks
  <2>2. ASSUME NEW m \in Nodes, NEW n \in Nodes PROVE net[m][n] \in Seq(Known(n, asked, entered))
    BY DEF Init
  <2> QED
    BY <2>1, <2>2 DEF NetInv
<1>5. Others
  <2>1. /\ activity \in 0 .. MaxActivity /\ losses \in 0 .. MaxLosses
        /\ answers \in 0 .. MaxAnswers
    BY ShellAssumption DEF Init
  <2>2. /\ exits \in [Nodes -> SUBSET Ids] /\ expired \in [Nodes -> SUBSET (Ids \X Nat)]
        /\ ui \in [Nodes -> [Ids ->
                {"closed", "otp", "password", "answered", "window", "monitor"}]]
        /\ alive \subseteq Nodes /\ silent \subseteq Ids
    BY DEF Init
  <2> QED
    BY <2>1, <2>2 DEF Others
<1> QED
  BY <1>1, <1>2, <1>3, <1>4, <1>5 DEF IInv, Core

LEMMA NextInv == IInv /\ [Next]_vars => IInv'
<1> SUFFICES ASSUME IInv, [Next]_vars PROVE IInv'
  OBVIOUS
<1>1. ASSUME NEW n \in Nodes, User(n) PROVE IInv'
  BY <1>1, RequestShellStep, RejectRequestStep, KillSessionStep, SendInputStep DEF User
<1>2. ASSUME NEW n \in Nodes, NEW s \in Ids, Answer(n, s) PROVE IInv'
  BY <1>2, RespondToChallengeStep DEF Answer
<1>3. ASSUME NEW n \in Nodes, NEW s \in Ids, OnExit(n, s) \/ OnOutput(n, s) \/ TimerExpires(n, s)
      PROVE  IInv'
  BY <1>3, OnExitStep, OnOutputStep, TimerExpiresStep
<1>4. ASSUME NEW m \in Nodes, NEW n \in Nodes, Receive(m, n) PROVE IInv'
  BY <1>4, SilentStep, OnRequestStep, OnResponseStep, OnRejectOrKillStep, OnInputStep DEF Receive
<1>5. CASE UNCHANGED vars
  BY <1>5 DEF vars, IInv, Core, SessionsInv, SlotsInv, ProcInv, Open, Exists, Others
<1> QED
  BY <1>1, <1>2, <1>3, <1>4, <1>5, OnTimerStep, StopStep, LoseLinkStep, DiesStep DEF Next

LEMMA Invariance == Spec => []IInv
BY InitInv, NextInv, PTL DEF Spec

\* The sessions, windows, frames and timers of every node always have their types.
THEOREM TypeCorrect == Spec => []TypeOK
<1>1. IInv => TypeOK
  BY DEF IInv, Core, SessionsInv, ProcInv, NetInv, Networks, Others, TypeOK
<1> QED
  BY <1>1, Invariance, PTL

\* cleanupSession and its callers: however a session ends, on whichever thread, and when its
\* node shuts down, its shell does not go on running.
THEOREM NoOrphanShell == Spec => []ProcessHasSession
<1>1. IInv => ProcessHasSession
  BY DEF IInv, Core, ProcInv, ProcessHasSession
<1> QED
  BY <1>1, Invariance, PTL

\* handleSignaling: a shell runs only for a session whose initiator typed the password.
THEOREM PasswordFirst == Spec => []RunsAfterPassword
<1>1. IInv => RunsAfterPassword
  BY DEF IInv, Core, ProcInv, RunsAfterPassword
<1> QED
  BY <1>1, Invariance, PTL

\* kMaxConcurrentSessions bounds the shells of a node, not only its session records.
THEOREM FewShells == Spec => []ShellsBounded
<1>1. IInv => ShellsBounded
  <2> SUFFICES ASSUME IInv, NEW n \in Nodes
               PROVE  Cardinality({s \in Ids : proc[s] = "running" /\ asked[s].to = n})
                         <= kMaxConcurrentSessions
    BY DEF ShellsBounded
  <2> DEFINE R == {s \in Ids : proc[s] = "running" /\ asked[s].to = n}
  <2>1. R \subseteq Open(n)
    BY DEF IInv, Core, ProcInv, SessionsInv, SessionTrue, Open, Exists
  <2>2. Cardinality(R) <= Cardinality(Open(n)) /\ Cardinality(R) \in Nat
    BY <2>1, OpenFinite, FS_Subset, FS_CardinalityType
  <2>3. Cardinality(Open(n)) <= kMaxConcurrentSessions
    BY DEF IInv, Core, SlotsInv
  <2> QED
    BY <2>2, <2>3, OpenFinite, ShellAssumption
<1> QED
  BY <1>1, Invariance, PTL

-----------------------------------------------------------------------------
(* A session is asked for once, and its password is good for one shell: the  *)
(* request on its way and the password that waits at the receiver are in one *)
(* place at a time, and gone when a shell has been started, however often    *)
(* the user answers.  So what a node shows is about the session it has.      *)

Asks(f, s) == f.id = s /\ f.type = "REQUEST"
AskAt(w, s, a, b, k) == k \in 1 .. Len(w[a][b]) /\ Asks(w[a][b][k], s)
OnWire(w, s) == \E a, b \in Nodes : \E k \in 1 .. Len(w[a][b]) : AskAt(w, s, a, b, k)

OneAsk(w) ==
    \A s \in Ids : \A a, b, c, d \in Nodes :
        \A k \in 1 .. Len(w[a][b]), l \in 1 .. Len(w[c][d]) :
            AskAt(w, s, a, b, k) /\ AskAt(w, s, c, d, l) => a = c /\ b = d /\ k = l

Waits(n, s) == sessions[n][s].otp

SilentGrows == silent \subseteq silent'

\* What n has and shows of session s.
NodeTrue(n, s) ==
    /\ sessions[n][s].role = "Initiator" => asked[s].from = n
    /\ ui[n][s] \in {"password", "answered", "window"} => sessions[n][s].role = "Initiator"
    /\ ui[n][s] = "monitor" => sessions[n][s].process \/ s \in silent
    /\ Waits(n, s) => ~OnWire(net, s)
    /\ sessions[n][s].process => proc[s] # "none"

\* A timer handler that is queued is of an earlier arming, or of the last one.
TimersTrue(n, s) ==
    \A g \in Nat : <<s, g>> \in expired[n] =>
        /\ proc[s] # "none"
        /\ Exists(n, s) => g <= sessions[n][s].timerGeneration
        /\ sessions[n][s].armed => g # sessions[n][s].timerGeneration

Started(s) == proc[s] # "none" => ~OnWire(net, s) /\ \A n \in Nodes : ~Waits(n, s)

AskInv ==
    /\ OneAsk(net)
    /\ \A n \in Nodes, s \in Ids : NodeTrue(n, s) /\ TimersTrue(n, s)
    /\ \A s \in Ids : Started(s)

LEMMA SendAsk ==
    ASSUME NEW w \in Networks, OneAsk(w), NEW n \in Nodes, NEW m \in Nodes,
           NEW fs \in Seq(Frames),
           \A s \in Ids, k \in 1 .. Len(fs) : Asks(fs[k], s) => Len(fs) = 1 /\ ~OnWire(w, s)
    PROVE  /\ OneAsk(Send(w, n, m, fs))
           /\ \A s \in Ids : OnWire(Send(w, n, m, fs), s) =>
                 OnWire(w, s) \/ (Len(fs) = 1 /\ Asks(fs[1], s))
<1> DEFINE v == Send(w, n, m, fs)
<1>1. CASE m \notin alive
  BY <1>1 DEF Send
<1>2. CASE m \in alive
  <2>1. w[n][m] \in Seq(Frames) /\ Len(w[n][m]) \in Nat /\ Len(fs) \in Nat
    BY DEF Networks
  <2>2. v[n][m] = w[n][m] \o fs /\ \A a, b \in Nodes : ~(a = n /\ b = m) => v[a][b] = w[a][b]
    BY <1>2 DEF Send, Networks
  <2> HIDE DEF v
  <2>3. ASSUME NEW s \in Ids, NEW a \in Nodes, NEW b \in Nodes, NEW k \in 1 .. Len(v[a][b]),
               AskAt(v, s, a, b, k)
        PROVE  \/ k \in 1 .. Len(w[a][b]) /\ AskAt(w, s, a, b, k)
               \/ /\ a = n /\ b = m /\ k = Len(w[a][b]) + 1
                  /\ Len(fs) = 1 /\ Asks(fs[1], s) /\ ~OnWire(w, s)
    <3>1. CASE a = n /\ b = m
      <4>1. k \in 1 .. Len(w[n][m]) + Len(fs)
        BY <2>1, <2>2, <3>1
      <4>2. CASE k \in 1 .. Len(w[n][m])
        <5>1. v[n][m][k] = w[n][m][k]
          BY <2>1, <2>2, <4>2
        <5> QED
          BY <2>3, <3>1, <4>2, <5>1 DEF AskAt
      <4>3. CASE k > Len(w[n][m])
        <5>1. k - Len(w[n][m]) \in 1 .. Len(fs) /\ v[n][m][k] = fs[k - Len(w[n][m])]
          BY <2>1, <2>2, <4>1, <4>3
        <5>2. Asks(fs[k - Len(w[n][m])], s)
          BY <2>3, <3>1, <5>1 DEF AskAt
        <5>3. Len(fs) = 1 /\ ~OnWire(w, s)
          BY <5>1, <5>2
        <5>4. k = Len(w[n][m]) + 1
          BY <2>1, <4>1, <5>1, <5>3
        <5>5. Asks(fs[1], s)
          BY <2>1, <5>2, <5>4
        <5> QED
          BY <3>1, <5>3, <5>4, <5>5
      <4> QED
        BY <2>1, <4>1, <4>2, <4>3
    <3>2. CASE ~(a = n /\ b = m)
      <4>1. v[a][b] = w[a][b]
        BY <2>2, <3>2
      <4> QED
        BY <2>3, <4>1 DEF AskAt
    <3> QED
      BY <3>1, <3>2
  <2>4. \A s \in Ids : OnWire(v, s) => OnWire(w, s) \/ (Len(fs) = 1 /\ Asks(fs[1], s))
    BY <2>3 DEF OnWire
  <2>5. ASSUME NEW s \in Ids, NEW a \in Nodes, NEW b \in Nodes, NEW c \in Nodes, NEW d \in Nodes,
               NEW k \in 1 .. Len(v[a][b]), NEW l \in 1 .. Len(v[c][d]),
               AskAt(v, s, a, b, k), AskAt(v, s, c, d, l)
        PROVE  a = c /\ b = d /\ k = l
    <3>1. CASE OnWire(w, s)
      <4>1. /\ k \in 1 .. Len(w[a][b]) /\ AskAt(w, s, a, b, k)
            /\ l \in 1 .. Len(w[c][d]) /\ AskAt(w, s, c, d, l)
        BY <2>3, <2>5, <3>1
      <4> QED
        BY <4>1 DEF OneAsk
    <3>2. CASE ~OnWire(w, s)
      <4>1. ASSUME NEW x \in Nodes, NEW y \in Nodes, NEW i \in 1 .. Len(w[x][y]),
                   AskAt(w, s, x, y, i)
            PROVE  FALSE
        BY <3>2, <4>1 DEF OnWire
      <4>2. /\ a = n /\ b = m /\ k = Len(w[a][b]) + 1
            /\ c = n /\ d = m /\ l = Len(w[c][d]) + 1
        BY <2>3, <2>5, <4>1
      <4> QED
        BY <4>2
    <3> QED
      BY <3>1, <3>2
  <2>6. OneAsk(v)
    BY <2>5 DEF OneAsk
  <2> QED
    BY <2>4, <2>6 DEF v
<1> QED
  BY <1>1, <1>2

Answering(s, right) == [type |-> "RESPONSE", id |-> s, right |-> right]

\* Frames that ask nothing change nothing.
LEMMA SendPlain ==
    ASSUME NEW w \in Networks, OneAsk(w), NEW n \in Nodes, NEW m \in Nodes, NEW s \in Ids,
           NEW r \in {"terminated", "exited", "timeout", "failed"},
           NEW right \in BOOLEAN,
           NEW fs \in {<<KillMsg(s, r)>>, <<Msg("REJECT", s)>>, <<Msg("INPUT", s)>>,
                       <<Msg("CHALLENGE", s)>>, <<Answering(s, right)>>,
                       <<Msg("ACCEPT", s)>>, <<Msg("ACCEPT", s), KillMsg(s, r)>>}
    PROVE  /\ OneAsk(Send(w, n, m, fs))
           /\ \A t \in Ids : OnWire(Send(w, n, m, fs), t) => OnWire(w, t)
<1>1. /\ KillMsg(s, r) \in Frames /\ Answering(s, right) \in Frames
      /\ \A t \in {"REJECT", "INPUT", "ACCEPT", "CHALLENGE"} : Msg(t, s) \in Frames
  BY DEF KillMsg, Msg, Answering, Frames
<1>2. /\ \A t \in Ids : ~Asks(KillMsg(s, r), t) /\ ~Asks(Answering(s, right), t)
      /\ \A t \in Ids, y \in {"REJECT", "INPUT", "ACCEPT", "CHALLENGE"} : ~Asks(Msg(y, s), t)
  BY DEF KillMsg, Msg, Answering, Asks
<1> DEFINE A == Msg("ACCEPT", s)
           K == KillMsg(s, r)
<1>a. \A f \in Frames : <<f>> \in Seq(Frames) /\ Len(<<f>>) = 1 /\ <<f>>[1] = f
  OBVIOUS
<1>b. /\ <<A, K>> \in Seq(Frames) /\ Len(<<A, K>>) = 2
      /\ <<A, K>>[1] = A /\ <<A, K>>[2] = K
  BY <1>1
<1>3. fs \in Seq(Frames) /\ Len(fs) \in Nat
  BY <1>1, <1>a, <1>b
<1>4. \A t \in Ids, k \in 1 .. Len(fs) : ~Asks(fs[k], t)
  <2> SUFFICES ASSUME NEW t \in Ids, NEW k \in 1 .. Len(fs) PROVE ~Asks(fs[k], t)
    OBVIOUS
  <2>1. CASE fs = <<A, K>>
    <3>1. k = 1 \/ k = 2
      BY <1>b, <2>1
    <3> QED
      BY <1>2, <1>b, <2>1, <3>1
  <2>2. ASSUME NEW f \in {K, Msg("REJECT", s), Msg("INPUT", s), Msg("CHALLENGE", s),
                           Answering(s, right), A},
               fs = <<f>>
        PROVE  ~Asks(fs[k], t)
    <3>1. k = 1 /\ fs[k] = f
      BY <2>2
    <3> QED
      BY <1>2, <3>1
  <2> QED
    BY <2>1, <2>2
<1>5. Len(fs) = 1 => \A t \in Ids : ~Asks(fs[1], t)
  BY <1>4
<1> QED
  BY <1>3, <1>4, <1>5, SendAsk

LEMMA RestAsk ==
    ASSUME net \in Networks, OneAsk(net), NEW m \in Nodes, NEW n \in Nodes, net[m][n] # <<>>
    PROVE  /\ OneAsk(Rest(m, n)) /\ Rest(m, n) \in Networks
           /\ \A s \in Ids :
                 /\ OnWire(Rest(m, n), s) => OnWire(net, s)
                 /\ Asks(Head(net[m][n]), s) => OnWire(net, s) /\ ~OnWire(Rest(m, n), s)
<1> DEFINE q == net[m][n]
           v == Rest(m, n)
<1>1. q \in Seq(Frames) /\ q # <<>> /\ 1 \in 1 .. Len(q) /\ Head(q) = q[1]
  BY DEF Networks
<1>2. v[m][n] = Tail(q) /\ \A a, b \in Nodes : ~(a = m /\ b = n) => v[a][b] = net[a][b]
  BY DEF Rest, Networks
<1>3. v \in Networks
  <2>1. Tail(q) \in Seq(Frames)
    BY <1>1
  <2> QED
    BY <2>1 DEF Rest, Networks
<1> HIDE DEF v
<1>4. ASSUME NEW s \in Ids, NEW a \in Nodes, NEW b \in Nodes, NEW k \in 1 .. Len(v[a][b]),
             AskAt(v, s, a, b, k)
      PROVE  \E i \in 1 .. Len(net[a][b]) :
                AskAt(net, s, a, b, i) /\ i = IF a = m /\ b = n THEN k + 1 ELSE k
  <2>1. CASE a = m /\ b = n
    <3>1. v[a][b] = Tail(q)
      BY <1>2, <2>1
    <3>2. v[a][b][k] = q[k + 1] /\ k + 1 \in 1 .. Len(q)
      BY <1>1, <3>1
    <3> QED
      BY <1>4, <2>1, <3>2 DEF AskAt
  <2>2. CASE ~(a = m /\ b = n)
    <3>1. v[a][b] = net[a][b]
      BY <1>2, <2>2
    <3> QED
      BY <1>4, <2>2, <3>1 DEF AskAt
  <2> QED
    BY <2>1, <2>2
<1>5. \A s \in Ids : OnWire(v, s) => OnWire(net, s)
  BY <1>4 DEF OnWire
<1>6. OneAsk(v)
  <2> SUFFICES ASSUME NEW s \in Ids, NEW a \in Nodes, NEW b \in Nodes, NEW c \in Nodes,
                      NEW d \in Nodes, NEW k \in 1 .. Len(v[a][b]), NEW l \in 1 .. Len(v[c][d]),
                      AskAt(v, s, a, b, k), AskAt(v, s, c, d, l)
               PROVE  a = c /\ b = d /\ k = l
    BY DEF OneAsk
  <2>1. PICK i \in 1 .. Len(net[a][b]) :
           AskAt(net, s, a, b, i) /\ i = IF a = m /\ b = n THEN k + 1 ELSE k
    BY <1>4
  <2>2. PICK j \in 1 .. Len(net[c][d]) :
           AskAt(net, s, c, d, j) /\ j = IF c = m /\ d = n THEN l + 1 ELSE l
    BY <1>4
  <2>3. a = c /\ b = d /\ i = j
    BY <2>1, <2>2 DEF OneAsk
  <2> QED
    BY <2>1, <2>2, <2>3
<1>7. ASSUME NEW s \in Ids, Asks(Head(q), s)
      PROVE  OnWire(net, s) /\ ~OnWire(v, s)
  <2>1. AskAt(net, s, m, n, 1)
    BY <1>1, <1>7 DEF AskAt
  <2>2. ASSUME NEW a \in Nodes, NEW b \in Nodes, NEW k \in 1 .. Len(v[a][b]), AskAt(v, s, a, b, k)
        PROVE  FALSE
    <3>1. PICK i \in 1 .. Len(net[a][b]) :
             AskAt(net, s, a, b, i) /\ i = IF a = m /\ b = n THEN k + 1 ELSE k
      BY <1>4, <2>2
    <3>2. a = m /\ b = n /\ i = 1
      BY <1>1, <2>1, <3>1 DEF OneAsk
    <3> QED
      BY <3>1, <3>2
  <2> QED
    BY <1>1, <2>1, <2>2 DEF OnWire
<1> QED
  BY <1>3, <1>5, <1>6, <1>7 DEF v

\* What a step may do to session s of node p when it asks for none and starts no shell: it
\* ends it, rearms its timer or lets it run out, and shows no new monitor.
Steady(p, s) ==
    /\ proc[s] # "none" => proc'[s] # "none"
    /\ \/ /\ sessions'[p][s].role = sessions[p][s].role
          /\ sessions'[p][s].process = sessions[p][s].process
          /\ sessions'[p][s].otp = sessions[p][s].otp
          /\ \/ /\ sessions'[p][s].timerGeneration = sessions[p][s].timerGeneration
                /\ sessions'[p][s].armed => sessions[p][s].armed
             \/ /\ sessions[p][s].process
                /\ sessions'[p][s].timerGeneration = sessions[p][s].timerGeneration + 1
          /\ \/ ui'[p][s] \in {ui[p][s], "closed", "otp"}
             \/ /\ ui'[p][s] \in {"password", "answered", "window"}
                /\ sessions[p][s].role = "Initiator"
       \/ /\ sessions'[p][s] = NoSession
          /\ ui'[p][s] \in {"closed", "otp"} \/ (ui'[p][s] = "monitor" /\ s \in silent')
    /\ \A g \in Nat : <<s, g>> \in expired'[p] =>
          \/ <<s, g>> \in expired[p]
          \/ /\ sessions[p][s].process /\ g = sessions[p][s].timerGeneration
             /\ sessions'[p][s].timerGeneration = g /\ ~sessions'[p][s].armed

LEMMA SteadyNode ==
    ASSUME IInv, AskInv, SilentGrows, Grown, NEW p \in Nodes, NEW s \in Ids, Steady(p, s),
           Waits(p, s)' => ~OnWire(net', s)
    PROVE  NodeTrue(p, s)' /\ TimersTrue(p, s)'
<1>1. NodeTrue(p, s) /\ TimersTrue(p, s)
  BY DEF AskInv
<1>2. sessions[p][s] \in SessionData /\ SessionTrue(sessions[p][s], p, s, asked)
  BY DEF IInv, Core, SessionsInv
<1>3. sessions[p][s].timerGeneration \in Nat
  BY <1>2 DEF SessionData
<1>4. NodeTrue(p, s)'
  <2>1. CASE /\ sessions'[p][s] = NoSession
             /\ ui'[p][s] \in {"closed", "otp"} \/ (ui'[p][s] = "monitor" /\ s \in silent')
    BY <2>1 DEF NodeTrue, NoSession, Waits
  <2>2. CASE /\ sessions'[p][s].role = sessions[p][s].role
             /\ sessions'[p][s].process = sessions[p][s].process
             /\ \/ ui'[p][s] \in {ui[p][s], "closed", "otp"}
                \/ /\ ui'[p][s] \in {"password", "answered", "window"}
                   /\ sessions[p][s].role = "Initiator"
    <3>1. sessions[p][s].role = "Initiator" => asked'[s].from = p
      BY <1>1, <1>2 DEF NodeTrue, SessionTrue, Grown
    <3>2. sessions[p][s].process => proc'[s] # "none"
      BY <1>1 DEF NodeTrue, Steady
    <3>3. ~OnWire(net, s)' <=> ~OnWire(net', s)
      BY DEF OnWire, AskAt
    <3> QED
      BY <1>1, <2>2, <3>1, <3>2, <3>3 DEF NodeTrue, Waits, SilentGrows
  <2> QED
    BY <2>1, <2>2 DEF Steady
<1>5. TimersTrue(p, s)'
  <2> SUFFICES ASSUME NEW g \in Nat, <<s, g>> \in expired'[p]
               PROVE  /\ proc'[s] # "none"
                      /\ Exists(p, s)' => g <= sessions'[p][s].timerGeneration
                      /\ sessions'[p][s].armed => g # sessions'[p][s].timerGeneration
    BY DEF TimersTrue
  <2>1. proc'[s] # "none"
    BY <1>1 DEF NodeTrue, TimersTrue, Steady
  <2>2. CASE sessions'[p][s] = NoSession
    BY <2>1, <2>2 DEF Exists, NoSession
  <2>3. CASE <<s, g>> \notin expired[p]
    BY <1>3, <2>1, <2>3 DEF Steady
  <2>4. CASE <<s, g>> \in expired[p] /\ sessions'[p][s].role = sessions[p][s].role
    <3>1. /\ Exists(p, s) => g <= sessions[p][s].timerGeneration
          /\ sessions[p][s].armed => g # sessions[p][s].timerGeneration
      BY <1>1, <2>4 DEF TimersTrue
    <3>2. Exists(p, s)' <=> Exists(p, s)
      BY <2>4 DEF Exists
    <3>3. sessions[p][s].process => Exists(p, s)
      BY <1>2 DEF SessionTrue, Exists
    <3>4. CASE /\ sessions'[p][s].timerGeneration = sessions[p][s].timerGeneration
               /\ sessions'[p][s].armed => sessions[p][s].armed
      BY <2>1, <3>1, <3>2, <3>4
    <3>5. CASE /\ sessions[p][s].process
               /\ sessions'[p][s].timerGeneration = sessions[p][s].timerGeneration + 1
      BY <1>3, <2>1, <3>1, <3>3, <3>5
    <3> QED
      BY <2>2, <3>4, <3>5 DEF Steady
  <2> QED
    BY <2>2, <2>3, <2>4 DEF Steady
<1> QED
  BY <1>4, <1>5

\* One frame that asks, when there is none yet.
LEMMA SendOne ==
    ASSUME NEW w \in Networks, OneAsk(w), NEW n \in Nodes, NEW m \in Nodes, NEW s \in Ids,
           NEW f \in Frames, \A t \in Ids : Asks(f, t) => t = s, ~OnWire(w, s)
    PROVE  /\ OneAsk(Send(w, n, m, <<f>>))
           /\ \A t \in Ids : OnWire(Send(w, n, m, <<f>>), t) => OnWire(w, t) \/ t = s
<1> DEFINE fs == <<f>>
<1>1. fs \in Seq(Frames) /\ Len(fs) = 1 /\ fs[1] = f
  OBVIOUS
<1> HIDE DEF fs
<1>2. \A t \in Ids, k \in 1 .. Len(fs) : Asks(fs[k], t) => Len(fs) = 1 /\ ~OnWire(w, t)
  <2> SUFFICES ASSUME NEW t \in Ids, NEW k \in 1 .. Len(fs), Asks(fs[k], t)
               PROVE  Len(fs) = 1 /\ ~OnWire(w, t)
    OBVIOUS
  <2>1. k = 1
    BY <1>1
  <2> QED
    BY <1>1, <2>1
<1>3. /\ OneAsk(Send(w, n, m, fs))
      /\ \A t \in Ids : OnWire(Send(w, n, m, fs), t) =>
            OnWire(w, t) \/ (Len(fs) = 1 /\ Asks(fs[1], t))
  BY <1>1, <1>2, SendAsk
<1> QED
  BY <1>1, <1>3 DEF fs

\* A step that asks nothing more of anybody.
LEMMA SteadyStep ==
    ASSUME IInv, AskInv, SilentGrows, Grown, OneAsk(net'),
           \A s \in Ids : OnWire(net', s) => OnWire(net, s),
           \A p \in Nodes, s \in Ids : Steady(p, s) /\ (Waits(p, s)' => Waits(p, s)),
           \A s \in Ids : proc'[s] # "none" => proc[s] # "none"
    PROVE  AskInv'
<1>1. ASSUME NEW p \in Nodes, NEW s \in Ids PROVE NodeTrue(p, s)' /\ TimersTrue(p, s)'
  <2>1. Waits(p, s)' => ~OnWire(net', s)
    BY DEF AskInv, NodeTrue
  <2> QED
    BY <2>1, SteadyNode
<1>2. ASSUME NEW s \in Ids PROVE Started(s)'
  <2>1. OnWire(net, s)' => OnWire(net', s)
    BY DEF OnWire, AskAt
  <2> QED
    BY <2>1 DEF AskInv, Started
<1>3. OneAsk(net)'
  BY DEF OneAsk, AskAt
<1> QED
  BY <1>1, <1>2, <1>3 DEF AskInv

\* Where a step touches one session of one node, the others are steady.
Elsewhere(n, s) ==
    \A p \in Nodes, t \in Ids : ~(p = n /\ t = s) =>
        /\ sessions'[p][t] = sessions[p][t] /\ ui'[p][t] = ui[p][t]
        /\ \A g \in Nat : <<t, g>> \in expired'[p] => <<t, g>> \in expired[p]

LEMMA ElsewhereSteady ==
    ASSUME NEW n, NEW s, Elsewhere(n, s), NEW p \in Nodes, NEW t \in Ids, ~(p = n /\ t = s),
           proc[t] # "none" => proc'[t] # "none"
    PROVE  Steady(p, t) /\ (Waits(p, t)' => Waits(p, t))
BY DEF Elsewhere, Steady, Waits

LEMMA SteadyOne ==
    ASSUME IInv, AskInv, SilentGrows, Grown, NEW n \in Nodes, NEW s \in Ids, OneAsk(net'),
           \A t \in Ids : OnWire(net', t) => OnWire(net, t),
           Elsewhere(n, s), Steady(n, s), Waits(n, s)' => Waits(n, s),
           \A t \in Ids : proc'[t] # "none" <=> proc[t] # "none"
    PROVE  AskInv'
<1>1. \A p \in Nodes, t \in Ids : Steady(p, t) /\ (Waits(p, t)' => Waits(p, t))
  BY ElsewhereSteady
<1> QED
  BY <1>1, SteadyStep

LEMMA NetType ==
    ASSUME IInv
    PROVE  /\ net \in Networks
           /\ sessions \in [Nodes -> [Ids -> SessionData]]
           /\ ui \in [Nodes -> [Ids ->
                        {"closed", "otp", "password", "answered", "window", "monitor"}]]
           /\ proc \in [Ids -> {"none", "running", "zombie", "reaped"}]
           /\ expired \in [Nodes -> SUBSET (Ids \X Nat)]
BY DEF IInv, NetInv, Core, SessionsInv, ProcInv, Others

\* cleanupSession takes a session away and starts no process.
LEMMA CleanupSteady ==
    ASSUME IInv, NEW n \in Nodes, NEW s \in Ids, CleanupSession(n, s),
           \A g \in Nat : <<s, g>> \in expired'[n] => <<s, g>> \in expired[n],
           ui'[n][s] \in {"closed", "otp"} \/ (ui'[n][s] = "monitor" /\ s \in silent')
    PROVE  /\ Steady(n, s) /\ ~Waits(n, s)'
           /\ \A t \in Ids : proc'[t] # "none" <=> proc[t] # "none"
           /\ sessions' = [sessions EXCEPT ![n][s] = NoSession]
<1>1. sessions' = [sessions EXCEPT ![n][s] = NoSession] /\ sessions'[n][s] = NoSession
  BY NetType DEF CleanupSession, Put
<1>2. \A t \in Ids : proc'[t] # "none" <=> proc[t] # "none"
  <2>1. CASE proc' = proc
    BY <2>1
  <2>2. CASE proc' = [proc EXCEPT ![s] = Killed(@)]
    BY <2>2, NetType DEF Killed
  <2> QED
    BY <2>1, <2>2 DEF CleanupSession
<1> QED
  <2>1. Steady(n, s)
    BY <1>1, <1>2 DEF Steady
  <2>2. ~Waits(n, s)'
    BY <1>1 DEF Waits, NoSession
  <2> QED
    BY <1>1, <1>2, <2>1, <2>2

\* A session changes, what is shown of it and no queued timer handler but fewer.
LEMMA PutElsewhere ==
    ASSUME IInv, NEW n \in Nodes, NEW s \in Ids, NEW sd, NEW v,
           sessions' = [sessions EXCEPT ![n][s] = sd],
           UNCHANGED ui \/ ui' = [ui EXCEPT ![n][s] = v],
           \A p \in Nodes : expired'[p] \subseteq expired[p]
    PROVE  Elsewhere(n, s) /\ sessions'[n][s] = sd
BY NetType DEF Elsewhere

LEMMA ShowElsewhere ==
    ASSUME IInv, NEW n \in Nodes, NEW s \in Ids, NEW v, Show(n, s, v),
           UNCHANGED <<sessions, expired>>
    PROVE  Elsewhere(n, s) /\ ui'[n][s] = v
BY NetType DEF Elsewhere, Show

LEMMA Reason ==
    /\ "terminated" \in {"terminated", "exited", "timeout", "failed"}
    /\ "failed" \in {"terminated", "exited", "timeout", "failed"}
    /\ TRUE \in BOOLEAN
OBVIOUS

LEMMA EndAsk ==
    ASSUME IInv, AskInv, SilentGrows, NEW n \in Nodes, NEW s \in Ids, Exists(n, s),
           UNCHANGED <<asked, entered>>,
           NEW r \in {"terminated", "exited", "timeout", "failed"}, End(net, n, s, r),
           \A p \in Nodes : expired'[p] \subseteq expired[p]
    PROVE  AskInv'
<1>1. Grown /\ ui' = [ui EXCEPT ![n][s] = "closed"] /\ ui'[n][s] = "closed"
  BY EndStep, NetType
<1>2. /\ OneAsk(net') /\ \A t \in Ids : OnWire(net', t) => OnWire(net, t)
  <2>1. sessions[n][s].peer \in Nodes
    BY Peer DEF IInv
  <2> QED
    BY <2>1, NetType, Reason, SendPlain DEF End, AskInv
<1>3. /\ Steady(n, s) /\ ~Waits(n, s)'
      /\ \A t \in Ids : proc'[t] # "none" <=> proc[t] # "none"
      /\ sessions' = [sessions EXCEPT ![n][s] = NoSession]
  BY <1>1, CleanupSteady DEF End
<1>4. Elsewhere(n, s)
  BY <1>1, <1>3, PutElsewhere
<1> QED
  BY <1>1, <1>2, <1>3, <1>4, SteadyOne

LEMMA RequestShellAsk ==
    ASSUME IInv, AskInv, SilentGrows, NEW n \in Nodes, NEW p \in Nodes, RequestShell(n, p)
    PROVE  AskInv'
<1>1. PICK s \in Ids :
        /\ asked[s] = Nobody
        /\ asked' = [asked EXCEPT ![s] = [from |-> n, to |-> p]]
        /\ Put(n, s, Session("Initiator", p))
        /\ net' = Send(net, n, p, <<Msg("REQUEST", s)>>)
  BY DEF RequestShell
<1>2. UNCHANGED <<proc, exits, expired, ui, entered>>
  BY DEF RequestShell
<1>3. /\ Grown /\ asked'[s] = [from |-> n, to |-> p]
  BY <1>1, <1>2 DEF Grown, IInv, Core, SessionsInv
<1>4. ~OnWire(net, s)
  <2> SUFFICES ASSUME NEW a \in Nodes, NEW b \in Nodes, NEW k \in 1 .. Len(net[a][b]),
                      AskAt(net, s, a, b, k)
               PROVE  FALSE
    BY DEF OnWire
  <2>1. net[a][b] \in Seq(Known(b, asked, entered))
    BY DEF IInv, NetInv
  <2>2. net[a][b][k] \in Known(b, asked, entered)
    BY <2>1
  <2> QED
    BY <1>1, <2>2 DEF Known, AskAt, Asks
<1>5. /\ \A q \in Nodes : sessions[q][s].role = "none" /\ ~sessions[q][s].process
      /\ proc[s] = "none"
  BY <1>1 DEF IInv, Core, SessionsInv, SessionTrue, ProcInv
<1>6. /\ sessions'[n][s] = Session("Initiator", p) /\ Elsewhere(n, s)
  <2>1. sessions' = [sessions EXCEPT ![n][s] = Session("Initiator", p)]
    BY <1>1 DEF Put
  <2> QED
    BY <1>2, <2>1, PutElsewhere
<1>7. /\ \A q \in Nodes : ~Waits(q, s) /\ NodeTrue(q, s)
      /\ ui[n][s] \in {"closed", "otp"} \/ (ui[n][s] = "monitor" /\ s \in silent)
  <2>1. ui[n][s] \in {"closed", "otp", "password", "answered", "window", "monitor"}
    BY NetType
  <2>2. \A q \in Nodes : ~Waits(q, s) /\ NodeTrue(q, s)
    BY <1>5 DEF AskInv, Waits, IInv, Core, SessionsInv, SessionTrue
  <2> QED
    BY <1>5, <2>1, <2>2 DEF NodeTrue
<1>8. OneAsk(net') /\ \A t \in Ids : OnWire(net', t) => OnWire(net, t) \/ t = s
  <2>1. Msg("REQUEST", s) \in Frames /\ \A t \in Ids : Asks(Msg("REQUEST", s), t) => t = s
    BY DEF Msg, Frames, Asks
  <2> QED
    BY <1>1, <1>4, <2>1, NetType, SendOne DEF AskInv
<1>9. ASSUME NEW q \in Nodes, NEW t \in Ids PROVE NodeTrue(q, t)' /\ TimersTrue(q, t)'
  <2>1. CASE q = n /\ t = s
    <3>1. /\ sessions'[n][s].role = "Initiator" /\ ~sessions'[n][s].process
          /\ ~sessions'[n][s].otp
      BY <1>6 DEF Session, NoSession
    <3>2. asked'[s].from = n
      BY <1>3
    <3>3. NodeTrue(n, s)'
      BY <1>2, <1>7, <3>1, <3>2 DEF NodeTrue, Waits, SilentGrows
    <3>4. TimersTrue(n, s)'
      BY <1>2, <1>5 DEF AskInv, TimersTrue
    <3> QED
      BY <2>1, <3>3, <3>4
  <2>2. CASE ~(q = n /\ t = s)
    <3>1. Steady(q, t) /\ (Waits(q, t)' => Waits(q, t))
      BY <1>2, <1>6, <2>2, ElsewhereSteady
    <3>2. Waits(q, t)' => ~OnWire(net', t)
      BY <1>7, <1>8, <3>1 DEF AskInv, NodeTrue
    <3> QED
      BY <1>3, <3>1, <3>2, SteadyNode
  <2> QED
    BY <2>1, <2>2
<1>10. ASSUME NEW t \in Ids PROVE Started(t)'
  <2>1. OnWire(net, t)' <=> OnWire(net', t)
    BY DEF OnWire, AskAt
  <2>2. \A q \in Nodes : Waits(q, t)' => Waits(q, t)
    BY <1>6 DEF Elsewhere, Waits, Session, NoSession
  <2> QED
    BY <1>2, <1>5, <1>8, <2>1, <2>2 DEF AskInv, Started
<1>11. OneAsk(net)'
  BY <1>8 DEF OneAsk, AskAt
<1> QED
  BY <1>9, <1>10, <1>11 DEF AskInv

\* An answer asks nothing of the receiver that it would not refuse.
LEMMA RespondToChallengeAsk ==
    ASSUME IInv, AskInv, SilentGrows, NEW n \in Nodes, NEW s \in Ids, NEW right \in BOOLEAN,
           RespondToChallenge(n, s, right)
    PROVE  AskInv'
<1>1. /\ sessions[n][s].role = "Initiator"
      /\ net' = Send(net, n, sessions[n][s].peer, <<Answering(s, right)>>)
      /\ ui' = [ui EXCEPT ![n][s] = "answered"] \/ UNCHANGED ui
      /\ UNCHANGED <<sessions, asked, proc, expired>>
      /\ entered \subseteq entered'
  BY DEF RespondToChallenge, Answering
<1>2. Grown
  BY <1>1 DEF Grown
<1>3. sessions[n][s].peer \in Nodes
  BY <1>1, Peer DEF IInv, Exists
<1>4. OneAsk(net') /\ \A t \in Ids : OnWire(net', t) => OnWire(net, t)
  BY <1>1, <1>3, NetType, Reason, SendPlain DEF AskInv
<1>5. \A p \in Nodes, t \in Ids :
         ui'[p][t] = ui[p][t] \/ (p = n /\ t = s /\ ui'[p][t] = "answered")
  BY <1>1, NetType
<1>6. \A p \in Nodes, t \in Ids : Steady(p, t) /\ (Waits(p, t)' => Waits(p, t))
  BY <1>1, <1>5 DEF Steady, Waits
<1> QED
  BY <1>1, <1>2, <1>4, <1>6, SteadyStep

\* A request is on the wire: no password waits and no shell has been started.
LEMMA AskArrives ==
    ASSUME IInv, AskInv, SilentGrows, NEW m \in Nodes, NEW n \in Nodes, net[m][n] # <<>>,
           Head(net[m][n]).type = "REQUEST"
    PROVE  \E s \in Ids :
              /\ s = Named(m, n) /\ ~OnWire(Rest(m, n), s) /\ proc[s] = "none"
              /\ \A p \in Nodes : ~Waits(p, s) /\ ~sessions[p][s].process
              /\ \A p \in Nodes, g \in Nat : <<s, g>> \notin expired[p]
<1>1. PICK s \in Ids : s = Named(m, n)
  BY Arrival
<1>2. Asks(Head(net[m][n]), s)
  BY <1>1 DEF Asks, Named
<1>3. OnWire(net, s) /\ ~OnWire(Rest(m, n), s)
  BY <1>1, <1>2, NetType, RestAsk DEF AskInv
<1>4. proc[s] = "none" /\ \A p \in Nodes : ~Waits(p, s)
  BY <1>1, <1>3 DEF AskInv, Started, NodeTrue
<1>5. \A p \in Nodes : ~sessions[p][s].process
  BY <1>1, <1>4 DEF AskInv, NodeTrue
<1>6. \A p \in Nodes, g \in Nat : <<s, g>> \notin expired[p]
  BY <1>1, <1>4 DEF AskInv, TimersTrue
<1> QED
  BY <1>1, <1>3, <1>4, <1>5, <1>6

LEMMA OnRequestAsk ==
    ASSUME IInv, AskInv, SilentGrows, NEW m \in Nodes, NEW n \in Nodes, OnRequest(m, n)
    PROVE  AskInv'
<1>0. net[m][n] # <<>> /\ Head(net[m][n]).type = "REQUEST"
  BY DEF OnRequest, Arrives
<1>2. PICK s \in Ids :
        /\ s = Named(m, n) /\ ~OnWire(Rest(m, n), s) /\ proc[s] = "none"
        /\ \A p \in Nodes : ~Waits(p, s) /\ ~sessions[p][s].process
        /\ \A p \in Nodes, g \in Nat : <<s, g>> \notin expired[p]
  BY <1>0, AskArrives
<1>1. /\ UNCHANGED sessions \/ sessions' = [sessions EXCEPT ![n][s] = Session("Receiver", m)]
      /\ ui' = [ui EXCEPT ![n][s] = "otp"]
      /\ net' = Send(Rest(m, n), n, m, <<Msg("CHALLENGE", s)>>)
      /\ UNCHANGED <<asked, proc, expired, entered>>
  BY <1>2 DEF OnRequest, Emplace, Put, Show
<1>g. Grown
  BY <1>1 DEF Grown
<1>4. /\ Elsewhere(n, s) /\ ui'[n][s] = "otp"
      /\ sessions'[n][s] = sessions[n][s] \/ sessions'[n][s] = Session("Receiver", m)
  <2>2. ui'[n][s] = "otp"
    BY <1>1, NetType
  <2>3. CASE UNCHANGED sessions
    BY <1>1, <2>2, <2>3, ShowElsewhere DEF Show
  <2>4. CASE sessions' = [sessions EXCEPT ![n][s] = Session("Receiver", m)]
    BY <1>1, <2>2, <2>4, PutElsewhere
  <2> QED
    BY <1>1, <2>3, <2>4
<1>5. OneAsk(net') /\ \A t \in Ids : OnWire(net', t) => OnWire(net, t) /\ t # s
  <2>2. /\ OneAsk(Rest(m, n)) /\ Rest(m, n) \in Networks
        /\ \A t \in Ids : OnWire(Rest(m, n), t) => OnWire(net, t)
    BY <1>0, NetType, RestAsk DEF AskInv
  <2>3. /\ OneAsk(net')
        /\ \A t \in Ids : OnWire(net', t) => OnWire(Rest(m, n), t)
    BY <1>1, <2>2, Reason, SendPlain
  <2> QED
    BY <1>2, <2>2, <2>3
<1>6. ASSUME NEW q \in Nodes, NEW t \in Ids PROVE Waits(q, t)' => Waits(q, t) \/ t = s
  BY <1>4 DEF Elsewhere, Waits
<1>7. ASSUME NEW q \in Nodes, NEW t \in Ids PROVE NodeTrue(q, t)' /\ TimersTrue(q, t)'
  <2>1. Waits(q, t)' => ~OnWire(net', t)
    BY <1>5, <1>6 DEF AskInv, NodeTrue
  <2>2. CASE ~(q = n /\ t = s)
    <3>1. Steady(q, t)
      BY <1>1, <1>4, <2>2, ElsewhereSteady
    <3> QED
      BY <1>g, <2>1, <3>1, SteadyNode
  <2>3. CASE q = n /\ t = s /\ sessions'[n][s] = sessions[n][s]
    <3>1. Steady(q, t)
      BY <1>1, <1>4, <2>3 DEF Steady
    <3> QED
      BY <1>g, <2>1, <3>1, SteadyNode
  <2>4. CASE q = n /\ t = s /\ sessions'[n][s] = Session("Receiver", m)
    <3>0. OnWire(net, s)' <=> OnWire(net', s)
      BY DEF OnWire, AskAt
    <3>1. sessions'[n][s].role = "Receiver" /\ ~sessions'[n][s].process
      BY <2>4 DEF Session, NoSession
    <3>2. NodeTrue(n, s)'
      BY <1>4, <2>1, <2>4, <3>0, <3>1 DEF NodeTrue
    <3>3. TimersTrue(n, s)'
      BY <1>1, <1>2 DEF TimersTrue
    <3> QED
      BY <2>4, <3>2, <3>3
  <2> QED
    BY <1>4, <2>2, <2>3, <2>4
<1>8. ASSUME NEW t \in Ids PROVE Started(t)'
  <2>1. OnWire(net, t)' <=> OnWire(net', t)
    BY DEF OnWire, AskAt
  <2>2. proc'[t] # "none" => t # s
    BY <1>1, <1>2
  <2> QED
    BY <1>1, <1>5, <1>6, <2>1, <2>2 DEF AskInv, Started
<1>9. OneAsk(net)'
  BY <1>5 DEF OneAsk, AskAt
<1> QED
  BY <1>7, <1>8, <1>9 DEF AskInv

LEMMA OnResponseAsk ==
    ASSUME IInv, AskInv, SilentGrows, NEW m \in Nodes, NEW n \in Nodes, OnResponse(m, n)
    PROVE  AskInv'
<1>0. net[m][n] # <<>> /\ Head(net[m][n]).type = "RESPONSE"
  BY DEF OnResponse, Arrives
<1>2. PICK s \in Ids : s = Named(m, n)
  BY <1>0, Arrival
<1>1. sessions[n][s].role = "Receiver" /\ UNCHANGED <<asked, expired, entered>>
  BY <1>2 DEF OnResponse, Role
<1>r. /\ OneAsk(Rest(m, n)) /\ Rest(m, n) \in Networks
      /\ \A t \in Ids : OnWire(Rest(m, n), t) => OnWire(net, t)
  BY <1>0, NetType, RestAsk DEF AskInv
<1>3. CASE /\ net' = Send(Rest(m, n), n, m, <<Msg("REJECT", s)>>)
           /\ EndSilently(n, s)
           /\ UNCHANGED ui
  <2>1. ui'[n][s] \in {"closed", "otp"} \/ (ui'[n][s] = "monitor" /\ s \in silent')
    <3>1. NodeTrue(n, s) /\ ui[n][s] \in
             {"closed", "otp", "password", "answered", "window", "monitor"}
      BY <1>2, NetType DEF AskInv
    <3> QED
      BY <1>1, <1>2, <1>3, <3>1 DEF NodeTrue, EndSilently
  <2>3. OneAsk(net') /\ \A t \in Ids : OnWire(net', t) => OnWire(net, t)
    <3>2. /\ OneAsk(net')
          /\ \A t \in Ids : OnWire(net', t) => OnWire(Rest(m, n), t)
      BY <1>2, <1>3, <1>r, Reason, SendPlain
    <3> QED
      BY <1>r, <3>2
  <2>4. /\ Steady(n, s) /\ ~Waits(n, s)'
        /\ \A t \in Ids : proc'[t] # "none" <=> proc[t] # "none"
        /\ sessions' = [sessions EXCEPT ![n][s] = NoSession]
    BY <1>1, <1>2, <1>3, <2>1, CleanupSteady DEF EndSilently
  <2>5. Elsewhere(n, s)
    BY <1>1, <1>2, <1>3, <2>4, PutElsewhere
  <2>6. Grown
    BY <1>1 DEF Grown
  <2> QED
    BY <1>2, <2>1, <2>3, <2>4, <2>5, <2>6, SteadyOne
<1>4. CASE /\ net' = Send(Rest(m, n), n, m, <<Msg("ACCEPT", s), KillMsg(s, "failed")>>)
           /\ Put(n, s, NoSession)
           /\ Show(n, s, "closed")
           /\ UNCHANGED <<proc, silent>>
  <2>1. ui' = [ui EXCEPT ![n][s] = "closed"] /\ ui'[n][s] = "closed"
    BY <1>2, <1>4, NetType DEF Show
  <2>3. OneAsk(net') /\ \A t \in Ids : OnWire(net', t) => OnWire(net, t)
    <3>2. /\ OneAsk(net')
          /\ \A t \in Ids : OnWire(net', t) => OnWire(Rest(m, n), t)
      BY <1>2, <1>4, <1>r, Reason, SendPlain
    <3> QED
      BY <1>r, <3>2
  <2>4. /\ sessions' = [sessions EXCEPT ![n][s] = NoSession] /\ Elsewhere(n, s)
        /\ sessions'[n][s] = NoSession
    <3>1. sessions' = [sessions EXCEPT ![n][s] = NoSession]
      BY <1>4 DEF Put
    <3> QED
      BY <1>1, <1>2, <2>1, <3>1, PutElsewhere
  <2>5. Steady(n, s) /\ ~Waits(n, s)'
    <3>1. Steady(n, s)
      BY <1>1, <1>4, <2>1, <2>4 DEF Steady
    <3>2. ~Waits(n, s)'
      BY <2>4 DEF Waits, NoSession
    <3> QED
      BY <3>1, <3>2
  <2>6. Grown
    BY <1>1 DEF Grown
  <2> QED
    BY <1>2, <1>4, <2>1, <2>3, <2>4, <2>5, <2>6, SteadyOne
<1>5. CASE /\ Matches(n, Head(net[m][n]))
           /\ net' = Send(Rest(m, n), n, m, <<Msg("ACCEPT", s)>>)
           /\ ShellStarts(s)
           /\ Put(n, s, Spawned(sessions[n][s]))
           /\ Show(n, s, "monitor")
  <2>0. /\ Waits(n, s) /\ ~OnWire(net, s) /\ proc[s] = "none"
        /\ \A p \in Nodes : Waits(p, s) => p = n
        /\ \A p \in Nodes, g \in Nat : <<s, g>> \notin expired[p]
    <3>1. Waits(n, s)
      BY <1>2, <1>5 DEF Matches, Named, Waits
    <3>2. ~OnWire(net, s) /\ proc[s] = "none"
      BY <3>1 DEF AskInv, NodeTrue, Started
    <3>3. \A p \in Nodes : Waits(p, s) => asked[s].to = p
      BY DEF Waits, IInv, Core, SessionsInv, SessionTrue
    <3> QED
      BY <3>1, <3>2, <3>3 DEF AskInv, TimersTrue
  <2>1. ui' = [ui EXCEPT ![n][s] = "monitor"] /\ ui'[n][s] = "monitor"
    BY <1>2, <1>5, NetType DEF Show
  <2>3. OneAsk(net') /\ \A t \in Ids : OnWire(net', t) => OnWire(net, t) /\ t # s
    <3>2. /\ OneAsk(net')
          /\ \A t \in Ids : OnWire(net', t) => OnWire(Rest(m, n), t)
      BY <1>2, <1>5, <1>r, Reason, SendPlain
    <3> QED
      BY <1>r, <2>0, <3>2
  <2>n. \A t \in Ids : OnWire(net, t)' <=> OnWire(net', t)
    BY DEF OnWire, AskAt
  <2>4. /\ Elsewhere(n, s) /\ sessions'[n][s] = Spawned(sessions[n][s])
    <3>1. PICK d : d = Spawned(sessions[n][s])
      OBVIOUS
    <3>2. sessions' = [sessions EXCEPT ![n][s] = d]
      BY <1>5, <3>1 DEF Put
    <3>3. Elsewhere(n, s) /\ sessions'[n][s] = d
      BY <1>1, <2>1, <3>2, PutElsewhere
    <3> QED
      BY <3>1, <3>3
  <2>5. /\ sessions'[n][s].process /\ sessions'[n][s].role = "Receiver"
        /\ ~sessions'[n][s].otp
    <3>1. sessions[n][s] \in SessionData
      BY <1>2, NetType
    <3> DEFINE d == [sessions[n][s] EXCEPT !.otp = FALSE, !.process = TRUE]
    <3>2. d \in SessionData /\ d.process /\ d.role = sessions[n][s].role /\ ~d.otp
      BY <3>1 DEF SessionData
    <3>3. Spawned(sessions[n][s]) = Rearmed(d)
      BY DEF Spawned
    <3> HIDE DEF d
    <3>4. /\ Rearmed(d).process = d.process /\ Rearmed(d).role = d.role
          /\ Rearmed(d).otp = d.otp
      BY <3>2 DEF Rearmed, SessionData
    <3> QED
      BY <1>1, <2>4, <3>2, <3>3, <3>4
  <2>6. Grown
    BY <1>1 DEF Grown
  <2>7. proc'[s] # "none" /\ \A t \in Ids \ {s} : proc'[t] = proc[t]
    BY <1>2, <1>5, NetType DEF ShellStarts
  <2>8. ASSUME NEW q \in Nodes, NEW t \in Ids PROVE NodeTrue(q, t)' /\ TimersTrue(q, t)'
    <3>1. CASE ~(q = n /\ t = s)
      <4>1. Steady(q, t) /\ (Waits(q, t)' => Waits(q, t))
        BY <2>4, <2>7, <3>1, ElsewhereSteady
      <4>2. Waits(q, t)' => ~OnWire(net', t)
        BY <2>3, <4>1 DEF AskInv, NodeTrue
      <4> QED
        BY <2>6, <4>1, <4>2, SteadyNode
    <3>2. CASE q = n /\ t = s
      <4>1. NodeTrue(n, s)'
        BY <2>1, <2>5, <2>7 DEF NodeTrue, Waits
      <4>2. TimersTrue(n, s)'
        BY <1>1, <2>0 DEF TimersTrue
      <4> QED
        BY <3>2, <4>1, <4>2
    <3> QED
      BY <3>1, <3>2
  <2>9. ASSUME NEW t \in Ids PROVE Started(t)'
    <3>1. \A q \in Nodes : Waits(q, t)' => Waits(q, t) /\ t # s
      BY <2>0, <2>4, <2>5 DEF Elsewhere, Waits
    <3> QED
      BY <2>3, <2>7, <2>n, <3>1 DEF AskInv, Started
  <2>10. OneAsk(net)'
    BY <2>3 DEF OneAsk, AskAt
  <2> QED
    BY <2>8, <2>9, <2>10 DEF AskInv
<1> QED
  BY <1>2, <1>3, <1>4, <1>5 DEF OnResponse

-----------------------------------------------------------------------------
(* The steps that ask nothing. *)

\* resetInactivityTimer.
LEMMA RearmSteady ==
    ASSUME IInv, NEW n \in Nodes, NEW s \in Ids, sessions[n][s].process,
           sessions' = [sessions EXCEPT ![n][s] = Rearmed(sessions[n][s])],
           UNCHANGED <<proc, ui, expired>>
    PROVE  Elsewhere(n, s) /\ Steady(n, s) /\ (Waits(n, s)' => Waits(n, s))
<1>1. PICK sd : sd = Rearmed(sessions[n][s])
  OBVIOUS
<1>2. sessions' = [sessions EXCEPT ![n][s] = sd]
  BY <1>1
<1>3. Elsewhere(n, s) /\ sessions'[n][s] = sd
  BY <1>2, PutElsewhere
<1>4. sessions[n][s] \in SessionData
  BY NetType
<1>5. /\ sd.role = sessions[n][s].role /\ sd.process = sessions[n][s].process
      /\ sd.otp = sessions[n][s].otp
      /\ sd.timerGeneration = sessions[n][s].timerGeneration + 1
  BY <1>1, <1>4 DEF Rearmed, SessionData
<1> QED
  BY <1>3, <1>5 DEF Steady, Waits

\* The frame handlers that leave the sessions alone, or take one away.
LEMMA PlainHandlers ==
    ASSUME IInv, AskInv, SilentGrows, NEW m \in Nodes, NEW n \in Nodes,
           \/ OnRequestBusy(m, n) \/ OnChallenge(m, n) \/ OnAccept(m, n)
           \/ OnRejectOrKill(m, n) \/ OnInput(m, n) \/ Ignore(m, n)
    PROVE  AskInv'
<1>0. net[m][n] # <<>> /\ UNCHANGED <<asked, entered, expired>>
  BY DEF OnRequestBusy, OnChallenge, OnAccept, OnRejectOrKill, OnInput, Ignore, Arrives
<1>1. PICK s \in Ids : s = Named(m, n)
  BY <1>0, Arrival
<1>g. Grown
  BY <1>0 DEF Grown
<1>r. /\ OneAsk(Rest(m, n)) /\ Rest(m, n) \in Networks
      /\ \A t \in Ids : OnWire(Rest(m, n), t) => OnWire(net, t)
  BY <1>0, NetType, RestAsk DEF AskInv
<1>2. OneAsk(net') /\ \A t \in Ids : OnWire(net', t) => OnWire(net, t)
  <2>1. CASE net' = Rest(m, n)
    BY <1>r, <2>1
  <2>2. CASE OnRequestBusy(m, n)
    <3>2. net' = Send(Rest(m, n), n, m, <<Msg("REJECT", s)>>)
      BY <1>1, <2>2 DEF OnRequestBusy
    <3>3. /\ OneAsk(net')
          /\ \A t \in Ids : OnWire(net', t) => OnWire(Rest(m, n), t)
      BY <1>r, <3>2, Reason, SendPlain
    <3> QED
      BY <1>r, <3>3
  <2> QED
    BY <2>1, <2>2 DEF OnChallenge, OnAccept, OnRejectOrKill, OnInput, Ignore
<1>3. ASSUME UNCHANGED <<sessions, proc>>, NEW v \in {"password", "window"}, Show(n, s, v),
             sessions[n][s].role = "Initiator"
      PROVE  AskInv'
  <2>1. Elsewhere(n, s) /\ ui'[n][s] = v
    BY <1>0, <1>3, ShowElsewhere
  <2>2. Steady(n, s) /\ (Waits(n, s)' => Waits(n, s))
    BY <1>0, <1>3, <2>1 DEF Steady, Waits
  <2> QED
    BY <1>2, <1>3, <1>g, <2>1, <2>2, SteadyOne
<1>4. ASSUME CleanupSession(n, s), Show(n, s, "closed")
      PROVE  AskInv'
  <2>1. ui' = [ui EXCEPT ![n][s] = "closed"] /\ ui'[n][s] = "closed"
    BY <1>4, NetType DEF Show
  <2>2. /\ Steady(n, s) /\ ~Waits(n, s)'
        /\ \A t \in Ids : proc'[t] # "none" <=> proc[t] # "none"
        /\ sessions' = [sessions EXCEPT ![n][s] = NoSession]
    BY <1>0, <1>4, <2>1, CleanupSteady
  <2>3. Elsewhere(n, s)
    BY <1>0, <2>1, <2>2, PutElsewhere
  <2> QED
    BY <1>2, <1>g, <2>2, <2>3, SteadyOne
<1>5. ASSUME UNCHANGED <<sessions, proc, ui>>
      PROVE  AskInv'
  <2>1. \A p \in Nodes, t \in Ids : Steady(p, t) /\ (Waits(p, t)' => Waits(p, t))
    BY <1>0, <1>5 DEF Steady, Waits
  <2> QED
    BY <1>2, <1>5, <1>g, <2>1, SteadyStep
<1>6. CASE OnInput(m, n)
  <2>1. /\ sessions[n][s].process /\ UNCHANGED <<proc, ui>>
        /\ sessions' = [sessions EXCEPT ![n][s] = Rearmed(sessions[n][s])]
    BY <1>1, <1>6 DEF OnInput, Put
  <2>2. Elsewhere(n, s) /\ Steady(n, s) /\ (Waits(n, s)' => Waits(n, s))
    BY <1>0, <2>1, RearmSteady
  <2> QED
    BY <1>2, <1>g, <2>1, <2>2, SteadyOne
<1>7. CASE OnChallenge(m, n) \/ OnAccept(m, n)
  BY <1>1, <1>3, <1>7 DEF OnChallenge, OnAccept, Role
<1>8. CASE OnRejectOrKill(m, n)
  BY <1>1, <1>4, <1>8 DEF OnRejectOrKill
<1>9. CASE OnRequestBusy(m, n) \/ Ignore(m, n)
  BY <1>5, <1>9 DEF OnRequestBusy, Ignore
<1> QED
  BY <1>6, <1>7, <1>8, <1>9

\* The user's refusals and inputs, and what the shell, its reader and the timer do.
LEMMA OwnSteps ==
    ASSUME IInv, AskInv, SilentGrows, NEW n \in Nodes, NEW s \in Ids,
           \/ RejectRequest(n, s) \/ KillSession(n, s) \/ SendInput(n, s) \/ OnExit(n, s)
           \/ OnOutput(n, s) \/ TimerExpires(n, s)
    PROVE  AskInv'
<1>0. UNCHANGED <<asked, entered>>
  BY DEF RejectRequest, KillSession, SendInput, OnExit, OnOutput, TimerExpires
<1>g. Grown
  BY <1>0 DEF Grown
<1>n. OneAsk(net) /\ \A t \in Ids : OnWire(net, t) => OnWire(net, t)
  BY DEF AskInv
<1>1. CASE RejectRequest(n, s)
  <2>1. /\ UNCHANGED expired
        /\ ui' = [ui EXCEPT ![n][s] = "closed"] \/ UNCHANGED ui
        /\ \/ ui'[n][s] = "closed"
           \/ ui'[n][s] = ui[n][s] /\ ui[n][s] = "monitor" /\ Exists(n, s)
    BY <1>1, NetType DEF RejectRequest
  <2>2. CASE UNCHANGED <<net, sessions, proc>>
    <3>1. Elsewhere(n, s)
      BY <2>1, <2>2, NetType DEF Elsewhere
    <3>2. Steady(n, s) /\ (Waits(n, s)' => Waits(n, s))
      BY <2>1, <2>2 DEF Steady, Waits
    <3> QED
      BY <1>g, <1>n, <2>1, <2>2, <3>1, <3>2, SteadyOne
  <2>3. CASE /\ Exists(n, s) /\ EndSilently(n, s)
             /\ net' = Send(net, n, sessions[n][s].peer, <<Msg("REJECT", s)>>)
    <3>1. sessions[n][s].peer \in Nodes
      BY <2>3, Peer DEF IInv
    <3>3. OneAsk(net') /\ \A t \in Ids : OnWire(net', t) => OnWire(net, t)
      BY <1>n, <2>3, <3>1, NetType, Reason, SendPlain
    <3>2. ui'[n][s] = "closed" \/ (ui'[n][s] = "monitor" /\ s \in silent')
      BY <2>1, <2>3 DEF AskInv, NodeTrue, EndSilently, SilentGrows
    <3>4. /\ Steady(n, s) /\ ~Waits(n, s)'
          /\ \A t \in Ids : proc'[t] # "none" <=> proc[t] # "none"
          /\ sessions' = [sessions EXCEPT ![n][s] = NoSession]
      BY <2>1, <2>3, <3>2, CleanupSteady DEF EndSilently
    <3>5. Elsewhere(n, s)
      BY <2>1, <3>4, PutElsewhere
    <3> QED
      BY <1>g, <2>1, <3>3, <3>4, <3>5, SteadyOne
  <2> QED
    BY <1>1, <2>2, <2>3 DEF RejectRequest
<1>2. CASE KillSession(n, s)
  <2>1. Exists(n, s) /\ End(net, n, s, "terminated") /\ UNCHANGED expired
    BY <1>2 DEF KillSession
  <2> QED
    BY <1>0, <2>1, EndAsk
<1>3. CASE SendInput(n, s)
  <2>1. /\ UNCHANGED <<sessions, proc, ui, expired>> /\ sessions[n][s].role = "Initiator"
        /\ net' = Send(net, n, sessions[n][s].peer, <<Msg("INPUT", s)>>)
    BY <1>3 DEF SendInput
  <2>2. sessions[n][s].peer \in Nodes
    BY <2>1, Peer DEF IInv, Exists
  <2>4. OneAsk(net') /\ \A t \in Ids : OnWire(net', t) => OnWire(net, t)
    BY <1>n, <2>1, <2>2, NetType, Reason, SendPlain
  <2>5. \A p \in Nodes, t \in Ids : Steady(p, t) /\ (Waits(p, t)' => Waits(p, t))
    BY <2>1 DEF Steady, Waits
  <2> QED
    BY <1>g, <2>1, <2>4, <2>5, SteadyStep
<1>4. CASE OnExit(n, s)
  <2>1. CASE Exists(n, s) /\ End(net, n, s, "exited")
    <3>1. UNCHANGED expired
      BY <1>4 DEF OnExit
    <3> QED
      BY <1>0, <2>1, <3>1, EndAsk
  <2>2. CASE UNCHANGED <<sessions, proc, ui, net>>
    <3>1. UNCHANGED expired
      BY <1>4 DEF OnExit
    <3>2. \A p \in Nodes, t \in Ids : Steady(p, t) /\ (Waits(p, t)' => Waits(p, t))
      BY <2>2, <3>1 DEF Steady, Waits
    <3> QED
      BY <1>g, <1>n, <2>2, <3>2, SteadyStep
  <2> QED
    BY <1>4, <2>1, <2>2 DEF OnExit
<1>5. CASE OnOutput(n, s)
  <2>1. /\ sessions[n][s].process /\ UNCHANGED <<proc, ui, net, expired>>
        /\ sessions' = [sessions EXCEPT ![n][s] = Rearmed(sessions[n][s])]
    BY <1>5 DEF OnOutput, Put
  <2>2. Elsewhere(n, s) /\ Steady(n, s) /\ (Waits(n, s)' => Waits(n, s))
    BY <2>1, RearmSteady
  <2> QED
    BY <1>g, <1>n, <2>1, <2>2, SteadyOne
<1>6. CASE TimerExpires(n, s)
  <2>1. sessions[n][s] \in SessionData /\ SessionTrue(sessions[n][s], n, s, asked)
    BY DEF IInv, Core, SessionsInv
  <2>2. /\ sessions[n][s].armed /\ sessions[n][s].process /\ UNCHANGED <<proc, ui, net>>
        /\ sessions' = [sessions EXCEPT ![n][s] = [sessions[n][s] EXCEPT !.armed = FALSE]]
        /\ expired' = [expired EXCEPT
              ![n] = @ \cup {<<s, sessions[n][s].timerGeneration>>}]
    BY <1>6, <2>1 DEF TimerExpires, Put, SessionTrue
  <2>3. PICK sd : sd = [sessions[n][s] EXCEPT !.armed = FALSE]
    OBVIOUS
  <2>4. /\ sd.role = sessions[n][s].role /\ sd.process = sessions[n][s].process
        /\ sd.timerGeneration = sessions[n][s].timerGeneration /\ ~sd.armed
        /\ sd.otp = sessions[n][s].otp
    BY <2>1, <2>3 DEF SessionData
  <2>5. /\ sessions'[n][s] = sd
        /\ \A p \in Nodes, t \in Ids : ~(p = n /\ t = s) => sessions'[p][t] = sessions[p][t]
    BY <2>2, <2>3, NetType
  <2>6. \A p \in Nodes, t \in Ids, g \in Nat : <<t, g>> \in expired'[p] =>
           \/ <<t, g>> \in expired[p]
           \/ p = n /\ t = s /\ g = sessions[n][s].timerGeneration
    BY <2>2, NetType
  <2>7. Elsewhere(n, s)
    BY <2>2, <2>5, <2>6 DEF Elsewhere
  <2>8. Steady(n, s)
    BY <2>2, <2>4, <2>5, <2>6 DEF Steady
  <2>9. Waits(n, s)' => Waits(n, s)
    BY <2>4, <2>5 DEF Waits
  <2> QED
    BY <1>g, <1>n, <2>2, <2>7, <2>8, <2>9, SteadyOne
<1> QED
  BY <1>1, <1>2, <1>3, <1>4, <1>5, <1>6

LEMMA OnTimerAsk ==
    ASSUME IInv, AskInv, SilentGrows, NEW n \in Nodes, OnTimer(n)
    PROVE  AskInv'
<1>1. UNCHANGED <<asked, entered>>
  BY DEF OnTimer
<1>2. PICK e \in expired[n] :
        /\ expired' = [expired EXCEPT ![n] = @ \ {e}]
        /\ \/ Current(n, e) /\ End(net, n, e[1], "timeout")
           \/ ~Current(n, e) /\ UNCHANGED <<sessions, proc, ui, net>>
  BY DEF OnTimer
<1>3. /\ \A p \in Nodes : expired'[p] \subseteq expired[p]
      /\ e[1] \in Ids
  BY <1>2, NetType
<1>4. CASE Current(n, e) /\ End(net, n, e[1], "timeout")
  BY <1>1, <1>3, <1>4, EndAsk DEF Current
<1>5. CASE UNCHANGED <<sessions, proc, ui, net>>
  <2>1. \A p \in Nodes, t \in Ids : Steady(p, t) /\ (Waits(p, t)' => Waits(p, t))
    BY <1>3, <1>5 DEF Steady, Waits
  <2>2. Grown
    BY <1>1 DEF Grown
  <2> QED
    BY <1>5, <2>1, <2>2, SteadyStep DEF AskInv
<1> QED
  BY <1>2, <1>4, <1>5

LEMMA ShellAsk ==
    ASSUME IInv, AskInv, SilentGrows, NEW s \in Ids, Dies(s) \/ Reap(s)
    PROVE  AskInv'
<1>1. UNCHANGED <<sessions, asked, expired, ui, entered, net>>
  BY DEF Dies, Reap
<1>2. \A t \in Ids : proc'[t] # "none" <=> proc[t] # "none"
  BY NetType DEF Dies, Reap
<1>3. \A p \in Nodes, t \in Ids : Steady(p, t) /\ (Waits(p, t)' => Waits(p, t))
  BY <1>1, <1>2 DEF Steady, Waits
<1>4. Grown
  BY <1>1 DEF Grown
<1> QED
  BY <1>1, <1>2, <1>3, <1>4, SteadyStep DEF AskInv

\* A network of which some frames are lost.
LEMMA LessAsked ==
    ASSUME AskInv, NEW w, \A a, b \in Nodes : w[a][b] = net[a][b] \/ w[a][b] = <<>>
    PROVE  OneAsk(w) /\ \A t \in Ids : OnWire(w, t) => OnWire(net, t)
<1>1. ASSUME NEW t \in Ids, NEW a \in Nodes, NEW b \in Nodes, NEW k \in 1 .. Len(w[a][b]),
             AskAt(w, t, a, b, k)
      PROVE  k \in 1 .. Len(net[a][b]) /\ AskAt(net, t, a, b, k)
  <2>1. w[a][b] = net[a][b]
    BY <1>1
  <2> QED
    BY <1>1, <2>1 DEF AskAt
<1>2. \A t \in Ids : OnWire(w, t) => OnWire(net, t)
  BY <1>1 DEF OnWire
<1>3. OneAsk(w)
  BY <1>1 DEF AskInv, OneAsk
<1> QED
  BY <1>2, <1>3

LEMMA LossAsk ==
    ASSUME IInv, AskInv, SilentGrows, NEW m \in Nodes, NEW n \in Nodes, LoseLink(n, m)
    PROVE  AskInv'
<1>1. UNCHANGED <<sessions, asked, proc, expired, ui, entered>>
  BY DEF LoseLink
<1>2. \A a, b \in Nodes : net'[a][b] = net[a][b] \/ net'[a][b] = <<>>
  BY NetType DEF LoseLink, Networks
<1>3. OneAsk(net') /\ \A t \in Ids : OnWire(net', t) => OnWire(net, t)
  BY <1>2, LessAsked
<1>4. \A p \in Nodes, t \in Ids : Steady(p, t) /\ (Waits(p, t)' => Waits(p, t))
  BY <1>1 DEF Steady, Waits
<1>5. Grown
  BY <1>1 DEF Grown
<1> QED
  BY <1>1, <1>3, <1>4, <1>5, SteadyStep

LEMMA StopAsk ==
    ASSUME IInv, AskInv, SilentGrows, NEW n \in Nodes, Stop(n)
    PROVE  AskInv'
<1>1. /\ UNCHANGED <<asked, entered>>
      /\ sessions' = [sessions EXCEPT ![n] = [s \in Ids |-> NoSession]]
      /\ ui' = [ui EXCEPT ![n] = [s \in Ids |-> "closed"]]
      /\ expired' = [expired EXCEPT ![n] = {}]
      /\ net' = [m \in Nodes |-> [net[m] EXCEPT ![n] = <<>>]]
  BY DEF Stop
<1>2. \A t \in Ids : proc'[t] # "none" <=> proc[t] # "none"
  BY NetType DEF Stop, Killed
<1>3. \A a, b \in Nodes : net'[a][b] = net[a][b] \/ net'[a][b] = <<>>
  BY <1>1, NetType DEF Networks
<1>4. OneAsk(net') /\ \A t \in Ids : OnWire(net', t) => OnWire(net, t)
  BY <1>3, LessAsked
<1>5. ASSUME NEW p \in Nodes, NEW t \in Ids
      PROVE  Steady(p, t) /\ (Waits(p, t)' => Waits(p, t))
  <2>1. CASE p = n
    <3>1. sessions'[p][t] = NoSession /\ ui'[p][t] = "closed" /\ expired'[p] = {}
      BY <1>1, <2>1, NetType
    <3> QED
      BY <1>2, <3>1 DEF Steady, Waits, NoSession
  <2>2. CASE p # n
    <3>1. sessions'[p][t] = sessions[p][t] /\ ui'[p][t] = ui[p][t] /\ expired'[p] = expired[p]
      BY <1>1, <2>2, NetType
    <3> QED
      BY <1>2, <3>1 DEF Steady, Waits
  <2> QED
    BY <2>1, <2>2
<1>6. Grown
  BY <1>1 DEF Grown
<1> QED
  BY <1>2, <1>4, <1>5, <1>6, SteadyStep

-----------------------------------------------------------------------------

LEMMA AskInit == Init => AskInv
<1> SUFFICES ASSUME Init PROVE AskInv
  OBVIOUS
<1>1. \A a, b \in Nodes : net[a][b] = <<>>
  BY DEF Init
<1>2. OneAsk(net) /\ \A s \in Ids : ~OnWire(net, s)
  BY <1>1 DEF OneAsk, OnWire, AskAt
<1>3. \A n \in Nodes, s \in Ids : /\ sessions[n][s] = NoSession /\ ui[n][s] = "closed"
                                  /\ expired[n] = {} /\ proc[s] = "none"
  BY DEF Init
<1> QED
  BY <1>2, <1>3 DEF AskInv, NodeTrue, TimersTrue, Started, Waits, NoSession

LEMMA NothingForgotten == [Next]_vars => SilentGrows
<1> USE DEF SilentGrows
<1> SUFFICES ASSUME [Next]_vars PROVE SilentGrows
  OBVIOUS
<1>1. ASSUME NEW n \in Nodes, User(n) PROVE SilentGrows
  BY <1>1 DEF User, RequestShell, RejectRequest, KillSession, SendInput, EndSilently
<1>2. ASSUME NEW n \in Nodes, NEW s \in Ids,
             Answer(n, s) \/ OnExit(n, s) \/ OnOutput(n, s) \/ TimerExpires(n, s)
      PROVE  SilentGrows
  BY <1>2 DEF Answer, RespondToChallenge, OnExit, OnOutput, TimerExpires
<1>3. ASSUME NEW m \in Nodes, NEW n \in Nodes, Receive(m, n) PROVE SilentGrows
  BY <1>3 DEF Receive, OnRequestBusy, OnRequest, OnChallenge, OnResponse, OnAccept,
     OnRejectOrKill, OnInput, Ignore, EndSilently
<1>4. CASE UNCHANGED vars
  BY <1>4 DEF vars
<1> QED
  BY <1>1, <1>2, <1>3, <1>4 DEF Next, OnTimer, Stop, LoseLink, Dies, Reap

LEMMA AskNext == IInv /\ AskInv /\ [Next]_vars => AskInv'
<1> SUFFICES ASSUME IInv, AskInv, [Next]_vars PROVE AskInv'
  OBVIOUS
<1>0. SilentGrows
  BY NothingForgotten
<1>1. ASSUME NEW n \in Nodes, User(n) PROVE AskInv'
  BY <1>0, <1>1, RequestShellAsk, OwnSteps DEF User
<1>2. ASSUME NEW n \in Nodes, NEW s \in Ids, Answer(n, s) PROVE AskInv'
  BY <1>0, <1>2, RespondToChallengeAsk DEF Answer
<1>3. ASSUME NEW n \in Nodes, NEW s \in Ids, OnExit(n, s) \/ OnOutput(n, s) \/ TimerExpires(n, s)
      PROVE  AskInv'
  BY <1>0, <1>3, OwnSteps
<1>4. ASSUME NEW m \in Nodes, NEW n \in Nodes, Receive(m, n) PROVE AskInv'
  BY <1>0, <1>4, PlainHandlers, OnRequestAsk, OnResponseAsk DEF Receive
<1>5. CASE UNCHANGED vars
  <2>1. UNCHANGED <<sessions, asked, proc, expired, ui, entered, net>>
    BY <1>5 DEF vars
  <2>2. \A p \in Nodes, t \in Ids : Steady(p, t) /\ (Waits(p, t)' => Waits(p, t))
    BY <2>1 DEF Steady, Waits
  <2>3. Grown
    BY <2>1 DEF Grown
  <2> QED
    BY <1>0, <2>1, <2>2, <2>3, SteadyStep DEF AskInv
<1> QED
  BY <1>0, <1>1, <1>2, <1>3, <1>4, <1>5, OnTimerAsk, StopAsk, LossAsk, ShellAsk DEF Next

LEMMA AskInvariance == Spec => [](IInv /\ AskInv)
<1>1. Init => IInv /\ AskInv
  BY InitInv, AskInit
<1>2. IInv /\ AskInv /\ [Next]_vars => (IInv /\ AskInv)'
  BY NextInv, AskNext
<1> QED
  BY <1>1, <1>2, PTL DEF Spec

\* onRejected and onSessionEnded: refused, killed, timed out or failed, with frames lost, nodes
\* shut down and passwords answered again in between, a session leaves no password question
\* and no window behind, but the receiver's of a shell that was ended without an event.
THEOREM EndsAreReported == Spec => []EndIsReported
<1>1. IInv /\ AskInv => EndIsReported
  <2> SUFFICES ASSUME IInv, AskInv, NEW n \in Nodes, NEW s \in Ids,
                      ui[n][s] \notin {"closed", "otp"},
                      ui[n][s] = "monitor" => s \notin silent
               PROVE  Exists(n, s)
    BY DEF EndIsReported
  <2>1. ui[n][s] \in {"password", "answered", "window", "monitor"}
    BY NetType
  <2>2. NodeTrue(n, s) /\ SessionTrue(sessions[n][s], n, s, asked)
    BY DEF IInv, Core, SessionsInv, AskInv
  <2> QED
    BY <2>1, <2>2 DEF NodeTrue, SessionTrue, Exists
<1> QED
  BY <1>1, AskInvariance, PTL

-----------------------------------------------------------------------------
(* Only the timer's handler says that a session has timed out. *)

SaysTimeout(w) ==
    \E n, m \in Nodes, s \in Ids :
        /\ Len(w[n][m]) > Len(net[n][m])
        /\ w[n][m][Len(w[n][m])] = KillMsg(s, "timeout")

\* A network with no frame more than the present one.
NoLonger(w) == \A n, m \in Nodes : Len(w[n][m]) <= Len(net[n][m])

LEMMA LastSent ==
    ASSUME NEW w \in Networks, NoLonger(w), net \in Networks, NEW n \in Nodes, NEW m \in Nodes,
           NEW fs \in Seq(Frames), NEW a \in Nodes, NEW b \in Nodes,
           Len(Send(w, n, m, fs)[a][b]) > Len(net[a][b])
    PROVE  /\ a = n /\ b = m /\ Len(fs) > 0
           /\ Send(w, n, m, fs)[a][b][Len(Send(w, n, m, fs)[a][b])] = fs[Len(fs)]
<1> DEFINE v == Send(w, n, m, fs)
<1>1. w[a][b] \in Seq(Frames) /\ net[a][b] \in Seq(Frames)
  BY DEF Networks
<1>2. Len(w[a][b]) \in Nat /\ Len(net[a][b]) \in Nat /\ Len(w[a][b]) <= Len(net[a][b])
  BY <1>1 DEF NoLonger
<1>3. v[a][b] = w[a][b] \/ (a = n /\ b = m /\ v[a][b] = w[a][b] \o fs)
  BY DEF Send, Networks
<1>4. v[a][b] # w[a][b]
  BY <1>2
<1>5. a = n /\ b = m /\ v[a][b] = w[a][b] \o fs
  BY <1>3, <1>4
<1>6. Len(v[a][b]) = Len(w[a][b]) + Len(fs) /\ Len(fs) \in Nat
  BY <1>1, <1>5
<1>7. Len(fs) > 0
  BY <1>2, <1>6
<1>8. (w[a][b] \o fs)[Len(w[a][b]) + Len(fs)] = fs[Len(fs)]
  BY <1>1, <1>6, <1>7
<1> QED
  BY <1>5, <1>6, <1>7, <1>8

\* What is sent ends in another frame.
LEMMA SaysOther ==
    ASSUME NEW w \in Networks, NoLonger(w), net \in Networks, NEW n \in Nodes, NEW m \in Nodes,
           NEW fs \in Seq(Frames), Len(fs) > 0 => fs[Len(fs)] \notin {KillMsg(s, "timeout") : s \in Ids}
    PROVE  ~SaysTimeout(Send(w, n, m, fs))
BY LastSent DEF SaysTimeout

LEMMA RestNoLonger ==
    ASSUME IInv, NEW m \in Nodes, NEW n \in Nodes, net[m][n] # <<>>
    PROVE  Rest(m, n) \in Networks /\ NoLonger(Rest(m, n))
<1>1. net[m][n] \in Seq(Frames) /\ net \in Networks
  BY NetType DEF Networks
<1>2. /\ Rest(m, n) \in Networks
      /\ \A a, b \in Nodes : Rest(m, n)[a][b] = IF a = m /\ b = n THEN Tail(net[m][n]) ELSE net[a][b]
  BY <1>1 DEF Rest, Networks
<1>3. Len(Tail(net[m][n])) <= Len(net[m][n])
  BY <1>1
<1>4. \A a, b \in Nodes : net[a][b] \in Seq(Frames)
  BY <1>1 DEF Networks
<1>5. \A a, b \in Nodes : Len(net[a][b]) <= Len(net[a][b])
  BY <1>4
<1> QED
  BY <1>2, <1>3, <1>5 DEF NoLonger

LEMMA PlainLast ==
    ASSUME NEW s \in Ids, NEW r \in {"terminated", "exited", "failed"}, NEW right \in BOOLEAN,
           NEW fs \in {<<KillMsg(s, r)>>, <<Msg("REQUEST", s)>>, <<Msg("CHALLENGE", s)>>,
                       <<Msg("REJECT", s)>>, <<Msg("INPUT", s)>>, <<Msg("ACCEPT", s)>>,
                       <<[type |-> "RESPONSE", id |-> s, right |-> right]>>,
                       <<Msg("ACCEPT", s), KillMsg(s, r)>>}
    PROVE  /\ fs \in Seq(Frames)
           /\ Len(fs) > 0 => fs[Len(fs)] \notin {KillMsg(t, "timeout") : t \in Ids}
<1> DEFINE T == {KillMsg(t, "timeout") : t \in Ids}
<1>1. KillMsg(s, r) \in Frames \ T
  <2>1. KillMsg(s, r).reason = r /\ \A t \in Ids : KillMsg(t, "timeout").reason = "timeout"
    BY DEF KillMsg
  <2>2. KillMsg(s, r) \notin T
    BY <2>1
  <2> QED
    BY <2>2 DEF KillMsg, Frames
<1>2. \A y \in {"REQUEST", "CHALLENGE", "REJECT", "INPUT", "ACCEPT"} : Msg(y, s) \in Frames \ T
  <2> TAKE y \in {"REQUEST", "CHALLENGE", "REJECT", "INPUT", "ACCEPT"}
  <2>1. Msg(y, s).type = y /\ \A t \in Ids : KillMsg(t, "timeout").type = "KILL"
    BY DEF Msg, KillMsg
  <2>2. Msg(y, s) \notin T
    BY <2>1
  <2> QED
    BY <2>2 DEF Msg, Frames
<1>3. [type |-> "RESPONSE", id |-> s, right |-> right] \in Frames \ T
  BY DEF Frames, KillMsg
<1>4. ASSUME NEW f \in Frames \ T, fs = <<f>>
      PROVE  fs \in Seq(Frames) /\ fs[Len(fs)] \notin T
  <2>1. Len(fs) = 1 /\ fs[1] = f /\ fs \in Seq(Frames)
    BY <1>4
  <2> QED
    BY <2>1
<1>5. CASE fs = <<Msg("ACCEPT", s), KillMsg(s, r)>>
  <2>1. Len(fs) = 2 /\ fs[2] = KillMsg(s, r) /\ fs \in Seq(Frames)
    BY <1>1, <1>2, <1>5
  <2> QED
    BY <1>1, <2>1
<1> QED
  BY <1>1, <1>2, <1>3, <1>4, <1>5

LEMMA SendsOther ==
    ASSUME IInv, NEW w \in Networks, NoLonger(w), NEW n \in Nodes, NEW m \in Nodes, NEW s \in Ids,
           NEW r \in {"terminated", "exited", "failed"}, NEW right \in BOOLEAN,
           \/ net' = Send(w, n, m, <<KillMsg(s, r)>>)
           \/ \E y \in {"REQUEST", "CHALLENGE", "REJECT", "INPUT", "ACCEPT"} :
                 net' = Send(w, n, m, <<Msg(y, s)>>)
           \/ net' = Send(w, n, m, <<[type |-> "RESPONSE", id |-> s, right |-> right]>>)
           \/ net' = Send(w, n, m, <<Msg("ACCEPT", s), KillMsg(s, r)>>)
    PROVE  ~SaysTimeout(net')
<1>1. net \in Networks
  BY NetType
<1> QED
  BY <1>1, PlainLast, SaysOther

LEMMA SaysNothing ==
    ASSUME IInv, NEW w, NoLonger(w), w \in Networks
    PROVE  ~SaysTimeout(w)
<1>1. \A a, b \in Nodes : Len(w[a][b]) \in Nat /\ Len(net[a][b]) \in Nat
  BY NetType DEF Networks
<1>2. \A a, b \in Nodes : ~(Len(w[a][b]) > Len(net[a][b]))
  BY <1>1 DEF NoLonger
<1> QED
  BY <1>2 DEF SaysTimeout

LEMMA LossNoLonger ==
    ASSUME IInv, IInv', \A a, b \in Nodes : net'[a][b] = net[a][b] \/ net'[a][b] = <<>>
    PROVE  ~SaysTimeout(net')
<1>1. net' \in Networks
  BY DEF IInv, NetInv, Networks
<1>2. \A a, b \in Nodes : net[a][b] \in Seq(Frames) /\ Len(net[a][b]) \in Nat
  BY NetType DEF Networks
<1>3. NoLonger(net')
  <2> SUFFICES ASSUME NEW a \in Nodes, NEW b \in Nodes PROVE Len(net'[a][b]) <= Len(net[a][b])
    BY DEF NoLonger
  <2>1. Len(<<>>) = 0
    OBVIOUS
  <2> QED
    BY <1>2, <2>1
<1> QED
  BY <1>1, <1>3, SaysNothing

LEMMA OthersDoNotSay ==
    ASSUME IInv, IInv', Next, ~(\E n \in Nodes : OnTimer(n))
    PROVE  ~SaysTimeout(net')
<1>t. net \in Networks /\ NoLonger(net)
  <2>1. net \in Networks
    BY NetType
  <2>2. \A a, b \in Nodes : Len(net[a][b]) \in Nat
    BY <2>1 DEF Networks
  <2> QED
    BY <2>1, <2>2 DEF NoLonger
<1>k. \A r \in {"terminated", "exited", "failed"} :
        \A n \in Nodes, s \in Ids : Exists(n, s) /\ End(net, n, s, r) => ~SaysTimeout(net')
  <2> SUFFICES ASSUME NEW r \in {"terminated", "exited", "failed"}, NEW n \in Nodes, NEW s \in Ids,
                      Exists(n, s), End(net, n, s, r)
               PROVE  ~SaysTimeout(net')
    OBVIOUS
  <2>1. sessions[n][s].peer \in Nodes
    BY Peer DEF IInv
  <2>2. net' = Send(net, n, sessions[n][s].peer, <<KillMsg(s, r)>>)
    BY DEF End
  <2> QED
    BY <1>t, <2>1, <2>2, SendsOther
<1>s. net' = net => ~SaysTimeout(net')
  BY <1>t, SaysNothing
<1>f. "failed" \in {"terminated", "exited", "failed"} /\ TRUE \in BOOLEAN
  OBVIOUS
<1>1. ASSUME NEW n \in Nodes, User(n) PROVE ~SaysTimeout(net')
  <2>1. ASSUME NEW p \in Nodes, RequestShell(n, p) PROVE ~SaysTimeout(net')
    <3>1. PICK s \in Ids : net' = Send(net, n, p, <<Msg("REQUEST", s)>>)
      BY <2>1 DEF RequestShell
    <3> QED
      BY <1>f, <1>t, <3>1, SendsOther
  <2>2. ASSUME NEW s \in Ids, RejectRequest(n, s) PROVE ~SaysTimeout(net')
    <3>1. CASE /\ Exists(n, s)
               /\ net' = Send(net, n, sessions[n][s].peer, <<Msg("REJECT", s)>>)
      <4>1. sessions[n][s].peer \in Nodes
        BY <3>1, Peer DEF IInv
      <4> QED
        BY <1>f, <1>t, <3>1, <4>1, SendsOther
    <3> QED
      BY <1>s, <2>2, <3>1 DEF RejectRequest
  <2>3. ASSUME NEW s \in Ids, KillSession(n, s) PROVE ~SaysTimeout(net')
    BY <1>k, <2>3 DEF KillSession
  <2>4. ASSUME NEW s \in Ids, SendInput(n, s) PROVE ~SaysTimeout(net')
    <3>1. /\ sessions[n][s].peer \in Nodes
          /\ net' = Send(net, n, sessions[n][s].peer, <<Msg("INPUT", s)>>)
      BY <2>4, Peer DEF IInv, Exists, SendInput
    <3> QED
      BY <1>f, <1>t, <3>1, SendsOther
  <2> QED
    BY <1>1, <2>1, <2>2, <2>3, <2>4 DEF User
<1>2. ASSUME NEW n \in Nodes, NEW s \in Ids, Answer(n, s) PROVE ~SaysTimeout(net')
  <2>1. PICK right \in BOOLEAN : RespondToChallenge(n, s, right)
    BY <1>2 DEF Answer
  <2>2. /\ sessions[n][s].peer \in Nodes
        /\ net' = Send(net, n, sessions[n][s].peer,
                       <<[type |-> "RESPONSE", id |-> s, right |-> right]>>)
    BY <2>1, Peer DEF IInv, Exists, RespondToChallenge
  <2> QED
    BY <1>f, <1>t, <2>2, SendsOther
<1>3. ASSUME NEW n \in Nodes, NEW s \in Ids, OnExit(n, s) \/ OnOutput(n, s) \/ TimerExpires(n, s)
      PROVE  ~SaysTimeout(net')
  BY <1>3, <1>k, <1>s DEF OnExit, OnOutput, TimerExpires
<1>4. ASSUME NEW m \in Nodes, NEW n \in Nodes, Receive(m, n) PROVE ~SaysTimeout(net')
  <2>1. net[m][n] # <<>>
    BY <1>4 DEF Receive, OnRequestBusy, OnRequest, OnChallenge, OnResponse, OnAccept,
       OnRejectOrKill, OnInput, Ignore, Arrives
  <2>2. Rest(m, n) \in Networks /\ NoLonger(Rest(m, n))
    BY <2>1, RestNoLonger
  <2>3. PICK s \in Ids : s = Named(m, n)
    BY <2>1, Arrival
  <2>4. \/ net' = Rest(m, n)
        \/ \E y \in {"REQUEST", "CHALLENGE", "REJECT", "INPUT", "ACCEPT"} :
              net' = Send(Rest(m, n), n, m, <<Msg(y, s)>>)
        \/ net' = Send(Rest(m, n), n, m, <<Msg("ACCEPT", s), KillMsg(s, "failed")>>)
    BY <1>4, <2>3 DEF Receive, OnRequestBusy, OnRequest, OnChallenge, OnResponse, OnAccept,
       OnRejectOrKill, OnInput, Ignore
  <2>5. CASE net' = Rest(m, n)
    BY <2>2, <2>5, SaysNothing
  <2> QED
    BY <1>f, <2>2, <2>4, <2>5, SendsOther
<1>5. ASSUME NEW s \in Ids, Dies(s) \/ Reap(s) PROVE ~SaysTimeout(net')
  BY <1>5, <1>s DEF Dies, Reap
<1>6. ASSUME NEW n \in Nodes, Stop(n) PROVE ~SaysTimeout(net')
  <2>1. \A a, b \in Nodes : net'[a][b] = net[a][b] \/ net'[a][b] = <<>>
    BY <1>6, <1>t DEF Stop, Networks
  <2> QED
    BY <2>1, LossNoLonger
<1>7. ASSUME NEW m \in Nodes, NEW n \in Nodes, LoseLink(m, n) PROVE ~SaysTimeout(net')
  <2>1. \A a, b \in Nodes : net'[a][b] = net[a][b] \/ net'[a][b] = <<>>
    BY <1>7, <1>t DEF LoseLink, Networks
  <2> QED
    BY <2>1, LossNoLonger
<1> QED
  BY <1>1, <1>2, <1>3, <1>4, <1>5, <1>6, <1>7 DEF Next

LEMMA TimerSays ==
    ASSUME IInv, AskInv, NEW n \in Nodes, OnTimer(n), NEW a \in Nodes, NEW b \in Nodes,
           NEW s \in Ids, Len(net'[a][b]) > Len(net[a][b]),
           net'[a][b][Len(net'[a][b])] = KillMsg(s, "timeout")
    PROVE  ~sessions[a][s].armed
<1>t. net \in Networks /\ NoLonger(net)
  <2>1. net \in Networks
    BY NetType
  <2>2. \A x, y \in Nodes : Len(net[x][y]) \in Nat
    BY <2>1 DEF Networks
  <2> QED
    BY <2>1, <2>2 DEF NoLonger
<1>1. PICK e \in expired[n] :
        \/ Current(n, e) /\ End(net, n, e[1], "timeout")
        \/ ~Current(n, e) /\ UNCHANGED <<sessions, proc, ui, net>>
  BY DEF OnTimer
<1>2. e[1] \in Ids /\ e[2] \in Nat /\ e = <<e[1], e[2]>>
  BY NetType
<1>3. net' # net
  <2>1. Len(net[a][b]) \in Nat
    BY <1>t DEF Networks
  <2> QED
    BY <2>1
<1>4. Current(n, e) /\ End(net, n, e[1], "timeout")
  BY <1>1, <1>3
<1>5. sessions[n][e[1]].peer \in Nodes
  BY <1>2, <1>4, Peer DEF IInv, Current
<1>6. KillMsg(e[1], "timeout") \in Frames
  BY <1>2 DEF KillMsg, Frames
<1> DEFINE fs == <<KillMsg(e[1], "timeout")>>
<1>7. fs \in Seq(Frames) /\ Len(fs) = 1 /\ fs[1] = KillMsg(e[1], "timeout")
  BY <1>6
<1>8. net' = Send(net, n, sessions[n][e[1]].peer, fs)
  BY <1>4 DEF End
<1> HIDE DEF fs
<1>9. a = n /\ net'[a][b][Len(net'[a][b])] = fs[Len(fs)]
  BY <1>5, <1>7, <1>8, <1>t, LastSent
<1>10. s = e[1]
  <2>1. KillMsg(s, "timeout") = KillMsg(e[1], "timeout")
    BY <1>7, <1>9
  <2>2. KillMsg(s, "timeout").id = s /\ KillMsg(e[1], "timeout").id = e[1]
    BY DEF KillMsg
  <2> QED
    BY <2>1, <2>2
<1>11. <<s, e[2]>> \in expired[n]
  BY <1>2, <1>10
<1>12. TimersTrue(n, s)
  BY DEF AskInv
<1>13. sessions[n][s].timerGeneration = e[2]
  BY <1>4, <1>10 DEF Current
<1> QED
  BY <1>2, <1>9, <1>11, <1>12, <1>13 DEF TimersTrue

\* resetInactivityTimer's generations: however the timer's handlers queue up behind inputs
\* and outputs, a session is not told that it timed out while a later timer is running.
THEOREM TimeoutIsDue == Spec => ActiveIsNotTimedOut
<1>1. ASSUME IInv, IInv', AskInv, [Next]_vars,
             NEW n \in Nodes, NEW m \in Nodes, NEW s \in Ids,
             Len(net'[n][m]) > Len(net[n][m]),
             net'[n][m][Len(net'[n][m])] = KillMsg(s, "timeout")
      PROVE  ~sessions[n][s].armed
  <2>1. Len(net[n][m]) \in Nat
    BY <1>1, NetType DEF Networks
  <2>2. net' # net
    BY <1>1, <2>1
  <2>3. Next
    BY <1>1, <2>2 DEF vars
  <2>4. SaysTimeout(net')
    BY <1>1 DEF SaysTimeout
  <2>5. \E q \in Nodes : OnTimer(q)
    BY <1>1, <2>3, <2>4, OthersDoNotSay
  <2> QED
    BY <1>1, <2>5, TimerSays
<1>2. IInv /\ IInv' /\ AskInv /\ [Next]_vars =>
        \A n, m \in Nodes, s \in Ids :
          /\ Len(net'[n][m]) > Len(net[n][m])
          /\ net'[n][m][Len(net'[n][m])] = KillMsg(s, "timeout")
          => ~sessions[n][s].armed
  BY <1>1
<1> QED
  BY <1>2, AskInvariance, PTL DEF Spec, ActiveIsNotTimedOut
=============================================================================
