------------------------- MODULE GroupManagerProofs -------------------------
(***************************************************************************)
(* Proofs about GroupManager, for any groups, messages, joins and ends of  *)
(* the program: what the database, the connections, the screen and the     *)
(* server hold of a group agrees.                                          *)
(***************************************************************************)
EXTENDS GroupManager, SequenceTheorems, TLAPS

-----------------------------------------------------------------------------
(* Types. *)

\* A Conn whose thread has not returned has attempts left.
Conns == {c \in Conn : c.wsThread # "returned" => c.reconnAttempts <= kMaxReconnAttempts}

MemoryType ==
    /\ m_conns \in [Groups -> Conns]
    /\ shown \subseteq Groups /\ wantsOut \subseteq Groups
    /\ rejoined \subseteq Groups /\ leftEarly \subseteq Groups
    /\ unknown \subseteq Tokens \cup {NoToken}
    /\ up \in BOOLEAN
JoinsType == joins \in [Tokens -> Join \cup {Uncalled}] /\ ui \in Calls
RowsType ==
    /\ stored \in [Groups -> Tokens \cup {NoToken}]
    /\ rows \in [Groups -> SUBSET Messages] /\ missed \in [Groups -> SUBSET Messages]
    /\ unsaved \subseteq Groups /\ undeleted \subseteq Groups /\ skipped \subseteq Groups
    /\ dbFails \in 0 .. MaxFaults
ServerType ==
    /\ members \in [Groups -> SUBSET Tokens]
    /\ requests \subseteq Groups \X (Tokens \cup {NoToken})
    /\ posted \in [Groups -> SUBSET Messages]
    /\ wire \in [Groups -> Seq(Frames)]
BoundsType == fails \in 0 .. MaxFaults /\ stops \in 0 .. MaxStops

Types == MemoryType /\ JoinsType /\ RowsType /\ ServerType /\ BoundsType

LEMMA ConnTypes ==
    /\ NoConn \in Conns
    /\ \A t \in Tokens : NewConn(t) \in Conns /\ NewConn(t).token = t
    /\ \A c \in Conns : \A t \in Tokens : [c EXCEPT !.token = t] \in Conns
    /\ \A c \in Conns : c.wsThread # "returned" => Started(c) \in Conns
    /\ \A c \in Conns : \A b \in BOOLEAN : [c EXCEPT !.stopRequested = b] \in Conns
<1> USE GroupAssumption DEF Conns, Conn, NoToken
<1>1. NoConn \in Conns
  BY DEF NoConn
<1>2. ASSUME NEW t \in Tokens PROVE NewConn(t) \in Conns /\ NewConn(t).token = t
  <2> DEFINE c == [NoConn EXCEPT !.token = t]
  <2>1. c \in Conn /\ c.token = t /\ c.reconnAttempts = 0
    BY <1>1 DEF NoConn
  <2>2. NewConn(t) = [c EXCEPT !.wsThread = "unset"]
    BY DEF NewConn
  <2> HIDE DEF c
  <2> QED
    BY <2>1, <2>2
<1>3. \A c \in Conns : \A t \in Tokens : [c EXCEPT !.token = t] \in Conns
  OBVIOUS
<1>4. \A c \in Conns : c.wsThread # "returned" => Started(c) \in Conns
  BY DEF Started
<1>5. \A c \in Conns : \A b \in BOOLEAN : [c EXCEPT !.stopRequested = b] \in Conns
  OBVIOUS
<1> QED
  BY <1>1, <1>2, <1>3, <1>4, <1>5

LEMMA RetryType ==
    ASSUME NEW c \in Conns, c.wsThread # "returned"
    PROVE  /\ Retry(c) \in Conns /\ Retry(c).token = c.token
           /\ Retry(c).wsThread \in {"returned", "asleep"}
           /\ Retry(c).curl = c.curl /\ Retry(c).handle = c.handle
<1> DEFINE d == [c EXCEPT !.reconnAttempts = @ + 1,
                         !.wsThread = IF c.reconnAttempts + 1 > kMaxReconnAttempts
                                      THEN "returned" ELSE "asleep"]
<1>1. c.reconnAttempts \in 0 .. kMaxReconnAttempts
  BY GroupAssumption DEF Conns, Conn
<1>2. CASE c.stopRequested
  <2>1. Retry(c) = [c EXCEPT !.wsThread = "returned"]
    BY <1>2 DEF Retry, Again
  <2> QED
    BY <2>1, GroupAssumption DEF Conns, Conn
<1>3. CASE ~c.stopRequested
  <2>1. Retry(c) = d
    BY <1>3 DEF Retry, Again
  <2> DEFINE e == [c EXCEPT !.reconnAttempts = @ + 1]
             w == IF c.reconnAttempts + 1 > kMaxReconnAttempts THEN "returned" ELSE "asleep"
  <2>2. /\ e \in Conn /\ e.reconnAttempts = c.reconnAttempts + 1
        /\ e.token = c.token /\ e.curl = c.curl /\ e.handle = c.handle
    BY <1>1, GroupAssumption DEF Conns, Conn
  <2>3. d = [e EXCEPT !.wsThread = w]
    OBVIOUS
  <2>4. w \in {"returned", "asleep"}
    OBVIOUS
  <2>5. /\ d \in Conn /\ d.reconnAttempts = c.reconnAttempts + 1 /\ d.wsThread = w
        /\ d.token = c.token /\ d.curl = c.curl /\ d.handle = c.handle
    <3> HIDE DEF d, e, w
    <3> QED
      BY <2>2, <2>3, <2>4 DEF Conn
  <2>6. d.wsThread # "returned" => d.reconnAttempts <= kMaxReconnAttempts
    <3> HIDE DEF d
    <3> QED
      BY <1>1, <2>5, GroupAssumption
  <2> HIDE DEF d, w
  <2> QED
    BY <2>1, <2>4, <2>5, <2>6 DEF Conns
<1> QED
  BY <1>2, <1>3

LEMMA FrameType == \A t \in {"history", "msg"} : \A S \in SUBSET Messages : Frame(t, S) \in Frames
BY DEF Frame, Frames

LEMMA TypesInit == Init => Types
BY ConnTypes, GroupAssumption
   DEF Init, Types, MemoryType, JoinsType, RowsType, ServerType, BoundsType, Idle, Calls

-----------------------------------------------------------------------------
(* What holds of a group that was joined and left with patience. *)

JoinsOf(g, t) == Active(t) /\ joins[t].group = g
Leaving(g) == ui.op \in {"join_thread", "delete", "delete_row"} /\ ui.group = g
Deleting(g) == Leaving(g) /\ ui.op # "join_thread"

\* A row may be left from earlier; a token is in the row unless saveGroup failed.
Odd(g) == g \in undeleted \cup skipped
Kept(g, t) == stored[g] = t \/ g \in unsaved

\* There is one join at a time, and no leave meanwhile.
OneJoin(g) ==
    \A t \in Tokens : JoinsOf(g, t) =>
        /\ ~At(t, "astray") /\ ~Leaving(g)
        /\ \A u \in Tokens : JoinsOf(g, u) => u = t

\* What a join has done so far is what there is.
JoinSoFar(g) ==
    \A t \in Tokens : JoinsOf(g, t) =>
        /\ At(t, "post") \/ At(t, "reply") =>
               (stored[g] = NoToken \/ Odd(g)) /\ g \notin shown /\ ~Found(g)
        /\ At(t, "saved") => Kept(g, t) /\ g \notin shown
        /\ At(t, "joined") => Kept(g, t) /\ g \in shown
        /\ At(t, "start") => Kept(g, t) /\ g \in shown /\ Found(g)

\* Otherwise the row, the screen and the Conn are there together, but for a failure and for
\* a leave that has destroyed the Conn.
Settled(g) ==
    up /\ ~Joining(g) =>
        /\ g \in shown => stored[g] # NoToken \/ g \in unsaved
        /\ stored[g] # NoToken => g \in shown \/ Odd(g)
        /\ Leaving(g) => g \in shown
        /\ Deleting(g) => ~Found(g)
        /\ ~Deleting(g) => (g \in shown <=> Found(g))

\* A Conn has the token of the row, and a leave that of the Conn.
OneToken(g) ==
    /\ Found(g) => Kept(g, m_conns[g].token)
    /\ Leaving(g) /\ ~Deleting(g) => ui.token = m_conns[g].token

\* The messages go before the row.
Emptied(g) == Leaving(g) /\ ui.op = "delete_row" => rows[g] = {} \/ g \in undeleted

GroupInv(g) ==
    OneJoin(g) /\ JoinSoFar(g) /\ Settled(g) /\ OneToken(g) /\ Emptied(g) /\ RowsHaveGroup(g)

\* Memory is empty when the program does not run.
OffInv ==
    ~up => /\ \A g \in Groups : ~Found(g)
           /\ \A t \in Tokens : ~Active(t)
           /\ shown = {} /\ ui = Idle

\* The thread that connectGroup is about to start belongs to a Conn that has none.
StartInv ==
    \A t \in Tokens : At(t, "start") =>
        /\ m_conns[joins[t].group].wsThread = "unset"
        /\ \A u \in Tokens : At(u, "start") /\ joins[u].group = joins[t].group => u = t

IInv == Types /\ OffInv /\ StartInv /\ \A g \in Groups : Patient(g) => GroupInv(g)

\* A member's token is that of a join of the group.
TokenInv == \A g \in Groups : \A t \in members[g] : joins[t].at # "uncalled" /\ joins[t].group = g

\* Somebody holds the member's token: a join that has no Conn yet, a request, the Conn, or
\* a row that no Conn was made from.
Held(g, t) ==
    \/ t \in unknown
    \/ Active(t) /\ ~At(t, "start")
    \/ <<g, t>> \in requests
    \/ Found(g) /\ m_conns[g].token = t
    \/ (~up \/ g \in skipped) /\ stored[g] = t

MemberInv == TokenInv /\ \A g \in Groups : Patient(g) => \A t \in members[g] : Held(g, t)

\* What was posted to a group that is online is saved, or on the wire, or known as missed.
NothingMissed(g) ==
    Thread(g, "online") =>
        \A m \in posted[g] : \/ m \in rows[g] \cup missed[g]
                              \/ \E i \in DOMAIN wire[g] : m \in wire[g][i].messages

-----------------------------------------------------------------------------
(* Steps and types. *)

\* A failure stays within the bound.
LEMMA FailBounds ==
    ASSUME Types
    PROVE  /\ Fail => BoundsType' /\ fails' = fails + 1 /\ stops' = stops
           /\ DbFail => dbFails' \in 0 .. MaxFaults
<1>1. Haste \in Nat
  BY DEF Haste
<1> QED
  BY <1>1, GroupAssumption DEF Types, BoundsType, RowsType, Fail, DbFail, MayFail

Pcs == {"post", "reply", "saved", "joined", "start", "astray", "done"}

\* A join that goes on is the same join.
LEMMA GoesOn ==
    ASSUME JoinsType, NEW t \in Tokens, NEW pc \in Pcs, joins[t].at # "uncalled", Goes(t, pc)
    PROVE  /\ joins' \in [Tokens -> Join \cup {Uncalled}]
           /\ joins'[t].at = pc /\ joins'[t].group = joins[t].group
           /\ \A u \in Tokens \ {t} : joins'[u] = joins[u]
<1>1. joins[t] \in Join
  BY DEF JoinsType, Uncalled
<1>2. [joins[t] EXCEPT !.at = pc] \in Join
  BY <1>1 DEF Join, Pcs
<1> QED
  BY <1>1, <1>2 DEF Goes, JoinsType, Join

\* One that has been called is of a group.
LEMMA GroupOfJoin ==
    ASSUME JoinsType, NEW t \in Tokens, joins[t].at # "uncalled"
    PROVE  joins[t] \in Join /\ joins[t].group \in Groups
BY DEF JoinsType, Uncalled, Join

LEMMA JoinTypes ==
    ASSUME Types, StartInv, NEW t \in Tokens, JoinStep(t) \/ JoinFails(t)
    PROVE  Types'
<1> USE DEF Types, At, Pcs
<1>1. joins[t].at # "uncalled" /\ joins[t].group \in Groups
  BY GroupOfJoin DEF JoinStep, ServerJoin, SaveGroup, OnGroupJoined, JoinConnects, JoinStarts,
     JoinFails
<1> DEFINE h == joins[t].group
<1>2. CASE ServerJoin(t)
  <2>1. JoinsType'
    BY <1>1, <1>2, GoesOn DEF ServerJoin, JoinsType
  <2>2. ServerType'
    BY <1>1, <1>2 DEF ServerJoin, ServerType
  <2> QED
    BY <1>2, <2>1, <2>2 DEF ServerJoin, MemoryType, RowsType, BoundsType, history, disk, faults, bounds
<1>3. CASE JoinFails(t)
  <2>1. JoinsType'
    BY <1>1, <1>3, GoesOn DEF JoinFails, JoinsType
  <2>2. BoundsType'
    BY <1>3, FailBounds DEF JoinFails
  <2> QED
    BY <1>3, <2>1, <2>2 DEF JoinFails, Lost, MemoryType, RowsType, ServerType, disk, faults, server
<1>4. CASE SaveGroup(t)
  <2>1. JoinsType'
    BY <1>1, <1>4, GoesOn DEF SaveGroup, JoinsType
  <2>2. RowsType'
    BY <1>1, <1>4, FailBounds DEF SaveGroup, StoreGroup, RowsType
  <2>3. MemoryType'
    BY <1>1, <1>4 DEF SaveGroup, Lost, Unread, MemoryType, RowsType
  <2> QED
    BY <1>4, <2>1, <2>2, <2>3 DEF SaveGroup, ServerType, BoundsType, server, bounds
<1>5. CASE OnGroupJoined(t)
  <2>1. JoinsType'
    BY <1>1, <1>5, GoesOn DEF OnGroupJoined, JoinsType
  <2>2. MemoryType'
    BY <1>1, <1>5 DEF OnGroupJoined, MemoryType, history
  <2> QED
    BY <1>5, <2>1, <2>2 DEF OnGroupJoined, RowsType, ServerType, BoundsType, disk, faults, server, bounds
<1>6. CASE JoinConnects(t)
  <2>1. JoinsType'
    BY <1>1, <1>6, GoesOn DEF JoinConnects, JoinsType
  <2>2. MemoryType'
    <3>1. m_conns[h] \in Conns
      BY <1>1 DEF MemoryType
    <3>2. (IF Found(h) THEN [m_conns[h] EXCEPT !.token = t] ELSE NewConn(t)) \in Conns
      BY <3>1, ConnTypes
    <3> QED
      BY <1>1, <1>6, <3>1, <3>2 DEF JoinConnects, Emplaced, Lost, Replaced, MemoryType, Conns, Conn
  <2> QED
    BY <1>6, <2>1, <2>2 DEF JoinConnects, RowsType, ServerType, BoundsType, disk, faults, server, bounds
<1>7. CASE JoinStarts(t)
  <2>1. JoinsType'
    BY <1>1, <1>7, GoesOn DEF JoinStarts, JoinsType
  <2>2. MemoryType'
    <3>1. m_conns[h] \in Conns
      BY <1>1 DEF MemoryType
    <3> QED
      BY <1>1, <1>7, <3>1, ConnTypes DEF JoinStarts, MemoryType, history, StartInv
  <2> QED
    BY <1>7, <2>1, <2>2 DEF JoinStarts, RowsType, ServerType, BoundsType, disk, faults, server, bounds
<1> QED
  BY <1>2, <1>3, <1>4, <1>5, <1>6, <1>7 DEF JoinStep

LEMMA UserTypes ==
    ASSUME Types, NEW g \in Groups, JoinGroup(g) \/ ConnectGroup(g) \/ LeaveGroup(g)
    PROVE  Types'
<1> USE DEF Types, Ready
<1>1. m_conns[g] \in Conns
  BY DEF MemoryType
<1>2. CASE JoinGroup(g)
  <2>1. PICK t \in Tokens : joins' = [joins EXCEPT ![t] = [group |-> g, at |-> "post"]]
    BY <1>2 DEF JoinGroup
  <2>2. [group |-> g, at |-> "post"] \in Join
    BY DEF Join
  <2>3. JoinsType'
    BY <1>2, <2>1, <2>2 DEF JoinsType, JoinGroup
  <2>4. MemoryType'
    BY <1>2 DEF JoinGroup, MemoryType
  <2> QED
    BY <1>2, <2>3, <2>4 DEF JoinGroup, RowsType, ServerType, BoundsType, disk, faults, server, bounds
<1>3. CASE ConnectGroup(g)
  <2>1. stored[g] \in Tokens
    BY <1>3 DEF ConnectGroup, RowsType
  <2>2. NewConn(stored[g]).wsThread # "returned"
    BY DEF NewConn, NoConn
  <2>3. (IF Found(g) THEN [m_conns[g] EXCEPT !.token = stored[g]]
                     ELSE Started(NewConn(stored[g]))) \in Conns
    BY <1>1, <2>1, <2>2, ConnTypes
  <2>4. MemoryType'
    BY <1>1, <1>3, <2>3 DEF ConnectGroup, Lost, Replaced, MemoryType, Conns, Conn
  <2> QED
    BY <1>3, <2>4 DEF ConnectGroup, JoinsType, RowsType, ServerType, BoundsType, disk, faults, server,
       bounds
<1>4. CASE LeaveGroup(g)
  <2>1. [m_conns[g] EXCEPT !.stopRequested = TRUE] \in Conns
    BY <1>1, ConnTypes
  <2>2. m_conns[g].token \in Tokens \cup {NoToken}
    BY <1>1 DEF Conns, Conn
  <2>3. m_conns' \in [Groups -> Conns]
    BY <1>4, <2>1 DEF LeaveGroup, MemoryType
  <2>4. ui' \in Calls
    BY <1>4, <2>2 DEF LeaveGroup, JoinsType, Calls
  <2> QED
    BY <1>4, <2>3, <2>4 DEF LeaveGroup, MemoryType, JoinsType, RowsType, ServerType, BoundsType,
       disk, faults, server, bounds
<1> QED
  BY <1>2, <1>3, <1>4

LEMMA LeaveTypes ==
    ASSUME Types, NEW g \in Groups,
           LeaveStep(g) \/ Sends(g) \/ \E t \in Tokens : ServerLeave(g, t)
    PROVE  Types'
<1> USE DEF Types
<1>1. CASE LeaveJoined(g)
  <2>1. ui.token \in Tokens \cup {NoToken} /\ ui' \in Calls
    BY <1>1 DEF LeaveJoined, LeaveAtOnce, JoinsType, Calls
  <2>2. joins' \in [Tokens -> Join \cup {Uncalled}]
    <3>1. ASSUME NEW t \in Tokens, At(t, "start") PROVE [joins[t] EXCEPT !.at = "astray"] \in Join
      BY <3>1, GroupOfJoin DEF At, Join
    <3> QED
      BY <1>1, <3>1 DEF LeaveJoined, LeaveAtOnce, JoinsType
  <2>3. m_conns' \in [Groups -> Conns]
    BY <1>1, ConnTypes DEF LeaveJoined, LeaveAtOnce, MemoryType
  <2>4. requests' \subseteq Groups \X (Tokens \cup {NoToken})
    BY <1>1, <2>1 DEF LeaveJoined, ServerType
  <2> QED
    BY <1>1, <2>1, <2>2, <2>3, <2>4
       DEF LeaveJoined, LeaveAtOnce, MemoryType, JoinsType, RowsType, ServerType, BoundsType,
           history, disk, faults, bounds
<1>2. CASE LeaveDeleted(g)
  <2>1. RowsType'
    BY <1>2, FailBounds DEF LeaveDeleted, StoreGroup, RowsType, NoToken
  <2>2. MemoryType'
    BY <1>2 DEF LeaveDeleted, Lost, Unread, MemoryType, RowsType
  <2> QED
    BY <1>2, <2>1, <2>2 DEF LeaveDeleted, JoinsType, ServerType, BoundsType, Calls, Idle, server,
       bounds
<1>5. CASE LeaveMessages(g)
  <2>1. ui' \in Calls
    BY <1>5 DEF LeaveMessages, JoinsType, Calls
  <2>2. RowsType'
    BY <1>5, FailBounds DEF LeaveMessages, DeleteMessages, RowsType
  <2> QED
    BY <1>5, <2>1, <2>2 DEF LeaveMessages, MemoryType, JoinsType, ServerType, BoundsType, history,
       server, bounds
<1>3. CASE \E t \in Tokens : ServerLeave(g, t)
  <2>1. BoundsType'
    BY <1>3, FailBounds DEF ServerLeave, BoundsType, bounds
  <2>2. members' \in [Groups -> SUBSET Tokens] /\ requests' \subseteq requests
    BY <1>3 DEF ServerLeave, ServerType
  <2> QED
    BY <1>3, <2>1, <2>2
       DEF ServerLeave, Lost, MemoryType, JoinsType, RowsType, ServerType, disk, faults
<1>4. CASE Sends(g)
  <2>1. ui.op = "send" => ui.message \in Messages
    BY DEF JoinsType, Calls
  <2>2. BoundsType'
    BY <1>4, FailBounds DEF Sends, BoundsType, bounds
  <2>3. Frame("msg", {ui.message}) \in Frames
    BY <1>4, <2>1, FrameType DEF Sends
  <2>4. posted' \in [Groups -> SUBSET Messages]
    BY <1>4, <2>1 DEF Sends, Posts, ServerType
  <2>5. wire' \in [Groups -> Seq(Frames)]
    <3>1. Append(wire[g], Frame("msg", {ui.message})) \in Seq(Frames)
      BY <2>3 DEF ServerType
    <3> QED
      BY <1>4, <3>1 DEF Sends, Posts, ServerType
  <2> QED
    BY <1>4, <2>2, <2>4, <2>5
       DEF Sends, MemoryType, JoinsType, RowsType, ServerType, Calls, Idle, history, disk, faults
<1> QED
  BY <1>1, <1>2, <1>3, <1>4, <1>5 DEF LeaveStep

Follows(d, c) ==
    /\ d.token = c.token
    /\ d.wsThread \notin {"none", "unset"}
    /\ (c.curl => c.handle) => (d.curl => d.handle)

\* What a WebSocket thread does is to its own Conn, which stays, with its token.
LEMMA WsEffect ==
    ASSUME Types, NEW g \in Groups, WsStep(g)
    PROVE  /\ \E d \in Conns : m_conns' = [m_conns EXCEPT ![g] = d] /\ Follows(d, m_conns[g])
           /\ m_conns[g].wsThread \notin {"none", "unset", "returned"}
           /\ UNCHANGED <<LocalButConns, stored, unsaved, undeleted, skipped, members, requests,
                          posted>>
           /\ BoundsType'
<1> DEFINE c == m_conns[g]
           Goal == \E d \in Conns : m_conns' = [m_conns EXCEPT ![g] = d] /\ Follows(d, c)
<1>1. c \in Conns
  BY DEF Types, MemoryType
<1>2. [m_conns EXCEPT ![g] = c] = m_conns
  BY DEF Types, MemoryType
<1>3. c.wsThread \notin {"none", "unset", "returned"}
  BY DEF WsStep, Dials, DialFails, Dialled, Receives, Closes, CleansUp, Wakes, Thread
<1>4. /\ UNCHANGED <<LocalButConns, stored, unsaved, undeleted, skipped, members, requests, posted>>
      /\ BoundsType'
  <2> USE DEF LocalButConns, history, disk, faults, server, bounds, local
  <2>1. CASE Dials(g) \/ Dialled(g) \/ Receives(g) \/ CleansUp(g) \/ Wakes(g)
    BY <2>1 DEF Dials, Dialled, Receives, CleansUp, Wakes, Types, BoundsType
  <2>2. CASE DialFails(g) \/ Closes(g)
    BY <2>2, FailBounds DEF DialFails, Closes, Types, BoundsType
  <2> QED
    BY <2>1, <2>2 DEF WsStep
<1> USE DEF Thread, Moves, Follows
<1>5. ASSUME Dials(g) PROVE Goal
  <2> DEFINE d == [c EXCEPT !.wsThread = "dial"]
             e == [d EXCEPT !.url = c.token]
             r == [c EXCEPT !.wsThread = "returned"]
  <2>1. /\ r \in Conns /\ r.token = c.token /\ r.wsThread = "returned"
        /\ r.curl = c.curl /\ r.handle = c.handle
    BY <1>1 DEF Conns, Conn
  <2>2. /\ d \in Conn /\ d.token = c.token /\ d.wsThread = "dial"
        /\ d.curl = c.curl /\ d.handle = c.handle /\ d.reconnAttempts = c.reconnAttempts
    BY <1>1 DEF Conns, Conn
  <2>3. /\ e \in Conns /\ e.token = c.token /\ e.wsThread = "dial"
        /\ e.curl = c.curl /\ e.handle = c.handle
    <3>1. c.token \in Tokens \cup {NoToken} /\ c.reconnAttempts <= kMaxReconnAttempts
      BY <1>1, <1>3 DEF Conns, Conn
    <3> HIDE DEF c, d
    <3> QED
      BY <3>1, <2>2 DEF Conns, Conn
  <2>4. m_conns' = [m_conns EXCEPT ![g] = IF c.stopRequested THEN r ELSE e]
    BY <1>5 DEF Dials
  <2> HIDE DEF c, e, r
  <2> QED
    BY <2>1, <2>3, <2>4
<1>6. ASSUME DialFails(g) PROVE Goal
  <2>1. /\ Retry(c) \in Conns /\ Retry(c).token = c.token
        /\ Retry(c).wsThread \in {"returned", "asleep"}
        /\ Retry(c).curl = c.curl /\ Retry(c).handle = c.handle
    BY <1>1, <1>3, RetryType
  <2>2. m_conns' = [m_conns EXCEPT ![g] = Retry(c)]
    BY <1>6 DEF DialFails
  <2> HIDE DEF c
  <2> QED
    BY <2>1, <2>2
<1>7. ASSUME Dialled(g) PROVE Goal
  <2> DEFINE c1 == [c EXCEPT !.wsThread = "online"]
             c2 == [c1 EXCEPT !.curl = TRUE]
             c3 == [c2 EXCEPT !.handle = TRUE]
             d == [c3 EXCEPT !.reconnAttempts = 0]
  <2>1. c1 \in Conn /\ c1.token = c.token /\ c1.wsThread = "online"
    BY <1>1 DEF Conns, Conn
  <2>2. c2 \in Conn /\ c2.token = c.token /\ c2.wsThread = "online"
    <3> HIDE DEF c1
    <3> QED
      BY <2>1 DEF Conn
  <2>3. c3 \in Conn /\ c3.token = c.token /\ c3.wsThread = "online" /\ c3.handle = TRUE
    <3> HIDE DEF c2
    <3> QED
      BY <2>2 DEF Conn
  <2>4. d \in Conns /\ d.token = c.token /\ d.wsThread = "online" /\ d.handle = TRUE
    <3> HIDE DEF c, c3
    <3> QED
      BY <2>3, GroupAssumption DEF Conn, Conns
  <2>5. m_conns' = [m_conns EXCEPT ![g] = d]
    BY <1>7 DEF Dialled, Connected
  <2> HIDE DEF c, d
  <2> QED
    BY <2>4, <2>5
<1>8. ASSUME Receives(g) PROVE Goal
  <2>1. m_conns' = m_conns
    BY <1>8 DEF Receives, local
  <2> HIDE DEF c
  <2> QED
    BY <1>1, <1>2, <1>3, <2>1
<1>9. ASSUME Closes(g) PROVE Goal
  <2> DEFINE d == [c EXCEPT !.wsThread = "closing"]
             e == [d EXCEPT !.curl = FALSE]
  <2>1. d \in Conns /\ d.token = c.token /\ d.wsThread = "closing"
    BY <1>1, <1>3 DEF Conns, Conn
  <2>2. e \in Conns /\ e.token = c.token /\ e.wsThread = "closing" /\ e.curl = FALSE
    <3> HIDE DEF c, d
    <3> QED
      BY <2>1 DEF Conns, Conn
  <2>3. m_conns' = [m_conns EXCEPT ![g] = e]
    BY <1>9 DEF Closes, Cleared
  <2> HIDE DEF c, e
  <2> QED
    BY <2>2, <2>3
<1>10. ASSUME CleansUp(g) PROVE Goal
  <2> DEFINE d == [c EXCEPT !.handle = FALSE]
             e == [d EXCEPT !.curl = FALSE]
  <2>1. d \in Conns /\ d.token = c.token /\ d.wsThread = "closing"
    BY <1>1, <1>10 DEF Conns, Conn, CleansUp
  <2>2. e \in Conns /\ e.token = c.token /\ e.wsThread = "closing" /\ e.curl = FALSE
    <3> HIDE DEF c, d
    <3> QED
      BY <2>1 DEF Conns, Conn
  <2>3. m_conns' = [m_conns EXCEPT ![g] = Retry(e)]
    BY <1>10 DEF CleansUp
  <2> HIDE DEF c, e
  <2>4. /\ Retry(e) \in Conns /\ Retry(e).token = e.token
        /\ Retry(e).wsThread \in {"returned", "asleep"} /\ Retry(e).curl = e.curl
    BY <2>2, RetryType
  <2> QED
    BY <2>2, <2>3, <2>4
<1>11. ASSUME Wakes(g) PROVE Goal
  <2>1. /\ Started(c).token = c.token /\ Started(c).wsThread = "top"
        /\ Started(c).curl = c.curl /\ Started(c).handle = c.handle
    BY <1>1 DEF Started, Conns, Conn
  <2>2. Started(c) \in Conns /\ m_conns' = [m_conns EXCEPT ![g] = Started(c)]
    BY <1>1, <1>3, <1>11, ConnTypes DEF Wakes
  <2> HIDE DEF c
  <2> QED
    BY <2>1, <2>2
<1> HIDE DEF Goal
<1>12. Goal
  BY <1>5, <1>6, <1>7, <1>8, <1>9, <1>10, <1>11 DEF WsStep
<1> QED
  BY <1>3, <1>4, <1>12 DEF Goal

LEMMA WsTypes ==
    ASSUME Types, NEW g \in Groups, WsStep(g)
    PROVE  Types'
<1>1. MemoryType'
  BY WsEffect DEF Types, MemoryType, LocalButConns, history
<1>2. JoinsType' /\ BoundsType'
  BY WsEffect DEF Types, JoinsType, LocalButConns
<1>3. RowsType' /\ ServerType'
  <2>1. wire[g] \in Seq(Frames) /\ Frame("history", posted[g]) \in Frames
    BY FrameType DEF Types, ServerType
  <2>2. wire' \in [Groups -> Seq(Frames)]
    <3>1. /\ <<Frame("history", posted[g])>> \in Seq(Frames) /\ <<>> \in Seq(Frames)
          /\ wire[g] # <<>> => Tail(wire[g]) \in Seq(Frames)
      BY <2>1
    <3>2. \/ wire' = wire
          \/ wire' = [wire EXCEPT ![g] = <<Frame("history", posted[g])>>]
          \/ wire[g] # <<>> /\ wire' = [wire EXCEPT ![g] = Tail(@)]
          \/ wire' = [wire EXCEPT ![g] = <<>>]
      BY DEF WsStep, Dials, DialFails, Dialled, Receives, Closes, CleansUp, Wakes, server
    <3> QED
      BY <3>1, <3>2 DEF Types, ServerType
  <2>3. /\ rows' \in [Groups -> SUBSET Messages] /\ missed' \in [Groups -> SUBSET Messages]
        /\ dbFails' \in 0 .. MaxFaults
    <3>1. CASE Receives(g)
      <4>1. Head(wire[g]) \in Frames
        BY <2>1, <3>1 DEF Receives
      <4>2. Saves(g) \subseteq Messages
        BY <4>1 DEF Saves, Frames
      <4> QED
        BY <3>1, <4>2, FailBounds DEF Receives, StoreMessages, Types, RowsType
    <3>2. CASE Dialled(g)
      BY <3>2 DEF Dialled, Types, RowsType
    <3>3. CASE ~Receives(g) /\ ~Dialled(g)
      BY <3>3 DEF WsStep, Dials, DialFails, Closes, CleansUp, Wakes, disk, faults, Types, RowsType
    <3> QED
      BY <3>1, <3>2, <3>3
  <2> QED
    BY <2>2, <2>3, WsEffect DEF Types, RowsType, ServerType
<1> QED
  BY <1>1, <1>2, <1>3 DEF Types

LEMMA PostTypes ==
    ASSUME Types, NEW g \in Groups, NEW m \in Messages, PeerPosts(g, m) \/ SendMessage(g, m)
    PROVE  Types'
<1>1. CASE PeerPosts(g, m)
  <2>1. wire[g] \in Seq(Frames) /\ Frame("msg", {m}) \in Frames
    BY FrameType DEF Types, ServerType
  <2>2. Append(wire[g], Frame("msg", {m})) \in Seq(Frames)
    BY <2>1
  <2>3. ServerType'
    BY <1>1, <2>2 DEF PeerPosts, Posts, Types, ServerType
  <2> QED
    BY <1>1, <2>3 DEF PeerPosts, Types, MemoryType, JoinsType, RowsType, BoundsType, local, history,
       disk, faults, bounds
<1>2. CASE SendMessage(g, m)
  BY <1>2 DEF SendMessage, Types, MemoryType, JoinsType, RowsType, ServerType, BoundsType, Calls,
     history, disk, faults, server, bounds
<1> QED
  BY <1>1, <1>2

LEMMA DownTypes ==
    ASSUME Types, Down, BoundsType'
    PROVE  Types'
<1>1. joins' \in [Tokens -> Join \cup {Uncalled}]
  <2>1. ASSUME NEW t \in Tokens, Active(t) PROVE [joins[t] EXCEPT !.at = "done"] \in Join
    BY <2>1, GroupOfJoin DEF Active, Join, Types
  <2> QED
    BY <2>1 DEF Down, Types, JoinsType
<1>2. wire' \in [Groups -> Seq(Frames)]
  BY DEF Down
<1>3. m_conns' \in [Groups -> Conns] /\ unknown' \subseteq Tokens \cup {NoToken}
  BY ConnTypes DEF Down, Lost, OnlyInMemory, Types, MemoryType
<1> QED
  BY <1>1, <1>2, <1>3 DEF Down, Types, MemoryType, JoinsType, RowsType, ServerType, Calls, Idle,
     history, disk, faults

LEMMA EndTypes ==
    ASSUME Types, Crash \/ Quit \/ Destroyed \/ Start
    PROVE  Types'
<1>1. CASE Crash
  BY <1>1, DownTypes, GroupAssumption DEF Crash, Types, BoundsType
<1>2. CASE Destroyed
  BY <1>2, DownTypes DEF Destroyed, Types, BoundsType, bounds
<1>3. CASE Quit
  <2>1. ASSUME NEW g \in Groups PROVE StoppedByQuit(m_conns[g]) \in Conns
    BY ConnTypes DEF StoppedByQuit, Types, MemoryType
  <2>2. m_conns' \in [Groups -> Conns] /\ ui' \in Calls
    BY <1>3, <2>1 DEF Quit, Calls
  <2> QED
    BY <1>3, <2>2, GroupAssumption DEF Quit, Types, MemoryType, JoinsType, RowsType, ServerType,
       BoundsType, history, disk, faults, server
<1>4. CASE Start
  <2>1. \A t \in Tokens : NewConn(t).wsThread # "returned"
    BY DEF NewConn, NoConn
  <2>2. PICK readable \in SUBSET AllGroups :
           /\ m_conns' = [g \in Groups |-> IF g \in readable THEN Started(NewConn(stored[g]))
                                                           ELSE NoConn]
           /\ shown' = readable
           /\ skipped' = AllGroups \ readable
           /\ IF readable = AllGroups THEN UNCHANGED dbFails ELSE DbFail
    BY <1>4 DEF Start
  <2>3. ASSUME NEW g \in Groups
        PROVE  (IF g \in readable THEN Started(NewConn(stored[g])) ELSE NoConn) \in Conns
    BY <2>1, ConnTypes DEF AllGroups, Types, RowsType
  <2>4. m_conns' \in [Groups -> Conns] /\ shown' \subseteq Groups
    BY <2>2, <2>3 DEF AllGroups
  <2>5. RowsType'
    BY <1>4, <2>2, FailBounds DEF Start, AllGroups, Types, RowsType
  <2> QED
    BY <1>4, <2>4, <2>5 DEF Start, Types, MemoryType, JoinsType, ServerType, BoundsType, history,
       server, bounds
<1> QED
  BY <1>1, <1>2, <1>3, <1>4

LEMMA TypesNext ==
    ASSUME Types, StartInv, [Next]_vars
    PROVE  Types'
<1>1. CASE UNCHANGED vars
  BY <1>1 DEF vars, local, history, disk, faults, server, bounds, Types, MemoryType, JoinsType, RowsType,
     ServerType, BoundsType
<1> QED
  BY <1>1, UserTypes, JoinTypes, LeaveTypes, WsTypes, PostTypes, EndTypes DEF Next

-----------------------------------------------------------------------------
(* The handle. *)

Safe(c) == c.curl => c.handle

\* What the other operations do to a Conn.
LEMMA ConnFields ==
    /\ NoConn.wsThread = "none" /\ ~NoConn.curl
    /\ \A t \in Tokens : /\ NewConn(t).wsThread = "unset" /\ ~NewConn(t).curl
                         /\ Started(NewConn(t)).wsThread = "top"
                         /\ Started(NewConn(t)).token = t /\ ~Started(NewConn(t)).curl
    /\ \A c \in Conns :
          /\ Started(c).wsThread = "top" /\ Started(c).token = c.token /\ (Safe(c) => Safe(Started(c)))
          /\ \A t \in Tokens :
                /\ [c EXCEPT !.token = t].wsThread = c.wsThread /\ [c EXCEPT !.token = t].token = t
                /\ Safe(c) => Safe([c EXCEPT !.token = t])
          /\ \A b \in BOOLEAN :
                /\ [c EXCEPT !.stopRequested = b].wsThread = c.wsThread
                /\ [c EXCEPT !.stopRequested = b].token = c.token
                /\ Safe(c) => Safe([c EXCEPT !.stopRequested = b])
<1>1. NoConn.wsThread = "none" /\ ~NoConn.curl
  BY DEF NoConn
<1>2. ASSUME NEW c \in Conns
      PROVE  /\ Started(c).wsThread = "top" /\ Started(c).token = c.token
             /\ Safe(c) => Safe(Started(c))
  BY DEF Conns, Conn, Started, Safe
<1>3. ASSUME NEW c \in Conns, NEW t \in Tokens
      PROVE  /\ [c EXCEPT !.token = t].wsThread = c.wsThread /\ [c EXCEPT !.token = t].token = t
             /\ Safe(c) => Safe([c EXCEPT !.token = t])
  BY DEF Conns, Conn, Safe
<1>4. ASSUME NEW c \in Conns, NEW b \in BOOLEAN
      PROVE  /\ [c EXCEPT !.stopRequested = b].wsThread = c.wsThread
             /\ [c EXCEPT !.stopRequested = b].token = c.token
             /\ Safe(c) => Safe([c EXCEPT !.stopRequested = b])
  BY DEF Conns, Conn, Safe
<1>5. ASSUME NEW t \in Tokens
      PROVE  /\ NewConn(t).wsThread = "unset" /\ ~NewConn(t).curl
             /\ Started(NewConn(t)).wsThread = "top"
             /\ Started(NewConn(t)).token = t /\ ~Started(NewConn(t)).curl
  <2>1. NewConn(t).wsThread = "unset" /\ ~NewConn(t).curl
    BY DEF NewConn, NoConn
  <2> QED
    BY <2>1, ConnTypes DEF Conns, Conn, Started
<1> QED
  BY <1>1, <1>2, <1>3, <1>4, <1>5

LEMMA HandleNext ==
    ASSUME Types, StartInv, HandleIsOpen, [Next]_vars
    PROVE  HandleIsOpen'
<1>0. HandleIsOpen <=> \A g \in Groups : Safe(m_conns[g])
  BY DEF HandleIsOpen, Safe
<1> SUFFICES ASSUME NEW h \in Groups PROVE Safe(m_conns'[h])
  BY DEF HandleIsOpen, Safe
<1>1. \A g \in Groups : m_conns[g] \in Conns /\ Safe(m_conns[g])
  BY <1>0 DEF Types, MemoryType
<1> USE DEF Types, MemoryType
<1>2. CASE m_conns' = m_conns
  BY <1>1, <1>2
<1>3. ASSUME NEW t \in Tokens, JoinConnects(t) \/ JoinStarts(t) PROVE Safe(m_conns'[h])
  <2>1. joins[t].group \in Groups
    BY <1>3, GroupOfJoin DEF JoinConnects, JoinStarts, At
  <2>2. ~NewConn(t).curl => Safe(NewConn(t))
    BY DEF Safe
  <2>3. CASE JoinConnects(t)
    BY <1>1, <2>1, <2>2, <2>3, ConnFields DEF JoinConnects, Emplaced
  <2>4. CASE JoinStarts(t)
    BY <1>1, <2>1, <2>4, ConnFields DEF JoinStarts
  <2> QED
    BY <1>3, <2>3, <2>4
<1>4. ASSUME NEW g \in Groups, ConnectGroup(g) \/ LeaveGroup(g) \/ LeaveJoined(g)
      PROVE  Safe(m_conns'[h])
  <2>1. ConnectGroup(g) => stored[g] \in Tokens
    BY DEF ConnectGroup, RowsType
  <2>2. Safe(NoConn) /\ \A t \in Tokens : Safe(Started(NewConn(t)))
    BY ConnFields DEF Safe
  <2>3. CASE ConnectGroup(g)
    BY <1>1, <2>1, <2>2, <2>3, ConnFields DEF ConnectGroup
  <2>4. CASE LeaveGroup(g)
    <3> DEFINE d == [m_conns[g] EXCEPT !.stopRequested = TRUE]
    <3>1. Safe(d)
      BY <1>1, ConnFields
    <3>2. m_conns' = m_conns \/ m_conns' = [m_conns EXCEPT ![g] = d]
      BY <2>4 DEF LeaveGroup
    <3> HIDE DEF d
    <3> QED
      BY <1>1, <3>1, <3>2
  <2>5. CASE LeaveJoined(g)
    BY <1>1, <2>2, <2>5 DEF LeaveJoined, LeaveAtOnce
  <2> QED
    BY <1>4, <2>3, <2>4, <2>5
<1>5. ASSUME NEW g \in Groups, WsStep(g) PROVE Safe(m_conns'[h])
  <2>1. PICK d \in Conns : m_conns' = [m_conns EXCEPT ![g] = d] /\ Follows(d, m_conns[g])
    BY <1>5, WsEffect
  <2> QED
    BY <1>1, <2>1 DEF Follows, Safe
<1>6. CASE Crash \/ Destroyed \/ Start
  BY <1>1, <1>6, ConnFields DEF Crash, Destroyed, Start, Down, Safe, AllGroups, RowsType
<1>7. CASE Quit
  BY <1>1, <1>7, ConnFields DEF Quit, StoppedByQuit
<1> QED
  BY <1>2, <1>3, <1>4, <1>5, <1>6, <1>7
     DEF Next, JoinStep, LeaveStep, JoinGroup, ServerJoin, SaveGroup, OnGroupJoined, JoinFails,
         LeaveMessages, LeaveDeleted, Sends, ServerLeave, PeerPosts, SendMessage, local, vars

-----------------------------------------------------------------------------
(* The groups. *)

LEMMA StartNext ==
    ASSUME Types, OffInv, StartInv, [Next]_vars
    PROVE  StartInv'
<1> USE DEF StartInv, At
<1>1. ASSUME NEW t \in Tokens, JoinStep(t) \/ JoinFails(t) PROVE StartInv'
  <2>1. joins[t].at # "uncalled" /\ joins[t].group \in Groups
    BY <1>1, GroupOfJoin DEF JoinStep, ServerJoin, SaveGroup, OnGroupJoined, JoinConnects,
       JoinStarts, JoinFails, Types
  <2>2. /\ \A u \in Tokens \ {t} : joins'[u] = joins[u]
        /\ joins'[t].group = joins[t].group
        /\ joins'[t].at = "start" => JoinConnects(t) /\ ~Found(joins[t].group)
    BY <1>1, <2>1, GoesOn DEF JoinStep, ServerJoin, SaveGroup, OnGroupJoined, JoinConnects,
       JoinStarts, JoinFails, Types, Pcs
  <2>3. CASE JoinConnects(t)
    <3>1. \A c \in Conns : [c EXCEPT !.token = t].wsThread = c.wsThread
      BY ConnFields
    <3>2. NewConn(t).wsThread = "unset"
      BY ConnFields
    <3>3. \A g \in Groups : m_conns'[g].wsThread =
             IF g = joins[t].group /\ ~Found(g) THEN "unset" ELSE m_conns[g].wsThread
      BY <2>1, <2>3, <3>1, <3>2 DEF JoinConnects, Emplaced, Types, MemoryType
    <3>4. \A u \in Tokens : At(u, "start") => joins[u].group \in Groups
      BY GroupOfJoin DEF Types
    <3>5. ASSUME NEW u \in Tokens, joins'[u].at = "start", u # t
          PROVE  /\ joins'[u] = joins[u]
                 /\ m_conns'[joins[u].group].wsThread = "unset"
                 /\ joins'[t].at = "start" => joins[u].group # joins[t].group
      BY <2>2, <3>3, <3>4, <3>5 DEF Found
    <3>6. joins'[t].at = "start" => m_conns'[joins[t].group].wsThread = "unset"
      BY <2>1, <2>2, <3>3
    <3> QED
      BY <2>2, <3>5, <3>6
  <2>4. CASE JoinStarts(t)
    <3>1. \A u \in Tokens \ {t} : At(u, "start") =>
             m_conns'[joins[u].group] = m_conns[joins[u].group]
      BY <2>1, <2>4, GroupOfJoin DEF JoinStarts, Types, MemoryType
    <3>2. joins'[t].at # "start"
      BY <2>1, <2>4, GoesOn DEF JoinStarts, Types, Pcs
    <3> QED
      BY <2>2, <3>1, <3>2
  <2>5. CASE m_conns' = m_conns /\ ~JoinConnects(t)
    BY <2>2, <2>5
  <2> QED
    BY <1>1, <2>3, <2>4, <2>5 DEF JoinStep, ServerJoin, SaveGroup, OnGroupJoined, JoinFails
<1>2. ASSUME NEW g \in Groups, JoinGroup(g) PROVE StartInv'
  <2>1. PICK t \in Tokens : /\ At(t, "uncalled")
                            /\ joins' = [joins EXCEPT ![t] = [group |-> g, at |-> "post"]]
    BY <1>2 DEF JoinGroup
  <2>2. m_conns' = m_conns
    BY <1>2 DEF JoinGroup
  <2> QED
    BY <2>1, <2>2 DEF Types, JoinsType
<1>3. ASSUME NEW g \in Groups, ConnectGroup(g) \/ LeaveGroup(g) \/ WsStep(g) PROVE StartInv'
  <2>1. joins' = joins
    BY <1>3, WsEffect DEF ConnectGroup, LeaveGroup, LocalButConns
  <2>2. \A h \in Groups : m_conns[h].wsThread = "unset" => m_conns'[h].wsThread = "unset"
    <3>1. CASE ConnectGroup(g)
      <4>1. stored[g] \in Tokens
        BY <3>1 DEF ConnectGroup, Types, RowsType
      <4> QED
        BY <3>1, <4>1, ConnFields DEF ConnectGroup, Types, MemoryType, Found
    <3>2. CASE LeaveGroup(g)
      <4> DEFINE d == [m_conns[g] EXCEPT !.stopRequested = TRUE]
      <4>1. d.wsThread = m_conns[g].wsThread
        BY ConnFields DEF Types, MemoryType
      <4>2. m_conns' = m_conns \/ m_conns' = [m_conns EXCEPT ![g] = d]
        BY <3>2 DEF LeaveGroup
      <4> HIDE DEF d
      <4> QED
        BY <4>1, <4>2 DEF Types, MemoryType
    <3>3. CASE WsStep(g)
      BY <3>3, WsEffect DEF Types, MemoryType
    <3> QED
      BY <1>3, <3>1, <3>2, <3>3
  <2> QED
    BY <2>1, <2>2, GroupOfJoin DEF Types
<1>4. ASSUME NEW g \in Groups, LeaveJoined(g) PROVE StartInv'
  <2>1. \A t \in Tokens : At(t, "start") => joins[t] \in Join
    BY GroupOfJoin DEF Types
  <2>2. \A t \in Tokens : joins'[t].at = "start" => joins'[t] = joins[t] /\ joins[t].group # g
    BY <1>4, <2>1 DEF LeaveJoined, LeaveAtOnce, Join
  <2>3. \A h \in Groups \ {g} : m_conns'[h] = m_conns[h]
    BY <1>4 DEF LeaveJoined, LeaveAtOnce, Types, MemoryType
  <2> QED
    BY <2>1, <2>2, <2>3 DEF Join
<1>5. CASE Quit
  BY <1>5, GroupOfJoin, ConnFields DEF Quit, StoppedByQuit, Types, MemoryType
<1>6. CASE Crash \/ Destroyed
  <2>1. ASSUME NEW t \in Tokens, Active(t) PROVE [joins[t] EXCEPT !.at = "done"].at = "done"
    BY <2>1, GroupOfJoin DEF Active, Join, Types
  <2>2. \A t \in Tokens : joins'[t].at # "start"
    BY <1>6, <2>1 DEF Crash, Destroyed, Down, Active
  <2> QED
    BY <2>2
<1>7. CASE Start
  BY <1>7 DEF Start, OffInv, Active
<1>8. CASE UNCHANGED <<m_conns, joins>>
  BY <1>8
<1> QED
  BY <1>1, <1>2, <1>3, <1>4, <1>5, <1>6, <1>7, <1>8
     DEF Next, LeaveStep, LeaveMessages, LeaveDeleted, Sends, ServerLeave, PeerPosts, SendMessage,
         local, vars

\* Joins that have ended, and Conns that are gone, after the program's end.
LEMMA DownEffect ==
    ASSUME Types, Down
    PROVE  /\ ~up' /\ shown' = {} /\ ui' = Idle
           /\ \A g \in Groups : m_conns'[g] = NoConn
           /\ \A t \in Tokens : joins'[t].at \in {"uncalled", "done"}
<1>1. ASSUME NEW t \in Tokens, Active(t) PROVE [joins[t] EXCEPT !.at = "done"].at = "done"
  BY <1>1, GroupOfJoin DEF Active, Join, Types
<1> QED
  BY <1>1 DEF Down, Active

LEMMA OffNext ==
    ASSUME Types, OffInv, [Next]_vars
    PROVE  OffInv'
<1> USE DEF OffInv, Active, At
<1>1. CASE Crash \/ Destroyed
  BY <1>1, DownEffect, ConnFields DEF Crash, Destroyed, Found
<1>2. CASE Start
  BY <1>2 DEF Start
<1>3. CASE ~(Crash \/ Destroyed \/ Start)
  <2>1. up' = up
    BY <1>3, WsEffect
       DEF Next, JoinGroup, ConnectGroup, LeaveGroup, JoinStep, JoinFails, ServerJoin, SaveGroup,
           OnGroupJoined, JoinConnects, JoinStarts, LeaveStep, LeaveJoined, LeaveAtOnce,
           LeaveMessages, LeaveDeleted, LocalButConns, Sends, ServerLeave, PeerPosts, SendMessage, Quit, local, vars
  <2>2. CASE ~up
    <3>1. \/ \E g \in Groups, t \in Tokens : ServerLeave(g, t)
          \/ \E g \in Groups, m \in Messages : PeerPosts(g, m)
          \/ UNCHANGED vars
      <4>1. ASSUME NEW g \in Groups
            PROVE  ~(JoinGroup(g) \/ ConnectGroup(g) \/ LeaveGroup(g) \/ Sends(g))
        BY <2>2 DEF JoinGroup, ConnectGroup, LeaveGroup, Sends, Ready, Idle
      <4>2. ASSUME NEW g \in Groups PROVE ~LeaveStep(g)
        BY <2>2 DEF LeaveStep, LeaveJoined, LeaveAtOnce, LeaveMessages, LeaveDeleted, Idle
      <4>3. ASSUME NEW g \in Groups PROVE ~WsStep(g)
        BY <2>2, WsEffect DEF Found
      <4>4. ASSUME NEW t \in Tokens PROVE ~(JoinStep(t) \/ JoinFails(t))
        BY <2>2 DEF JoinStep, JoinFails, ServerJoin, SaveGroup, OnGroupJoined, JoinConnects,
           JoinStarts
      <4>5. \A g \in Groups : \A m \in Messages : ~SendMessage(g, m)
        BY <2>2 DEF SendMessage, Ready
      <4>6. ~Quit
        BY <2>2 DEF Quit, Ready
      <4> QED
        BY <1>3, <4>1, <4>2, <4>3, <4>4, <4>5, <4>6 DEF Next
    <3> QED
      BY <3>1 DEF ServerLeave, PeerPosts, local, vars, Found
  <2> QED
    BY <2>1, <2>2
<1> QED
  BY <1>1, <1>2, <1>3

\* A step that leaves a group as it is.
Same(h) ==
    /\ stored'[h] = stored[h] /\ (h \in shown' <=> h \in shown) /\ up' = up
    /\ (h \in unsaved' <=> h \in unsaved) /\ (h \in undeleted' <=> h \in undeleted)
    /\ h \in skipped' <=> h \in skipped
    /\ (Found(h)' <=> Found(h)) /\ m_conns'[h].token = m_conns[h].token
    /\ Leaving(h)' <=> Leaving(h)
    /\ Leaving(h) => ui'.op = ui.op /\ ui'.token = ui.token
    /\ \A t \in Tokens : (JoinsOf(h, t)' <=> JoinsOf(h, t)) /\ (JoinsOf(h, t) => joins'[t].at = joins[t].at)
    /\ rows'[h] # {} => rows[h] # {} \/ stored[h] # NoToken \/ h \in unsaved
    /\ Leaving(h) /\ ui.op = "delete_row" => rows'[h] = rows[h]

LEMMA SameGroup ==
    ASSUME NEW h \in Groups, GroupInv(h), Same(h)
    PROVE  GroupInv(h)'
<1> USE DEF Same, GroupInv
<1>1. OneJoin(h)'
  BY DEF OneJoin, At
<1>2. JoinSoFar(h)'
  BY DEF JoinSoFar, At, Odd, Kept
<1>3. Settled(h)'
  BY DEF Settled, Joining, JoinsOf, Odd, Deleting
<1>4. OneToken(h)' /\ RowsHaveGroup(h)' /\ Emptied(h)'
  BY DEF OneToken, RowsHaveGroup, Emptied, Kept, Deleting
<1> QED
  BY <1>1, <1>2, <1>3, <1>4

\* A step of a join leaves the other groups alone.
LEMMA OtherGroup ==
    ASSUME Types, NEW t \in Tokens, JoinStep(t) \/ JoinFails(t),
           NEW h \in Groups, h # joins[t].group
    PROVE  Same(h)
<1>1. joins[t].at # "uncalled" /\ joins[t].group \in Groups
  BY GroupOfJoin DEF JoinStep, ServerJoin, SaveGroup, OnGroupJoined, JoinConnects,
     JoinStarts, JoinFails, Types, At
<1>2. joins'[t].group = joins[t].group /\ \A u \in Tokens \ {t} : joins'[u] = joins[u]
  BY <1>1, GoesOn DEF JoinStep, ServerJoin, SaveGroup, OnGroupJoined, JoinConnects, JoinStarts,
     JoinFails, Types, Pcs
<1>3. \A u \in Tokens : (JoinsOf(h, u)' <=> JoinsOf(h, u)) /\ (JoinsOf(h, u) => joins'[u].at = joins[u].at)
  BY <1>2 DEF JoinsOf, Active
<1>4. m_conns'[h] = m_conns[h]
  BY <1>1 DEF JoinStep, ServerJoin, SaveGroup, OnGroupJoined, JoinConnects, JoinStarts, JoinFails,
     Emplaced, Types, MemoryType
<1>5. /\ stored'[h] = stored[h] /\ rows' = rows /\ (h \in shown' <=> h \in shown)
      /\ (h \in unsaved' <=> h \in unsaved) /\ (h \in undeleted' <=> h \in undeleted)
      /\ h \in skipped' <=> h \in skipped
  <2>1. CASE SaveGroup(t)
    BY <1>1, <2>1 DEF SaveGroup, StoreGroup, Types, RowsType
  <2>2. CASE ~SaveGroup(t)
    BY <1>1, <2>2 DEF JoinStep, ServerJoin, OnGroupJoined, JoinConnects, JoinStarts, JoinFails, disk,
       faults
  <2> QED
    BY <2>1, <2>2
<1>6. up' = up /\ ui' = ui
  BY DEF JoinStep, ServerJoin, SaveGroup, OnGroupJoined, JoinConnects, JoinStarts, JoinFails
<1> QED
  BY <1>3, <1>4, <1>5, <1>6 DEF Same, Found, Leaving

LEMMA JoinGroups ==
    ASSUME Types, OffInv, StartInv, NEW t \in Tokens, JoinStep(t) \/ JoinFails(t),
           NEW h \in Groups, GroupInv(h)
    PROVE  GroupInv(h)'
<1>1. CASE h # joins[t].group
  BY <1>1, OtherGroup, SameGroup
<1>2. CASE h = joins[t].group
  <2>1. joins[t].at # "uncalled"
    BY DEF JoinStep, ServerJoin, SaveGroup, OnGroupJoined, JoinConnects, JoinStarts, JoinFails, At
  <2>2. joins'[t].group = h /\ \A u \in Tokens \ {t} : joins'[u] = joins[u]
    BY <1>2, <2>1, GoesOn DEF JoinStep, ServerJoin, SaveGroup, OnGroupJoined, JoinConnects,
       JoinStarts, JoinFails, Types, Pcs
  <2>3. JoinsOf(h, t) /\ ~At(t, "astray")
    BY <1>2 DEF JoinStep, ServerJoin, SaveGroup, OnGroupJoined, JoinConnects, JoinStarts, JoinFails,
       At, JoinsOf, Active, GroupInv, OneJoin
  <2>4. /\ up /\ ~Leaving(h) /\ ui' = ui /\ up' = up
        /\ \A u \in Tokens \ {t} : ~JoinsOf(h, u) /\ ~JoinsOf(h, u)'
    BY <2>2, <2>3 DEF GroupInv, OneJoin, OffInv, JoinsOf, Active, JoinStep, ServerJoin, SaveGroup,
       OnGroupJoined, JoinConnects, JoinStarts, JoinFails
  <2>5. ~Leaving(h)'
    BY <2>4 DEF Leaving
  <2>6. t # NoToken
    BY DEF Tokens, NoToken
  <2> USE DEF At
  <2>7. ASSUME NEW pc \in Pcs \ {"astray"}, joins'[t].at = pc,
               pc \in {"post", "reply"} =>
                   (stored'[h] = NoToken \/ Odd(h)') /\ h \notin shown' /\ ~Found(h)',
               pc = "saved" => Kept(h, t)' /\ h \notin shown',
               pc = "joined" => Kept(h, t)' /\ h \in shown',
               pc = "start" => Kept(h, t)' /\ h \in shown' /\ Found(h)',
               pc = "done" => \/ (stored'[h] = NoToken \/ Odd(h)') /\ h \notin shown' /\ ~Found(h)'
                              \/ Kept(h, t)' /\ h \in shown' /\ Found(h)',
               Found(h)' => Kept(h, m_conns[h].token)',
               RowsHaveGroup(h)'
        PROVE  GroupInv(h)'
    <3>1. OneJoin(h)'
      BY <2>4, <2>5, <2>7 DEF OneJoin
    <3>2. JoinSoFar(h)'
      BY <2>4, <2>7 DEF JoinSoFar
    <3>3. Settled(h)'
      BY <2>2, <2>4, <2>5, <2>6, <2>7 DEF Settled, Joining, JoinsOf, Active, Pcs, Kept, Deleting
    <3>4. OneToken(h)' /\ Emptied(h)'
      BY <2>5, <2>7 DEF OneToken, Emptied
    <3> QED
      BY <2>7, <3>1, <3>2, <3>3, <3>4 DEF GroupInv
  <2> HIDE DEF GroupInv
  <2>8. /\ OneJoin(h) /\ JoinSoFar(h) /\ OneToken(h) /\ RowsHaveGroup(h)
        /\ m_conns[h] \in Conns
    BY DEF GroupInv, Types, MemoryType
  <2> USE <2>3, <2>8 DEF JoinSoFar, OneToken, RowsHaveGroup, Pcs, Odd, Kept
  <2>9. CASE ServerJoin(t)
    <3>1. joins'[t].at = "reply"
      BY <2>1, <2>9, GoesOn DEF ServerJoin, Types
    <3> QED
      BY <2>7, <2>9, <3>1 DEF ServerJoin, disk, faults, Found
  <2>10. CASE JoinFails(t)
    <3>1. joins'[t].at = "done"
      BY <2>1, <2>10, GoesOn DEF JoinFails, Types
    <3> QED
      BY <2>7, <2>10, <3>1 DEF JoinFails, disk, faults, Found
  <2>11. CASE SaveGroup(t)
    <3>1. joins'[t].at = "saved"
      BY <2>1, <2>11, GoesOn DEF SaveGroup, Types
    <3>2. /\ stored'[h] = t \/ (stored' = stored /\ h \in unsaved' /\ undeleted' = undeleted)
          /\ ~Found(h)' /\ h \notin shown' /\ rows' = rows
      BY <1>2, <2>11 DEF SaveGroup, StoreGroup, Types, RowsType, Found
    <3> QED
      BY <2>6, <2>7, <3>1, <3>2
  <2>12. CASE OnGroupJoined(t)
    <3>1. joins'[t].at = "joined"
      BY <2>1, <2>12, GoesOn DEF OnGroupJoined, Types
    <3> QED
      BY <1>2, <2>7, <2>12, <3>1 DEF OnGroupJoined, disk, faults, Found
  <2>13. CASE JoinConnects(t)
    <3>1. joins'[t].at = IF Found(h) THEN "done" ELSE "start"
      BY <1>2, <2>1, <2>13, GoesOn DEF JoinConnects, Types
    <3>2. Found(h)' /\ m_conns'[h].token = t
      BY <1>2, <2>13, ConnFields, ConnTypes DEF JoinConnects, Emplaced, Types, MemoryType, Found
    <3> QED
      BY <2>7, <2>13, <3>1, <3>2 DEF JoinConnects, disk, faults
  <2>14. CASE JoinStarts(t)
    <3>1. joins'[t].at = "done"
      BY <2>1, <2>14, GoesOn DEF JoinStarts, Types
    <3>2. m_conns'[h] = Started(m_conns[h])
      BY <1>2, <2>14 DEF JoinStarts, Types, MemoryType
    <3>3. Found(h)' /\ m_conns'[h].token = m_conns[h].token
      BY <3>2, ConnFields DEF Found
    <3> QED
      BY <2>7, <2>14, <3>1, <3>3 DEF JoinStarts, disk, faults
  <2> QED
    BY <2>9, <2>10, <2>11, <2>12, <2>13, <2>14 DEF JoinStep
<1> QED
  BY <1>1, <1>2

LEMMA UserGroups ==
    ASSUME Types, OffInv, NEW g \in Groups, JoinGroup(g) \/ ConnectGroup(g) \/ LeaveGroup(g),
           NEW h \in Groups, Patient(h)', GroupInv(h)
    PROVE  GroupInv(h)'
<1>1. up /\ ui = Idle /\ up' /\ ~Leaving(h)
  BY DEF JoinGroup, ConnectGroup, LeaveGroup, Ready, Leaving, Idle
<1>2. m_conns[h] \in Conns
  BY DEF Types, MemoryType
<1>3. CASE JoinGroup(g)
  <2>1. PICK t \in Tokens : /\ At(t, "uncalled")
                            /\ joins' = [joins EXCEPT ![t] = [group |-> g, at |-> "post"]]
    BY <1>3 DEF JoinGroup
  <2>2. /\ joins'[t] = [group |-> g, at |-> "post"] /\ \A u \in Tokens \ {t} : joins'[u] = joins[u]
        /\ ~JoinsOf(h, t)
    BY <2>1 DEF Types, JoinsType, JoinsOf, Active, At
  <2>3. UNCHANGED <<m_conns, shown, ui, up, stored, rows, unsaved, undeleted, skipped>>
    BY <1>3 DEF JoinGroup, disk, faults
  <2>4. CASE h # g
    <3>1. Same(h)
      BY <2>2, <2>3, <2>4 DEF Same, Found, Leaving, JoinsOf, Active
    <3> QED
      BY <3>1, SameGroup
  <2>5. CASE h = g
    <3>1. ~Joining(h) /\ ~Found(h)
      BY <1>3, <2>5 DEF JoinGroup, Patient
    <3>2. h \notin shown /\ (stored[h] = NoToken \/ Odd(h))
      BY <1>1, <3>1 DEF GroupInv, Settled, Deleting
    <3>3. \A u \in Tokens \ {t} : ~JoinsOf(h, u)'
      BY <2>2, <3>1 DEF Joining, JoinsOf, Active
    <3>4. JoinsOf(h, t)' /\ joins'[t].at = "post" /\ ~Leaving(h)' /\ ~Found(h)'
      BY <1>1, <2>2, <2>3, <2>5, <3>1 DEF JoinsOf, Active, Leaving, Found
    <3>5. Joining(h)'
      BY <3>4 DEF Joining, JoinsOf
    <3> QED
      BY <2>3, <3>2, <3>3, <3>4, <3>5
         DEF GroupInv, OneJoin, JoinSoFar, Settled, OneToken, RowsHaveGroup, At, Odd, Emptied,
             Deleting
  <2> QED
    BY <2>4, <2>5
<1>4. CASE ConnectGroup(g)
  <2>1. /\ UNCHANGED <<joins, shown, ui, up, stored, rows, unsaved, undeleted, skipped>>
        /\ stored[g] \in Tokens /\ (g \in shown \/ ~Odd(g))
    BY <1>4 DEF ConnectGroup, disk, faults, Types, RowsType, Odd
  <2>2. CASE h # g
    <3>1. Same(h)
      BY <1>4, <2>1, <2>2 DEF Same, Found, Leaving, JoinsOf, Active, ConnectGroup, Types, MemoryType
    <3> QED
      BY <3>1, SameGroup
  <2>3. CASE h = g
    <3>1. Found(h)' /\ m_conns'[h].token = stored[h] /\ stored[h] # NoToken
      BY <1>2, <1>4, <2>1, <2>3, ConnFields, ConnTypes
         DEF ConnectGroup, Found, Types, MemoryType
    <3>2. OneJoin(h)' /\ JoinSoFar(h)'
      BY <2>1, <2>3, <3>1
         DEF GroupInv, OneJoin, JoinSoFar, JoinsOf, Active, At, Leaving, Odd, Kept
    <3>3. Settled(h)'
      BY <1>1, <2>1, <2>3, <3>1 DEF GroupInv, Settled, Joining, Active, Leaving, Deleting, Odd
    <3> QED
      BY <1>1, <2>1, <3>1, <3>2, <3>3
         DEF GroupInv, OneToken, RowsHaveGroup, Leaving, Emptied, Kept
  <2> QED
    BY <2>2, <2>3
<1>5. CASE LeaveGroup(g)
  <2>1. UNCHANGED <<joins, shown, up, stored, rows, unsaved, undeleted, skipped>> /\ g \in shown
    BY <1>5 DEF LeaveGroup, disk, faults
  <2>2. Found(h)' <=> Found(h)
    <3> DEFINE d == [m_conns[g] EXCEPT !.stopRequested = TRUE]
    <3>1. d.wsThread = m_conns[g].wsThread
      BY ConnFields DEF Types, MemoryType
    <3>2. m_conns' = m_conns \/ m_conns' = [m_conns EXCEPT ![g] = d]
      BY <1>5 DEF LeaveGroup
    <3> HIDE DEF d
    <3> QED
      BY <3>1, <3>2 DEF Types, MemoryType, Found
  <2>3. m_conns'[h].token = m_conns[h].token
    <3> DEFINE d == [m_conns[g] EXCEPT !.stopRequested = TRUE]
    <3>1. d.token = m_conns[g].token
      BY ConnFields DEF Types, MemoryType
    <3>2. m_conns' = m_conns \/ m_conns' = [m_conns EXCEPT ![g] = d]
      BY <1>5 DEF LeaveGroup
    <3> HIDE DEF d
    <3> QED
      BY <3>1, <3>2 DEF Types, MemoryType
  <2>4. CASE h # g
    <3>1. ~Leaving(h)'
      BY <1>1, <1>5, <2>4 DEF LeaveGroup, Leaving
    <3>2. Same(h)
      BY <1>1, <2>1, <2>2, <2>3, <3>1 DEF Same, JoinsOf, Active
    <3> QED
      BY <3>2, SameGroup
  <2>5. CASE h = g
    <3>1. ~Completing(h)
      BY <1>5, <2>5 DEF LeaveGroup, Patient
    <3>2. \A t \in Tokens : ~JoinsOf(h, t)
      BY <2>1, <2>5, <3>1, GroupOfJoin
         DEF GroupInv, OneJoin, JoinSoFar, JoinsOf, Active, At, Completing, Types, Join
    <3>3. ~Joining(h) /\ ~Joining(h)' /\ \A t \in Tokens : ~JoinsOf(h, t)'
      BY <2>1, <3>2 DEF Joining, JoinsOf, Active
    <3>4. Found(h)
      BY <1>1, <2>1, <2>5, <3>3 DEF GroupInv, Settled, Deleting
    <3>5. ui' = [op |-> "join_thread", group |-> g, token |-> m_conns[g].token]
      BY <1>5, <2>5, <3>4 DEF LeaveGroup
    <3>6. Leaving(h)' /\ ~Deleting(h)' /\ ui'.token = m_conns[h].token /\ ui'.op = "join_thread"
      BY <2>5, <3>5 DEF Leaving, Deleting
    <3>7. OneJoin(h)' /\ JoinSoFar(h)' /\ Settled(h)'
      BY <1>1, <2>1, <2>2, <2>5, <3>3, <3>4, <3>6
         DEF GroupInv, OneJoin, JoinSoFar, Settled, Odd, Deleting
    <3> QED
      BY <2>1, <2>2, <2>3, <3>4, <3>6, <3>7
         DEF GroupInv, OneToken, RowsHaveGroup, Emptied, Kept
  <2> QED
    BY <2>4, <2>5
<1> QED
  BY <1>3, <1>4, <1>5

LEMMA LeaveGroups ==
    ASSUME Types, OffInv, StartInv, NEW g \in Groups, LeaveStep(g),
           NEW h \in Groups, GroupInv(h)
    PROVE  GroupInv(h)'
<1>1. Leaving(g) /\ up
  BY DEF LeaveStep, LeaveJoined, LeaveAtOnce, LeaveMessages, LeaveDeleted, Leaving, OffInv, Idle
<1>2. CASE LeaveJoined(g)
  <2>1. UNCHANGED <<shown, up, stored, rows, unsaved, undeleted, skipped>>
    BY <1>2 DEF LeaveJoined, LeaveAtOnce, disk, faults
  <2>2. m_conns' = [m_conns EXCEPT ![g] = NoConn]
    BY <1>2 DEF LeaveJoined, LeaveAtOnce
  <2>3. /\ ui.op = "join_thread" /\ ui.group = g /\ ui \in Calls
        /\ ui' = [ui EXCEPT !.op = "delete"]
    BY <1>2 DEF LeaveJoined, LeaveAtOnce, Types, JoinsType
  <2>4. ui'.op = "delete" /\ ui'.group = g /\ ui'.token = ui.token
    BY <2>3 DEF Calls
  <2>5. \A t \in Tokens : JoinsOf(h, t)' <=> JoinsOf(h, t)
    BY <1>2, GroupOfJoin DEF LeaveJoined, LeaveAtOnce, JoinsOf, Active, At, Types, Join
  <2>6. CASE h # g
    <3>1. \A t \in Tokens : JoinsOf(h, t) => joins'[t].at = joins[t].at
      BY <1>2, <2>6 DEF LeaveJoined, LeaveAtOnce, JoinsOf
    <3>2. Same(h)
      BY <2>1, <2>2, <2>3, <2>4, <2>5, <2>6, <3>1 DEF Same, Found, Leaving, Types, MemoryType
    <3> QED
      BY <3>2, SameGroup
  <2>7. CASE h = g
    <3>1. \A t \in Tokens : ~JoinsOf(h, t) /\ ~JoinsOf(h, t)'
      BY <1>1, <2>5, <2>7 DEF GroupInv, OneJoin
    <3>2. ~Joining(h) /\ ~Joining(h)'
      BY <3>1 DEF Joining, JoinsOf
    <3>3. ~Found(h)' /\ Leaving(h)' /\ Deleting(h)' /\ ui'.op = "delete"
      BY <2>2, <2>4, <2>7, ConnFields DEF Found, Leaving, Deleting, Types, MemoryType
    <3>4. Leaving(h) /\ h \in shown
      BY <1>1, <2>7, <3>2 DEF GroupInv, Settled
    <3>5. OneJoin(h)' /\ JoinSoFar(h)' /\ Settled(h)'
      BY <1>1, <2>1, <3>1, <3>2, <3>3, <3>4 DEF GroupInv, OneJoin, JoinSoFar, Settled, Odd
    <3> QED
      BY <2>1, <3>3, <3>5 DEF GroupInv, OneToken, RowsHaveGroup, Emptied
  <2> QED
    BY <2>6, <2>7
<1>3. CASE LeaveMessages(g)
  <2>1. /\ UNCHANGED <<m_conns, joins, shown, up, stored, unsaved, skipped>>
        /\ ui.op = "delete" /\ ui.group = g /\ ui \in Calls /\ ui' = [ui EXCEPT !.op = "delete_row"]
    BY <1>3 DEF LeaveMessages, Types, JoinsType
  <2>2. ui'.op = "delete_row" /\ ui'.group = g /\ ui'.token = ui.token
    BY <2>1 DEF Calls
  <2>3. /\ undeleted \subseteq undeleted' /\ undeleted' \subseteq undeleted \cup {g}
        /\ \/ rows' = [rows EXCEPT ![g] = {}]
           \/ rows' = rows /\ g \in undeleted'
    BY <1>3 DEF LeaveMessages, DeleteMessages
  <2>4. CASE h # g
    <3>1. ~Leaving(h) /\ ~Leaving(h)'
      BY <2>1, <2>2, <2>4 DEF Leaving
    <3>2. Same(h)
      BY <2>1, <2>3, <2>4, <3>1 DEF Same, Found, JoinsOf, Active, Types, RowsType
    <3> QED
      BY <3>2, SameGroup
  <2>5. CASE h = g
    <3>1. Deleting(h) /\ Deleting(h)' /\ Leaving(h)'
      BY <2>1, <2>2, <2>5 DEF Leaving, Deleting
    <3>2. \A t \in Tokens : ~JoinsOf(h, t) /\ ~JoinsOf(h, t)'
      BY <1>1, <2>1, <2>5 DEF GroupInv, OneJoin, JoinsOf, Active
    <3>3. ~Joining(h) /\ ~Joining(h)' /\ (Found(h)' <=> Found(h))
      BY <2>1, <3>2 DEF Joining, JoinsOf, Found
    <3>4. OneJoin(h)' /\ JoinSoFar(h)' /\ Settled(h)'
      BY <1>1, <2>1, <2>3, <2>5, <3>1, <3>2, <3>3
         DEF GroupInv, OneJoin, JoinSoFar, Settled, Odd, Deleting
    <3>5. OneToken(h)'
      BY <1>1, <2>1, <3>1, <3>3 DEF GroupInv, OneToken, Kept
    <3>6. rows'[h] = {} \/ (rows'[h] = rows[h] /\ h \in undeleted')
      BY <2>3, <2>5 DEF Types, RowsType
    <3> QED
      BY <2>1, <2>3, <3>4, <3>5, <3>6 DEF GroupInv, Emptied, RowsHaveGroup
  <2> QED
    BY <2>4, <2>5
<1>4. CASE LeaveDeleted(g)
  <2>1. /\ UNCHANGED <<m_conns, joins, up, rows, unsaved, skipped>> /\ ui' = Idle
        /\ shown' = shown \ {g} /\ ui.op = "delete_row" /\ ui.group = g
    BY <1>4 DEF LeaveDeleted
  <2>2. /\ undeleted \subseteq undeleted' /\ undeleted' \subseteq undeleted \cup {g}
        /\ \/ stored' = [stored EXCEPT ![g] = NoToken]
           \/ stored' = stored /\ g \in undeleted'
    BY <1>4 DEF LeaveDeleted, StoreGroup
  <2>3. CASE h # g
    <3>1. ~Leaving(h) /\ ~Leaving(h)'
      BY <2>1, <2>3 DEF Leaving, Idle
    <3>2. Same(h)
      BY <2>1, <2>2, <2>3, <3>1 DEF Same, Found, JoinsOf, Active, Types, RowsType
    <3> QED
      BY <3>2, SameGroup
  <2>4. CASE h = g
    <3>1. \A t \in Tokens : ~JoinsOf(h, t) /\ ~JoinsOf(h, t)'
      BY <1>1, <2>1, <2>4 DEF GroupInv, OneJoin, JoinsOf, Active
    <3>2. ~Joining(h)
      BY <3>1 DEF Joining, JoinsOf
    <3>3. ~Found(h) /\ ~Found(h)' /\ ~Leaving(h)' /\ ~Deleting(h)' /\ h \notin shown'
      BY <1>1, <2>1, <2>4, <3>2 DEF GroupInv, Settled, Found, Leaving, Deleting, Idle
    <3>4. /\ stored'[h] = NoToken \/ (stored'[h] = stored[h] /\ h \in undeleted')
          /\ rows[h] = {} \/ h \in undeleted
      BY <2>1, <2>2, <2>4 DEF Types, RowsType, GroupInv, Emptied, Leaving
    <3>5. OneJoin(h)' /\ JoinSoFar(h)' /\ Settled(h)'
      BY <3>1, <3>3, <3>4 DEF OneJoin, JoinSoFar, Settled, Odd
    <3> QED
      BY <2>1, <2>2, <3>3, <3>4, <3>5 DEF GroupInv, OneToken, RowsHaveGroup, Emptied
  <2> QED
    BY <2>3, <2>4
<1> QED
  BY <1>2, <1>3, <1>4 DEF LeaveStep

LEMMA WsGroups ==
    ASSUME Types, OffInv, NEW g \in Groups, WsStep(g), NEW h \in Groups, GroupInv(h)
    PROVE  GroupInv(h)'
<1>1. PICK d \in Conns : m_conns' = [m_conns EXCEPT ![g] = d] /\ Follows(d, m_conns[g])
  BY WsEffect
<1>2. Found(g) /\ UNCHANGED <<joins, shown, ui, up, stored, unsaved, undeleted, skipped>>
  BY WsEffect DEF Found, LocalButConns
<1>3. (Found(h)' <=> Found(h)) /\ m_conns'[h].token = m_conns[h].token
  BY <1>1, <1>2 DEF Follows, Found, Types, MemoryType
<1>4. rows' = rows \/ \E S : rows' = [rows EXCEPT ![g] = S]
  BY DEF WsStep, Dials, DialFails, Dialled, Receives, StoreMessages, Closes, CleansUp, Wakes, disk, faults
<1>5. h = g => (stored[h] # NoToken \/ h \in unsaved) /\ ~Deleting(h)
  <2>1. up
    BY <1>2 DEF OffInv
  <2>2. CASE Joining(g) /\ h = g
    BY <1>2, <2>2, GroupOfJoin
       DEF Joining, GroupInv, OneJoin, JoinSoFar, JoinsOf, Active, At, Types, Join, Tokens, NoToken,
           Kept, Deleting
  <2>3. CASE ~Joining(g) /\ h = g
    BY <1>2, <2>1, <2>3 DEF GroupInv, Settled
  <2> QED
    BY <2>2, <2>3
<1>6. Same(h)
  BY <1>2, <1>3, <1>4, <1>5 DEF Same, Leaving, Deleting, JoinsOf, Active, Types, RowsType
<1> QED
  BY <1>6, SameGroup

LEMMA EndGroups ==
    ASSUME Types, OffInv, Crash \/ Quit \/ Destroyed \/ Start, NEW h \in Groups, GroupInv(h)
    PROVE  GroupInv(h)'
<1>1. CASE Crash \/ Destroyed
  <2>1. /\ ~up' /\ ui' = Idle /\ m_conns'[h] = NoConn
        /\ UNCHANGED <<stored, rows, unsaved, undeleted>>
    BY <1>1, DownEffect DEF Crash, Destroyed, Down, disk, faults
  <2>2. \A t \in Tokens : ~JoinsOf(h, t)'
    BY <1>1, DownEffect DEF Crash, Destroyed, JoinsOf, Active
  <2>3. ~Found(h)' /\ ~Leaving(h)'
    BY <2>1, ConnFields DEF Found, Leaving, Idle
  <2> QED
    BY <2>1, <2>2, <2>3
       DEF GroupInv, OneJoin, JoinSoFar, Settled, OneToken, RowsHaveGroup, Emptied
<1>2. CASE Quit
  <2>1. /\ UNCHANGED <<joins, shown, up, stored, rows, unsaved, undeleted, skipped>>
        /\ ~Leaving(h) /\ ~Leaving(h)'
    BY <1>2 DEF Quit, disk, faults, Leaving, Ready, Idle
  <2>2. (Found(h)' <=> Found(h)) /\ m_conns'[h].token = m_conns[h].token
    <3> DEFINE b == m_conns[h].wsThread # "none"
               d == [m_conns[h] EXCEPT !.stopRequested = b]
    <3>1. d.wsThread = m_conns[h].wsThread /\ d.token = m_conns[h].token
      BY ConnFields DEF Types, MemoryType
    <3>2. m_conns'[h] = d
      BY <1>2 DEF Quit, StoppedByQuit
    <3> HIDE DEF d
    <3> QED
      BY <3>1, <3>2 DEF Found
  <2>3. Same(h)
    BY <2>1, <2>2 DEF Same, JoinsOf, Active
  <2> QED
    BY <2>3, SameGroup
<1>3. CASE Start
  <2>1. PICK readable \in SUBSET AllGroups :
           /\ m_conns' = [g \in Groups |-> IF g \in readable THEN Started(NewConn(stored[g]))
                                                           ELSE NoConn]
           /\ shown' = readable
           /\ skipped' = AllGroups \ readable
    BY <1>3 DEF Start
  <2>2. /\ UNCHANGED <<joins, ui, stored, rows, unsaved, undeleted>> /\ up' /\ ui = Idle
        /\ \A t \in Tokens : ~Active(t)
        /\ h \in shown' => stored[h] # NoToken
        /\ stored[h] # NoToken => h \in shown' \/ h \in skipped'
    BY <1>3, <2>1 DEF Start, OffInv, AllGroups
  <2>3. stored[h] # NoToken => stored[h] \in Tokens
    BY DEF Types, RowsType
  <2>4. /\ Found(h)' <=> h \in shown'
        /\ Found(h)' => m_conns'[h].token = stored[h]
    BY <2>1, <2>2, <2>3, ConnFields DEF Found
  <2>5. ~Leaving(h)' /\ ~Deleting(h)' /\ \A t \in Tokens : ~JoinsOf(h, t)'
    BY <2>2 DEF Leaving, Deleting, Idle, JoinsOf, Active
  <2> QED
    BY <2>2, <2>4, <2>5
       DEF GroupInv, OneJoin, JoinSoFar, Settled, OneToken, RowsHaveGroup, Emptied, Odd, Kept
<1> QED
  BY <1>1, <1>2, <1>3

LEMMA PatientBefore == \A g \in Groups : [Next]_vars /\ Patient(g)' => Patient(g)
<1>1. [Next]_vars => rejoined \subseteq rejoined' /\ leftEarly \subseteq leftEarly'
  <2>1. CASE Crash \/ Destroyed
    BY <2>1 DEF Crash, Destroyed, Down, history
  <2>2. ASSUME NEW g \in Groups, WsStep(g) PROVE UNCHANGED <<rejoined, leftEarly>>
    BY <2>2 DEF WsStep, Dials, DialFails, Dialled, Receives, Closes, CleansUp, Wakes,
       LocalButConns, local, history
  <2> QED
    BY <2>1, <2>2
       DEF Next, JoinGroup, ConnectGroup, LeaveGroup, JoinStep, JoinFails, ServerJoin, SaveGroup,
           OnGroupJoined, JoinConnects, JoinStarts, LeaveStep, LeaveJoined, LeaveAtOnce,
           LeaveMessages, LeaveDeleted, Sends, ServerLeave, PeerPosts, SendMessage, Quit, Start, local,
           vars, history
<1> QED
  BY <1>1 DEF Patient

LEMMA GroupNext ==
    ASSUME Types, OffInv, StartInv, [Next]_vars, NEW h \in Groups, Patient(h)',
           Patient(h) => GroupInv(h)
    PROVE  GroupInv(h)'
<1>1. GroupInv(h)
  BY PatientBefore
<1>2. CASE \/ \E g \in Groups : Sends(g)
           \/ \E g \in Groups, t \in Tokens : ServerLeave(g, t)
           \/ \E g \in Groups, m \in Messages : PeerPosts(g, m) \/ SendMessage(g, m)
           \/ UNCHANGED vars
  <2>1. UNCHANGED <<m_conns, joins, shown, up, stored, rows, unsaved, undeleted, skipped>>
    BY <1>2 DEF Sends, ServerLeave, PeerPosts, SendMessage, local, disk, faults, vars
  <2>2. ui' = ui \/ (~Leaving(h) /\ ~Leaving(h)')
    <3>1. ASSUME NEW g \in Groups, Sends(g) PROVE ~Leaving(h) /\ ~Leaving(h)'
      BY <3>1 DEF Sends, Leaving, Idle
    <3>2. ASSUME NEW g \in Groups, NEW m \in Messages, SendMessage(g, m)
          PROVE  ~Leaving(h) /\ ~Leaving(h)'
      BY <3>2 DEF SendMessage, Ready, Leaving, Idle
    <3>3. \A g \in Groups : (\A t \in Tokens : ServerLeave(g, t) => ui' = ui)
                          /\ (\A m \in Messages : PeerPosts(g, m) => ui' = ui)
      BY DEF ServerLeave, PeerPosts, local
    <3> QED
      BY <1>2, <3>1, <3>2, <3>3 DEF local, vars
  <2>3. Same(h)
    BY <2>1, <2>2 DEF Same, Found, Leaving, JoinsOf, Active
  <2> QED
    BY <1>1, <2>3, SameGroup
<1> QED
  BY <1>1, <1>2, UserGroups, JoinGroups, LeaveGroups, WsGroups, EndGroups DEF Next

LEMMA IInvInit == Init => IInv
<1> SUFFICES ASSUME Init PROVE IInv
  OBVIOUS
<1>1. /\ up /\ ui = Idle /\ shown = {} /\ \A g \in Groups : stored[g] = NoToken /\ rows[g] = {}
      /\ \A t \in Tokens : joins[t].at = "uncalled"
      /\ \A g \in Groups : ~Found(g)
  BY ConnFields DEF Init, Uncalled, Found
<1>2. OffInv /\ StartInv
  BY <1>1 DEF OffInv, StartInv, At
<1>3. ASSUME NEW g \in Groups PROVE GroupInv(g)
  BY <1>1 DEF GroupInv, OneJoin, JoinSoFar, Settled, OneToken, RowsHaveGroup, Emptied, JoinsOf,
     Active, Leaving, Deleting, Idle
<1> QED
  BY <1>2, <1>3, TypesInit DEF IInv

LEMMA IInvNext == IInv /\ [Next]_vars => IInv'
BY TypesNext, OffNext, StartNext, GroupNext DEF IInv

-----------------------------------------------------------------------------
(* The members. *)

\* A join once called keeps its group.
LEMMA JoinStays ==
    ASSUME Types, [Next]_vars, NEW t \in Tokens, joins[t].at # "uncalled"
    PROVE  joins'[t].at # "uncalled" /\ joins'[t].group = joins[t].group
<1>1. joins[t] \in Join
  BY GroupOfJoin DEF Types
<1>2. ASSUME NEW pc PROVE [joins[t] EXCEPT !.at = pc].at = pc
                          /\ [joins[t] EXCEPT !.at = pc].group = joins[t].group
  BY <1>1 DEF Join
<1>3. CASE Crash \/ Destroyed
  <2> DEFINE d == [joins[t] EXCEPT !.at = "done"]
  <2>1. d.at = "done" /\ d.group = joins[t].group
    BY <1>2
  <2>2. joins'[t] = d \/ joins'[t] = joins[t]
    BY <1>3 DEF Crash, Destroyed, Down
  <2> HIDE DEF d
  <2> QED
    BY <2>1, <2>2
<1>4. ASSUME NEW u \in Tokens, JoinStep(u) \/ JoinFails(u)
      PROVE  joins'[t].at # "uncalled" /\ joins'[t].group = joins[t].group
  <2>1. joins[u].at # "uncalled"
    BY <1>4 DEF JoinStep, ServerJoin, SaveGroup, OnGroupJoined, JoinConnects, JoinStarts, JoinFails,
       At
  <2>2. PICK pc \in Pcs : Goes(u, pc)
    BY <1>4 DEF JoinStep, ServerJoin, SaveGroup, OnGroupJoined, JoinConnects, JoinStarts, JoinFails,
       Pcs
  <2> QED
    BY <2>1, <2>2, GoesOn DEF Types, Pcs
<1>5. ASSUME NEW g \in Groups, JoinGroup(g) PROVE joins'[t] = joins[t]
  BY <1>5 DEF JoinGroup, At, Types, JoinsType
<1>6. ASSUME NEW g \in Groups, LeaveJoined(g)
      PROVE  joins'[t].at # "uncalled" /\ joins'[t].group = joins[t].group
  BY <1>2, <1>6 DEF LeaveJoined, LeaveAtOnce
<1>7. ASSUME NEW g \in Groups, WsStep(g) PROVE joins' = joins
  BY <1>7, WsEffect DEF LocalButConns
<1>8. CASE \/ Quit \/ Start \/ UNCHANGED vars
           \/ \E g \in Groups : \/ ConnectGroup(g) \/ LeaveGroup(g) \/ LeaveMessages(g) \/ LeaveDeleted(g)
                                \/ Sends(g)
           \/ \E g \in Groups, u \in Tokens : ServerLeave(g, u)
           \/ \E g \in Groups, m \in Messages : PeerPosts(g, m) \/ SendMessage(g, m)
  BY <1>8 DEF Quit, Start, vars, ConnectGroup, LeaveGroup, LeaveMessages, LeaveDeleted, Sends,
     ServerLeave, PeerPosts, SendMessage, local
<1> QED
  BY <1>3, <1>4, <1>5, <1>6, <1>7, <1>8 DEF Next, LeaveStep

\* The members change only when a join or a leave arrives at the server.
LEMMA MembersChange ==
    ASSUME Types, [Next]_vars
    PROVE  \/ members' = members
           \/ \E t \in Tokens : /\ ServerJoin(t)
                                /\ members' = [members EXCEPT ![joins[t].group] = @ \cup {t}]
           \/ \E g \in Groups, t \in Tokens :
                 ServerLeave(g, t) /\ members' = [members EXCEPT ![g] = @ \ {t}]
<1>1. ASSUME NEW g \in Groups, WsStep(g) PROVE members' = members
  BY <1>1, WsEffect
<1>2. CASE Crash \/ Destroyed
  BY <1>2 DEF Crash, Destroyed, Down
<1> QED
  BY <1>1, <1>2 DEF Next, JoinGroup, ConnectGroup, LeaveGroup, JoinStep, JoinFails, ServerJoin,
     SaveGroup, OnGroupJoined, JoinConnects, JoinStarts, LeaveStep, LeaveJoined, LeaveAtOnce,
     LeaveMessages, LeaveDeleted, Sends, ServerLeave, PeerPosts, SendMessage, Quit, Start, server,
     vars

LEMMA TokenNext ==
    ASSUME Types, TokenInv, [Next]_vars
    PROVE  TokenInv'
<1> SUFFICES ASSUME NEW g \in Groups, NEW t \in members'[g]
             PROVE  joins'[t].at # "uncalled" /\ joins'[t].group = g
  BY DEF TokenInv
<1>1. CASE t \in members[g]
  BY <1>1, JoinStays DEF TokenInv, Types, ServerType
<1>2. CASE t \notin members[g]
  <2>1. PICK u \in Tokens : /\ ServerJoin(u)
                            /\ members' = [members EXCEPT ![joins[u].group] = @ \cup {u}]
    BY <1>2, MembersChange DEF Types, ServerType
  <2>2. joins[u].at # "uncalled"
    BY <2>1 DEF ServerJoin, At
  <2>3. u = t /\ joins[u].group = g
    BY <1>2, <2>1, <2>2, GroupOfJoin DEF Types, ServerType
  <2> QED
    BY <2>2, <2>3, JoinStays
<1> QED
  BY <1>1, <1>2

\* A step after which the token is held as before, or is known as lost.
SameHeld(h, t) ==
    /\ t \in unknown => t \in unknown'
    /\ Active(t) /\ ~At(t, "start") => (Active(t) /\ ~At(t, "start"))'
    /\ <<h, t>> \in requests => <<h, t>> \in requests'
    /\ Found(h) /\ m_conns[h].token = t =>
           (Found(h)' /\ m_conns'[h].token = t) \/ t \in unknown'
    /\ (~up \/ h \in skipped) /\ stored[h] = t =>
           ((~up' \/ h \in skipped') /\ stored'[h] = t) \/ t \in unknown'

LEMMA StaysHeld ==
    ASSUME NEW h \in Groups, NEW t \in Tokens, Held(h, t), SameHeld(h, t)
    PROVE  Held(h, t)'
BY DEF SameHeld, Held

LEMMA JoinHeld ==
    ASSUME Types, StartInv, OffInv, TokenInv, NEW u \in Tokens, JoinStep(u) \/ JoinFails(u),
           NEW h \in Groups, GroupInv(h), NEW t \in members'[h], t \in members[h] => Held(h, t)
    PROVE  Held(h, t)'
<1>0. t \in Tokens
  BY JoinTypes DEF Types, ServerType
<1>1. joins[u].at # "uncalled" /\ joins[u].group \in Groups /\ m_conns[h] \in Conns
  BY GroupOfJoin DEF JoinStep, ServerJoin, SaveGroup, OnGroupJoined, JoinConnects, JoinStarts, At,
     JoinFails, Types, MemoryType
<1>2. Active(u) /\ up
  BY DEF JoinStep, ServerJoin, SaveGroup, OnGroupJoined, JoinConnects, JoinStarts, JoinFails, At,
     Active, OffInv
<1>3. CASE ServerJoin(u) /\ t \notin members[h]
  <2>1. t = u
    BY <1>1, <1>3 DEF ServerJoin, Types, ServerType
  <2>2. joins'[u].at = "reply"
    BY <1>1, <1>3, GoesOn DEF ServerJoin, Types, Pcs
  <2> QED
    BY <2>1, <2>2 DEF Held, Active, At
<1>4. CASE ~(ServerJoin(u) /\ t \notin members[h])
  <2>1. t \in members[h] /\ Held(h, t)
    BY <1>4 DEF JoinStep, ServerJoin, SaveGroup, OnGroupJoined, JoinConnects, JoinStarts, JoinFails,
       server
  <2>2. joins[t].group = h
    BY <2>1 DEF TokenInv
  <2>3. requests' = requests /\ up' = up /\ unknown \subseteq unknown'
    BY DEF JoinStep, ServerJoin, SaveGroup, OnGroupJoined, JoinConnects, JoinStarts, JoinFails, server,
       history, Lost
  <2>4. t # u => joins'[t] = joins[t]
    BY <1>0, <1>1, GoesOn DEF JoinStep, ServerJoin, SaveGroup, OnGroupJoined, JoinConnects,
       JoinStarts, JoinFails, Types, Pcs
  <2>5. Found(h) => Found(h)'
    <3>1. CASE JoinConnects(u) /\ joins[u].group = h /\ Found(h)
      <4>1. m_conns'[h] = [m_conns[h] EXCEPT !.token = u]
        BY <3>1 DEF JoinConnects, Emplaced, Types, MemoryType
      <4> QED
        BY <1>1, <3>1, <4>1, ConnFields DEF Found
    <3>4. CASE JoinConnects(u) /\ joins[u].group # h
      BY <3>4 DEF JoinConnects, Emplaced, Found, Types, MemoryType
    <3>3. CASE JoinStarts(u)
      BY <1>1, <3>3, ConnFields DEF JoinStarts, Found, Types, MemoryType
    <3>2. CASE ~JoinConnects(u) /\ ~JoinStarts(u)
      BY <3>2 DEF JoinStep, ServerJoin, SaveGroup, OnGroupJoined, JoinFails, Found
    <3> QED
      BY <3>1, <3>2, <3>3, <3>4
  <2>6. Found(h) => m_conns'[h].token = m_conns[h].token \/ m_conns[h].token \in unknown'
    <3>1. CASE JoinConnects(u) /\ joins[u].group = h /\ Found(h)
      <4>1. m_conns'[h] = [m_conns[h] EXCEPT !.token = u]
        BY <3>1 DEF JoinConnects, Emplaced, Types, MemoryType
      <4>2. m_conns'[h].token = u
        BY <1>1, <4>1, ConnFields
      <4> QED
        BY <3>1, <4>2 DEF JoinConnects, Lost, Replaced
    <3>2. CASE JoinConnects(u) /\ joins[u].group # h
      BY <3>2 DEF JoinConnects, Emplaced, Types, MemoryType
    <3>3. CASE JoinStarts(u)
      BY <1>1, <3>3, ConnFields DEF JoinStarts, Types, MemoryType
    <3>4. CASE ~JoinConnects(u) /\ ~JoinStarts(u)
      BY <3>4 DEF JoinStep, ServerJoin, SaveGroup, OnGroupJoined, JoinFails
    <3> QED
      BY <3>1, <3>2, <3>3, <3>4
  <2>7. h \in skipped /\ stored[h] = t =>
            (h \in skipped' /\ stored'[h] = t) \/ t \in unknown'
    <3>1. CASE SaveGroup(u)
      BY <1>0, <1>1, <3>1 DEF SaveGroup, StoreGroup, Lost, Unread, Types, RowsType
    <3>2. CASE ~SaveGroup(u)
      BY <3>2 DEF JoinStep, ServerJoin, OnGroupJoined, JoinConnects, JoinStarts, JoinFails, disk,
         faults
    <3> QED
      BY <3>1, <3>2
  <2>8. CASE t # u \/ ~(JoinConnects(u) \/ JoinStarts(u) \/ JoinFails(u))
    <3>1. Active(t) /\ ~At(t, "start") => (Active(t) /\ ~At(t, "start"))'
      <4>1. CASE t # u
        BY <2>4, <4>1 DEF Active, At
      <4>2. CASE t = u
        <5>1. ServerJoin(u) \/ SaveGroup(u) \/ OnGroupJoined(u)
          BY <2>8, <4>2 DEF JoinStep
        <5>2. joins'[u].at \in {"reply", "saved", "joined"}
          BY <1>1, <5>1, GoesOn DEF ServerJoin, SaveGroup, OnGroupJoined, Types, Pcs
        <5> QED
          BY <4>2, <5>2 DEF Active, At
      <4> QED
        BY <4>1, <4>2
    <3>2. SameHeld(h, t)
      BY <1>2, <2>3, <2>5, <2>6, <2>7, <3>1 DEF SameHeld
    <3> QED
      BY <1>0, <2>1, <3>2, StaysHeld
  <2>9. CASE t = u /\ JoinFails(u)
    BY <2>9 DEF JoinFails, Lost, Held
  <2>10. CASE t = u /\ JoinConnects(u)
    <3>1. Found(h)' /\ m_conns'[h].token = t
      BY <1>1, <2>2, <2>10, ConnFields, ConnTypes
         DEF JoinConnects, Emplaced, Types, MemoryType, Found
    <3> QED
      BY <3>1 DEF Held
  <2>11. CASE t = u /\ JoinStarts(u)
    <3>1. At(t, "start")
      BY <1>2, <2>2, <2>11 DEF JoinStarts, GroupInv, OneJoin, JoinsOf
    <3> QED
      BY <1>2, <2>1, <2>3, <2>5, <2>6, <2>7, <3>1 DEF Held
  <2> QED
    BY <2>8, <2>9, <2>10, <2>11
<1> QED
  BY <1>3, <1>4

LEMMA LeaveHeld ==
    ASSUME Types, OffInv, NEW g \in Groups,
           LeaveStep(g) \/ (\E u \in Tokens : ServerLeave(g, u)),
           NEW h \in Groups, GroupInv(h), NEW t \in members'[h], t \in members[h] => Held(h, t)
    PROVE  Held(h, t)'
<1>0. t \in members[h] /\ t \in Tokens /\ Held(h, t)
  <2>1. CASE LeaveStep(g)
    BY <2>1 DEF LeaveStep, LeaveJoined, LeaveAtOnce, LeaveMessages, LeaveDeleted, server, Types,
       ServerType
  <2>2. ASSUME NEW u \in Tokens, ServerLeave(g, u) PROVE t \in members[h] /\ t \in Tokens
    <3>1. members' = members \/ members' = [members EXCEPT ![g] = @ \ {u}]
      BY <2>2 DEF ServerLeave
    <3> QED
      BY <3>1 DEF Types, ServerType
  <2> QED
    BY <2>1, <2>2
<1>1. CASE LeaveJoined(g)
  <2>1. UNCHANGED <<stored, skipped, up, unknown>> /\ m_conns' = [m_conns EXCEPT ![g] = NoConn]
    BY <1>1 DEF LeaveJoined, LeaveAtOnce, disk, faults, history
  <2>2. Active(t) /\ ~At(t, "start") => (Active(t) /\ ~At(t, "start"))'
    BY <1>0, <1>1 DEF LeaveJoined, LeaveAtOnce, Active, At
  <2>3. ui.op = "join_thread" /\ ui.group = g /\ requests' = requests \cup {<<g, ui.token>>}
    BY <1>1 DEF LeaveJoined, LeaveAtOnce
  <2>4. h # g => m_conns'[h] = m_conns[h]
    BY <2>1 DEF Types, MemoryType
  <2>5. h = g => ui.token = m_conns[h].token
    BY <2>3 DEF GroupInv, OneToken, Leaving, Deleting
  <2> QED
    BY <1>0, <2>1, <2>2, <2>3, <2>4, <2>5 DEF Held, Found
<1>2. CASE LeaveMessages(g)
  BY <1>0, <1>2, StaysHeld DEF LeaveMessages, SameHeld, Active, At, Found, history, server
<1>3. CASE LeaveDeleted(g)
  <2>1. /\ UNCHANGED <<m_conns, joins, up, requests, skipped>> /\ unknown \subseteq unknown'
        /\ \/ stored' = [stored EXCEPT ![g] = NoToken] /\ unknown' = unknown \cup Unread(g)
           \/ stored' = stored
        /\ up
    BY <1>3 DEF LeaveDeleted, StoreGroup, Lost, server, OffInv, Idle
  <2>2. h \in skipped /\ stored[h] = t => stored'[h] = t \/ t \in unknown'
    BY <2>1 DEF Unread, Types, RowsType
  <2> QED
    BY <1>0, <2>1, <2>2, StaysHeld DEF SameHeld, Active, At, Found
<1>4. ASSUME NEW u \in Tokens, ServerLeave(g, u) PROVE Held(h, t)'
  <2>1. /\ UNCHANGED <<m_conns, joins, up, stored, skipped>> /\ requests' = requests \ {<<g, u>>}
        /\ unknown \subseteq unknown'
        /\ members' = [members EXCEPT ![g] = @ \ {u}] \/ u \in unknown'
    BY <1>4 DEF ServerLeave, disk, faults, Lost
  <2>2. t \in unknown' \/ <<h, t>> # <<g, u>>
    BY <2>1 DEF Types, ServerType
  <2> QED
    BY <1>0, <2>1, <2>2 DEF Held, Active, At, Found
<1> QED
  BY <1>1, <1>2, <1>3, <1>4 DEF LeaveStep

LEMMA EndHeld ==
    ASSUME Types, OffInv, TokenInv, Crash \/ Quit \/ Destroyed \/ Start,
           NEW h \in Groups, NEW t \in Tokens, t \in members[h], Held(h, t)
    PROVE  Held(h, t)'
<1>1. CASE Crash \/ Destroyed
  <2>1. /\ ~up' /\ UNCHANGED <<stored, requests>>
        /\ unknown' = unknown \cup OnlyInMemory
    BY <1>1 DEF Crash, Destroyed, Down, disk, faults, Lost
  <2>2. ASSUME stored[h] # t, Active(t) \/ m_conns[h].token = t PROVE t \in OnlyInMemory
    BY <2>2 DEF OnlyInMemory, TokenInv
  <2> QED
    BY <2>1, <2>2 DEF Held
<1>2. CASE Quit
  <2> DEFINE b == m_conns[h].wsThread # "none"
             d == [m_conns[h] EXCEPT !.stopRequested = b]
  <2>1. d.wsThread = m_conns[h].wsThread /\ d.token = m_conns[h].token
    BY ConnFields DEF Types, MemoryType
  <2>2. m_conns'[h] = d
    BY <1>2 DEF Quit, StoppedByQuit
  <2> HIDE DEF d
  <2>3. UNCHANGED <<joins, up, unknown, stored, skipped, requests>>
    BY <1>2 DEF Quit, history, disk, faults, server
  <2> QED
    BY <2>1, <2>2, <2>3, StaysHeld DEF SameHeld, Active, At, Found
<1>3. CASE Start
  <2>1. PICK readable \in SUBSET AllGroups :
           /\ m_conns' = [g \in Groups |-> IF g \in readable THEN Started(NewConn(stored[g]))
                                                           ELSE NoConn]
           /\ skipped' = AllGroups \ readable
    BY <1>3 DEF Start
  <2>2. UNCHANGED <<unknown, stored, requests>> /\ ~Active(t) /\ ~Found(h)
    BY <1>3 DEF Start, OffInv, history, server
  <2>3. stored[h] = t => h \in AllGroups
    BY DEF AllGroups, Tokens, NoToken
  <2>4. h \in readable /\ stored[h] = t => Found(h)' /\ m_conns'[h].token = t
    BY <2>1, ConnFields DEF Found
  <2> QED
    BY <2>1, <2>2, <2>3, <2>4 DEF Held
<1> QED
  BY <1>1, <1>2, <1>3

LEMMA MemberNext ==
    ASSUME IInv, MemberInv, [Next]_vars
    PROVE  MemberInv'
<1>1. Types /\ OffInv /\ StartInv /\ TokenInv /\ TokenInv'
  BY TokenNext DEF IInv, MemberInv
<1> SUFFICES ASSUME NEW h \in Groups, Patient(h)', NEW t \in members'[h]
             PROVE  Held(h, t)'
  BY <1>1 DEF MemberInv
<1>2. GroupInv(h) /\ (t \in members[h] => Held(h, t)) /\ t \in Tokens
  BY <1>1, PatientBefore, TypesNext DEF IInv, MemberInv, Types, ServerType
<1>3. ASSUME NEW u \in Tokens, JoinStep(u) \/ JoinFails(u) PROVE Held(h, t)'
  BY <1>1, <1>2, <1>3, JoinHeld
<1>4. ASSUME NEW g \in Groups, LeaveStep(g) \/ (\E u \in Tokens : ServerLeave(g, u))
      PROVE  Held(h, t)'
  BY <1>1, <1>2, <1>4, LeaveHeld
<1>5. CASE Crash \/ Quit \/ Destroyed \/ Start
  <2>1. t \in members[h]
    BY <1>5 DEF Crash, Quit, Destroyed, Down, Start, server
  <2> QED
    BY <1>1, <1>2, <1>5, <2>1, EndHeld
<1>6. ASSUME NEW g \in Groups, JoinGroup(g) PROVE Held(h, t)'
  <2>1. UNCHANGED <<m_conns, up, unknown, stored, skipped, requests, members>>
    BY <1>6 DEF JoinGroup, disk, faults, server
  <2>2. Active(t) /\ ~At(t, "start") => (Active(t) /\ ~At(t, "start"))'
    BY <1>1, <1>2, <1>6 DEF JoinGroup, Active, At, Types, JoinsType
  <2> QED
    BY <1>2, <2>1, <2>2, StaysHeld DEF SameHeld, Found
<1>7. ASSUME NEW g \in Groups, ConnectGroup(g) \/ LeaveGroup(g) \/ WsStep(g) PROVE Held(h, t)'
  <2>1. UNCHANGED <<joins, up, stored, skipped, requests, members>> /\ unknown \subseteq unknown'
    BY <1>1, <1>7, WsEffect DEF ConnectGroup, LeaveGroup, Lost, disk, faults, server, LocalButConns,
       history
  <2>2. /\ Found(h) => Found(h)'
        /\ Found(h) => m_conns'[h].token = m_conns[h].token \/ m_conns[h].token \in unknown'
    <3>1. CASE ConnectGroup(g)
      <4>1. stored[g] \in Tokens /\ m_conns[g] \in Conns
        BY <1>1, <3>1 DEF ConnectGroup, Types, RowsType, MemoryType
      <4>2. CASE h # g \/ ~Found(h)
        BY <3>1, <4>2 DEF ConnectGroup, Found
      <4>3. CASE h = g /\ Found(h)
        <5>1. m_conns'[h] = [m_conns[h] EXCEPT !.token = stored[h]]
          BY <1>1, <3>1, <4>3 DEF ConnectGroup, Types, MemoryType
        <5>2. Found(h)' /\ m_conns'[h].token = stored[h]
          BY <4>1, <4>3, <5>1, ConnFields DEF Found
        <5> QED
          BY <3>1, <4>3, <5>2 DEF ConnectGroup, Lost, Replaced
      <4> QED
        BY <4>2, <4>3
    <3>2. CASE LeaveGroup(g)
      <4> DEFINE d == [m_conns[g] EXCEPT !.stopRequested = TRUE]
      <4>1. d.wsThread = m_conns[g].wsThread /\ d.token = m_conns[g].token
        BY <1>1, ConnFields DEF Types, MemoryType
      <4>2. m_conns' = m_conns \/ m_conns' = [m_conns EXCEPT ![g] = d]
        BY <3>2 DEF LeaveGroup
      <4> HIDE DEF d
      <4> QED
        BY <1>1, <4>1, <4>2 DEF Types, MemoryType, Found
    <3>3. CASE WsStep(g)
      BY <1>1, <3>3, WsEffect DEF Follows, Found, Types, MemoryType
    <3> QED
      BY <1>7, <3>1, <3>2, <3>3
  <2> QED
    BY <1>2, <2>1, <2>2, StaysHeld DEF SameHeld, Active, At
<1>8. CASE \/ \E g \in Groups : Sends(g)
           \/ \E g \in Groups, m \in Messages : PeerPosts(g, m) \/ SendMessage(g, m)
           \/ UNCHANGED vars
  <2>1. UNCHANGED <<m_conns, joins, up, unknown, stored, skipped, requests, members>>
    BY <1>8 DEF Sends, PeerPosts, SendMessage, vars, local, history, disk, faults, server
  <2> QED
    BY <1>2, <2>1, StaysHeld DEF SameHeld, Active, At, Found
<1> QED
  BY <1>3, <1>4, <1>5, <1>6, <1>7, <1>8 DEF Next

-----------------------------------------------------------------------------
(* The messages. *)

MissInv == \A g \in Groups : Patient(g) => NothingMissed(g)

\* A step that brings nothing online, posts nothing and loses nothing.
SameMissed(h) ==
    /\ Thread(h, "online")' => Thread(h, "online")
    /\ posted'[h] = posted[h] /\ wire'[h] = wire[h]
    /\ rows[h] \cup missed[h] \subseteq rows'[h] \cup missed'[h]

LEMMA StaysMissed ==
    ASSUME NEW h \in Groups, NothingMissed(h), SameMissed(h)
    PROVE  NothingMissed(h)'
BY DEF NothingMissed, SameMissed

\* No step but those of the thread brings a group online.
LEMMA OnlineBefore ==
    ASSUME Types, StartInv, OffInv, [Next]_vars, NEW h \in Groups, Thread(h, "online")', ~WsStep(h)
    PROVE  Thread(h, "online")
<1> USE DEF Thread
<1>1. m_conns[h] \in Conns
  BY DEF Types, MemoryType
<1>2. ASSUME NEW t \in Tokens, JoinConnects(t) \/ JoinStarts(t) PROVE Thread(h, "online")
  <2>1. joins[t].group \in Groups
    BY <1>2, GroupOfJoin DEF JoinConnects, JoinStarts, At, Types
  <2>2. CASE JoinConnects(t)
    BY <1>1, <2>1, <2>2, ConnFields DEF JoinConnects, Emplaced, Types, MemoryType
  <2>3. CASE JoinStarts(t)
    BY <1>1, <2>1, <2>3, ConnFields DEF JoinStarts, Types, MemoryType
  <2> QED
    BY <1>2, <2>2, <2>3
<1>3. ASSUME NEW g \in Groups, ConnectGroup(g) PROVE Thread(h, "online")
  <2>1. stored[g] \in Tokens
    BY <1>3 DEF ConnectGroup, Types, RowsType
  <2> QED
    BY <1>1, <1>3, <2>1, ConnFields DEF ConnectGroup, Types, MemoryType
<1>4. ASSUME NEW g \in Groups, LeaveGroup(g) PROVE Thread(h, "online")
  <2> DEFINE d == [m_conns[g] EXCEPT !.stopRequested = TRUE]
  <2>1. d.wsThread = m_conns[g].wsThread
    BY ConnFields DEF Types, MemoryType
  <2>2. m_conns' = m_conns \/ m_conns' = [m_conns EXCEPT ![g] = d]
    BY <1>4 DEF LeaveGroup
  <2> HIDE DEF d
  <2> QED
    BY <2>1, <2>2 DEF Types, MemoryType
<1>5. ASSUME NEW g \in Groups, LeaveJoined(g) PROVE Thread(h, "online")
  BY <1>5, ConnFields DEF LeaveJoined, LeaveAtOnce, Types, MemoryType
<1>6. ASSUME NEW g \in Groups, WsStep(g) PROVE Thread(h, "online")
  BY <1>6, WsEffect DEF Types, MemoryType
<1>7. CASE Crash \/ Destroyed
  BY <1>7, DownEffect, ConnFields DEF Crash, Destroyed
<1>8. CASE Quit
  <2> DEFINE b == m_conns[h].wsThread # "none"
             d == [m_conns[h] EXCEPT !.stopRequested = b]
  <2>1. d.wsThread = m_conns[h].wsThread
    BY ConnFields DEF Types, MemoryType
  <2>2. m_conns'[h] = d
    BY <1>8 DEF Quit, StoppedByQuit
  <2> HIDE DEF d
  <2> QED
    BY <2>1, <2>2
<1>9. CASE Start
  BY <1>9, ConnFields DEF Start, AllGroups, Types, RowsType
<1>10. CASE m_conns' = m_conns
  BY <1>10
<1> QED
  BY <1>2, <1>3, <1>4, <1>5, <1>6, <1>7, <1>8, <1>9, <1>10
     DEF Next, JoinStep, LeaveStep, JoinGroup, ServerJoin, SaveGroup, OnGroupJoined, JoinFails,
         LeaveMessages, LeaveDeleted, Sends, ServerLeave, PeerPosts, SendMessage, local, vars

\* What the thread of an online group receives is saved, or known as missed.
LEMMA WsMissed ==
    ASSUME Types, NEW h \in Groups, WsStep(h), NothingMissed(h)
    PROVE  NothingMissed(h)'
<1>1. wire[h] \in Seq(Frames) /\ m_conns[h] \in Conns
  BY DEF Types, ServerType, MemoryType
<1>2. CASE Dialled(h)
  <2>1. wire'[h] = <<Frame("history", posted[h])>> /\ posted' = posted
    BY <1>2 DEF Dialled, Types, ServerType
  <2>2. 1 \in DOMAIN wire'[h] /\ wire'[h][1].messages = posted[h]
    BY <2>1 DEF Frame
  <2> QED
    BY <2>1, <2>2 DEF NothingMissed
<1>3. CASE Receives(h)
  <2>1. /\ posted' = posted /\ m_conns' = m_conns /\ wire[h] # <<>>
        /\ wire'[h] = Tail(wire[h])
        /\ rows[h] \cup missed[h] \cup wire[h][1].messages \subseteq rows'[h] \cup missed'[h]
    <3>1. PICK S \in SUBSET Saves(h) :
             /\ rows' = [rows EXCEPT ![h] = @ \cup S]
             /\ missed' = [missed EXCEPT ![h] = (@ \ S) \cup (Saves(h) \ S)]
      BY <1>3 DEF Receives, StoreMessages
    <3>2. rows'[h] = rows[h] \cup S /\ missed'[h] = (missed[h] \ S) \cup (Saves(h) \ S)
      BY <3>1 DEF Types, RowsType
    <3>3. Saves(h) = wire[h][1].messages
      BY <1>1, <1>3 DEF Receives, Saves
    <3> QED
      BY <1>1, <1>3, <3>2, <3>3 DEF Receives, local, Types, ServerType
  <2>2. ASSUME NEW i \in DOMAIN wire[h], i # 1
        PROVE  i - 1 \in DOMAIN wire'[h] /\ wire'[h][i - 1] = wire[h][i]
    BY <1>1, <2>1, <2>2
  <2> QED
    BY <2>1, <2>2 DEF NothingMissed, Thread
<1>4. CASE Dials(h) \/ DialFails(h) \/ Closes(h) \/ CleansUp(h) \/ Wakes(h)
  <2>1. PICK d \in Conns : m_conns' = [m_conns EXCEPT ![h] = d] /\ d.wsThread # "online"
    <3> DEFINE c == m_conns[h]
    <3>1. CASE Dials(h)
      <4> DEFINE d == [c EXCEPT !.wsThread = "dial"]
                 e == [d EXCEPT !.url = c.token]
                 r == [c EXCEPT !.wsThread = "returned"]
      <4>1. r.wsThread # "online" /\ d \in Conn /\ d.wsThread # "online"
        BY <1>1 DEF Conns, Conn
      <4>2. e.wsThread # "online"
        <5> HIDE DEF d
        <5> QED
          BY <4>1 DEF Conn
      <4>3. m_conns' = [m_conns EXCEPT ![h] = IF c.stopRequested THEN r ELSE e]
        BY <3>1 DEF Dials, Moves
      <4>4. m_conns' \in [Groups -> Conns]
        BY WsTypes DEF Types, MemoryType
      <4> HIDE DEF c, e, r
      <4> QED
        BY <4>1, <4>2, <4>3, <4>4 DEF Types, MemoryType
    <3>2. CASE DialFails(h)
      <4>1. Retry(c) \in Conns /\ Retry(c).wsThread \in {"returned", "asleep"}
        BY <1>1, <3>2, RetryType DEF DialFails, Thread
      <4> QED
        BY <3>2, <4>1 DEF DialFails, Moves
    <3>3. CASE Closes(h)
      <4> DEFINE d == [c EXCEPT !.wsThread = "closing"]
                 e == [d EXCEPT !.curl = FALSE]
      <4>1. d \in Conn /\ d.wsThread # "online"
        BY <1>1 DEF Conns, Conn
      <4>2. e.wsThread # "online"
        <5> HIDE DEF d
        <5> QED
          BY <4>1 DEF Conn
      <4>3. m_conns' = [m_conns EXCEPT ![h] = e] /\ m_conns' \in [Groups -> Conns]
        BY <3>3, WsTypes DEF Closes, Moves, Cleared, Types, MemoryType
      <4> HIDE DEF e
      <4> QED
        BY <4>2, <4>3 DEF Types, MemoryType
    <3>4. CASE CleansUp(h)
      <4> DEFINE d == [c EXCEPT !.handle = FALSE]
                 e == [d EXCEPT !.curl = FALSE]
      <4>1. d \in Conns /\ d.wsThread = "closing"
        BY <1>1, <3>4 DEF Conns, Conn, CleansUp, Thread
      <4>2. e \in Conns /\ e.wsThread = "closing"
        <5> HIDE DEF d
        <5> QED
          BY <4>1 DEF Conns, Conn
      <4>3. m_conns' = [m_conns EXCEPT ![h] = Retry(e)]
        BY <3>4 DEF CleansUp, Moves
      <4> HIDE DEF e
      <4>4. Retry(e) \in Conns /\ Retry(e).wsThread \in {"returned", "asleep"}
        BY <4>2, RetryType
      <4> QED
        BY <4>3, <4>4
    <3>5. CASE Wakes(h)
      BY <1>1, <3>5, ConnFields, ConnTypes DEF Wakes, Moves, Thread
    <3> QED
      BY <1>4, <3>1, <3>2, <3>3, <3>4, <3>5
  <2> QED
    BY <2>1 DEF NothingMissed, Thread, Types, MemoryType
<1> QED
  BY <1>2, <1>3, <1>4 DEF WsStep

\* What is posted while the group is online goes onto its WebSocket.
LEMMA PostMissed ==
    ASSUME Types, NEW g \in Groups, NEW m \in Messages, Posts(g, m), UNCHANGED <<m_conns, rows, missed>>,
           NEW h \in Groups, NothingMissed(h)
    PROVE  NothingMissed(h)'
<1>1. CASE h # g
  BY <1>1, StaysMissed DEF Posts, SameMissed, Thread, Types, ServerType
<1>2. CASE h = g /\ Thread(h, "online")
  <2> DEFINE f == Frame("msg", {m})
  <2>1. wire[h] \in Seq(Frames)
    BY DEF Types, ServerType
  <2>2. wire'[h] = Append(wire[h], f) /\ posted'[h] = posted[h] \cup {m}
    BY <1>2 DEF Posts, Types, ServerType
  <2>3. f.messages = {m}
    BY DEF Frame
  <2> HIDE DEF f
  <2>4. /\ \A i \in DOMAIN wire[h] : i \in DOMAIN wire'[h] /\ wire'[h][i] = wire[h][i]
        /\ Len(wire[h]) + 1 \in DOMAIN wire'[h] /\ wire'[h][Len(wire[h]) + 1] = f
    BY <2>1, <2>2
  <2> QED
    BY <1>2, <2>2, <2>3, <2>4 DEF NothingMissed
<1>3. CASE h = g /\ ~Thread(h, "online")
  BY <1>3 DEF NothingMissed, Thread
<1> QED
  BY <1>1, <1>2, <1>3

LEMMA MissNext ==
    ASSUME IInv, MissInv, [Next]_vars
    PROVE  MissInv'
<1> SUFFICES ASSUME NEW h \in Groups, Patient(h)' PROVE NothingMissed(h)'
  BY DEF MissInv
<1>1. Types /\ StartInv /\ OffInv /\ GroupInv(h) /\ NothingMissed(h)
  BY PatientBefore DEF IInv, MissInv
<1>2. CASE WsStep(h)
  BY <1>1, <1>2, WsMissed
<1>3. CASE ~WsStep(h) /\ Thread(h, "online") /\ Thread(h, "online")'
  <2>1. ASSUME NEW g \in Groups, WsStep(g) PROVE SameMissed(h)
    <3>1. g # h
      BY <1>3, <2>1
    <3> QED
      BY <1>1, <1>3, <2>1, <3>1, WsEffect
         DEF SameMissed, WsStep, Dials, DialFails, Dialled, Receives, StoreMessages, Closes,
             CleansUp, Wakes, disk, faults, server, Types, ServerType, RowsType
  <2>2. ASSUME NEW g \in Groups, LeaveMessages(g) PROVE SameMissed(h)
    <3>1. g # h
      BY <1>1, <1>3, <2>2 DEF LeaveMessages, OffInv, Idle, GroupInv, Settled, OneJoin, Joining, JoinsOf,
         Leaving, Deleting, Found, Thread
    <3> QED
      BY <1>1, <1>3, <2>2, <3>1
         DEF SameMissed, LeaveMessages, DeleteMessages, server, Types, RowsType
  <2>3. ASSUME NEW g \in Groups, Sends(g) PROVE NothingMissed(h)'
    <3>1. ui.op = "send" => ui.message \in Messages
      BY <1>1 DEF Types, JoinsType, Calls
    <3>2. CASE Posts(g, ui.message)
      BY <1>1, <2>3, <3>1, <3>2, PostMissed DEF Sends, disk, faults
    <3>3. CASE UNCHANGED <<posted, wire>>
      BY <1>1, <1>3, <2>3, <3>3, StaysMissed DEF Sends, disk, faults, SameMissed
    <3> QED
      BY <2>3, <3>2, <3>3 DEF Sends
  <2>4. ASSUME NEW g \in Groups, NEW m \in Messages, PeerPosts(g, m) PROVE NothingMissed(h)'
    BY <1>1, <2>4, PostMissed DEF PeerPosts, local, disk, faults
  <2>5. CASE Crash \/ Destroyed
    BY <1>1, <1>3, <2>5, DownEffect, ConnFields DEF Crash, Destroyed, Thread
  <2>6. CASE \/ \E t \in Tokens : JoinStep(t) \/ JoinFails(t)
             \/ \E g \in Groups : JoinGroup(g) \/ ConnectGroup(g) \/ LeaveGroup(g) \/ LeaveJoined(g)
                                  \/ LeaveDeleted(g)
             \/ \E g \in Groups, t \in Tokens : ServerLeave(g, t)
             \/ \E g \in Groups, m \in Messages : SendMessage(g, m)
             \/ Quit \/ Start \/ UNCHANGED vars
    <3>1. UNCHANGED <<rows, missed, posted, wire>>
      BY <2>6 DEF JoinStep, ServerJoin, SaveGroup, OnGroupJoined, JoinConnects, JoinStarts, JoinFails,
         JoinGroup, ConnectGroup, LeaveGroup, LeaveJoined, LeaveAtOnce, LeaveDeleted, ServerLeave,
         SendMessage, Quit, Start, disk, faults, server, vars
    <3> QED
      BY <1>1, <1>3, <3>1, StaysMissed DEF SameMissed
  <2> QED
    BY <1>1, <2>1, <2>2, <2>3, <2>4, <2>5, <2>6, StaysMissed DEF Next, LeaveStep
<1>4. CASE ~Thread(h, "online")'
  BY <1>4 DEF NothingMissed, Thread
<1> QED
  BY <1>1, <1>2, <1>3, <1>4, OnlineBefore

-----------------------------------------------------------------------------
(* The theorems. *)

LEMMA Invariant == Spec => []IInv
BY IInvInit, IInvNext, PTL DEF Spec

\* The variables keep their types; the counter of attempts stays in its range.
THEOREM TypeCorrect == Spec => []TypeOK
<1>1. IInv => TypeOK
  BY DEF IInv, Types, MemoryType, JoinsType, RowsType, ServerType, BoundsType, Conns, TypeOK
<1> QED
  BY <1>1, Invariant, PTL

\* sendMessage never uses a handle that wsThreadFunc has cleaned up: curl is cleared first,
\* and whoever finds it set under curlMutex finds the handle open.
THEOREM HandleStaysOpen == Spec => []HandleIsOpen
<1>1. Init => HandleIsOpen
  BY ConnFields DEF Init, HandleIsOpen
<1>2. IInv /\ HandleIsOpen /\ [Next]_vars => HandleIsOpen'
  BY HandleNext DEF IInv
<1> QED
  BY <1>1, <1>2, Invariant, PTL DEF Spec

\* Whatever a crash interrupts and whichever statement fails: a saved message has its
\* group's row and, between two calls about it, the groups on the screen are those with a
\* Conn and those in the database, but for what saveGroup, deleteGroup or the reading of
\* the row failed at.
THEOREM ShownAgrees == Spec => []ShownIsSaved
<1>1. ui = Idle => \A g \in Groups : ~Leaving(g)
  BY DEF Idle, Leaving
<1>2. IInv => ShownIsSaved
  BY <1>1 DEF IInv, GroupInv, Settled, Deleting, Odd, ShownIsSaved
<1> QED
  BY <1>2, Invariant, PTL

\* No membership is forgotten, in any order of joins, leaves, failures and ends of the
\* program, but those whose only message or only copy of the token was lost.
THEOREM MembersAreKnown == Spec => []MembershipIsSaved
<1>1. Init => MemberInv
  BY DEF Init, MemberInv, TokenInv
<1>2. IInv /\ MemberInv /\ [Next]_vars => MemberInv'
  BY MemberNext
<1>3. IInv /\ MemberInv => MembershipIsSaved
  BY DEF IInv, GroupInv, OneToken, Kept, MemberInv, Held, MembershipIsSaved
<1> QED
  BY <1>1, <1>2, <1>3, Invariant, PTL DEF Spec

\* A group that is online has saved, or has on its WebSocket, all that was ever posted to it,
\* but for what it failed to save on this connection: the history it gets on connecting
\* covers what it was not there for, and what it could not save before.
THEOREM OnlineHasAll == Spec => []OnlineMissesNothing
<1>1. Init => MissInv
  BY ConnFields DEF Init, MissInv, NothingMissed, Thread
<1>2. IInv /\ MissInv /\ [Next]_vars => MissInv'
  BY MissNext
<1>3. MissInv => OnlineMissesNothing
  BY DEF MissInv, NothingMissed, OnlineMissesNothing
<1> QED
  BY <1>1, <1>2, <1>3, Invariant, PTL DEF Spec
=============================================================================
