---------------------------- MODULE GroupManager ----------------------------
(***************************************************************************)
(* Membership of groups (src/src/net/groupmanager.cpp): the user's thread, *)
(* the detached threads of joinGroup, one WebSocket thread per Conn, the   *)
(* database rows that outlive the program, and the groups' servers.        *)
(*                                                                         *)
(* m_mutex and curlMutex are held for a few lines each, so an action is    *)
(* what a thread does between two places where it lets go of them or       *)
(* blocks.  The calls of the interface come from one thread, the user's.   *)
(* A token is the number of the joinGroup call the server gave it to.      *)
(* Every statement of the database may fail, and what the code then does   *)
(* is what the actions do: it goes on.                                     *)
(* Keys, names, roles and the members' comings and goings are left out.    *)
(***************************************************************************)
EXTENDS Naturals, Sequences, FiniteSets

CONSTANTS
    Groups,
    Messages,
    kMaxReconnAttempts,
    MaxJoins,    \* bound: calls of joinGroup in all
    MaxFaults,   \* bound: requests lost, connections refused or broken, statements of the
                 \* database failed and ends of the program in all, two less for a user
                 \* who joins or leaves in haste
    MaxStops     \* bound: ends of the program, orderly or not

ASSUME GroupAssumption ==
    /\ kMaxReconnAttempts \in Nat
    /\ MaxJoins \in Nat /\ MaxFaults \in Nat /\ MaxStops \in Nat

Tokens == 1 .. MaxJoins
NoToken == 0

VARIABLES
    m_conns,    \* [Groups -> the Conn in the map]
    joins,      \* [Tokens -> a joinGroup call and how far its thread is]
    stored,     \* [Groups -> token of the row in "groups"]
    rows,       \* [Groups -> messages in "group_messages"]
    unsaved,    \* the groups whose last saveGroup failed
    undeleted,  \* the groups of which a leave deleted not all, until they are saved again
    skipped,    \* the groups whose row could not be read at the start, until it is replaced
    missed,     \* [Groups -> messages received on this connection and not saved]
    shown,      \* the groups the user is shown as joined
    wantsOut,   \* the groups the user has asked to leave since
    ui,         \* what the user's thread is in the middle of
    up,         \* does the program run?
    rejoined,   \* the groups joined again while they were joined or being joined
    leftEarly,  \* the groups left before joinGroup was through with them
    unknown,    \* the tokens that a lost reply or request, a replaced row or Conn, or the
                \* end of the program left to nobody here
    members,    \* [Groups -> tokens the server takes]
    requests,   \* DELETE requests that have not arrived, <<group, token>>
    posted,     \* [Groups -> messages the server has]
    wire,       \* [Groups -> frames on the WebSocket]
    fails, dbFails, stops

history == <<rejoined, leftEarly, unknown>>
local == <<m_conns, joins, shown, wantsOut, ui, up, history>>
faults == <<unsaved, undeleted, skipped, missed, dbFails>>
disk == <<stored, rows, faults>>
server == <<members, requests, posted, wire>>
bounds == <<fails, stops>>
vars == <<local, disk, server, bounds>>

\* handle: is what curl pointed to still open?  connected changes with curl.
Conn == [token : Tokens \cup {NoToken}, stopRequested : BOOLEAN, curl : BOOLEAN,
         handle : BOOLEAN, reconnAttempts : 0 .. kMaxReconnAttempts + 1,
         wsThread : {"none", "unset", "top", "dial", "online", "closing", "asleep", "returned"},
         url : Tokens \cup {NoToken}]
NoConn == [token |-> NoToken, stopRequested |-> FALSE, curl |-> FALSE, handle |-> FALSE,
           reconnAttempts |-> 0, wsThread |-> "none", url |-> NoToken]
NewConn(t) == [NoConn EXCEPT !.token = t, !.wsThread = "unset"]
Started(c) == [c EXCEPT !.wsThread = "top"]

Calls == [op : {"idle"}]
             \cup [op : {"join_thread", "delete", "delete_row"}, group : Groups, token : Tokens \cup {NoToken}]
             \cup [op : {"send"}, group : Groups, message : Messages]
             \cup [op : {"quit"}, groups : SUBSET Groups]
Idle == [op |-> "idle"]

Join == [group : Groups, at : {"post", "reply", "saved", "joined", "start", "astray", "done"}]
Uncalled == [at |-> "uncalled"]

Frames == [type : {"history", "msg"}, messages : SUBSET Messages]
Frame(t, S) == [type |-> t, messages |-> S]

Init ==
    /\ m_conns = [g \in Groups |-> NoConn]
    /\ joins = [t \in Tokens |-> Uncalled]
    /\ stored = [g \in Groups |-> NoToken]
    /\ rows = [g \in Groups |-> {}]
    /\ unsaved = {} /\ undeleted = {} /\ skipped = {}
    /\ missed = [g \in Groups |-> {}]
    /\ shown = {} /\ wantsOut = {} /\ rejoined = {} /\ leftEarly = {} /\ unknown = {}
    /\ ui = Idle
    /\ up = TRUE
    /\ members = [g \in Groups |-> {}]
    /\ requests = {}
    /\ posted = [g \in Groups |-> {}]
    /\ wire = [g \in Groups |-> <<>>]
    /\ fails = 0 /\ dbFails = 0 /\ stops = 0

-----------------------------------------------------------------------------

Found(g) == m_conns[g].wsThread # "none"
Haste == IF rejoined \cup leftEarly = {} THEN 0 ELSE 2
MayFail == fails + dbFails + stops + Haste < MaxFaults
Fail == MayFail /\ fails' = fails + 1 /\ UNCHANGED stops
DbFail == MayFail /\ dbFails' = dbFails + 1
Lost(S) == unknown' = unknown \cup S
At(t, pc) == joins[t].at = pc
Goes(t, pc) == joins' = [joins EXCEPT ![t].at = pc]
Active(t) == joins[t].at \notin {"uncalled", "done"}
Joining(g) == \E t \in Tokens : Active(t) /\ joins[t].group = g
Completing(g) == \E t \in Tokens : joins[t].at \in {"saved", "joined", "start"} /\ joins[t].group = g
Ready == up /\ ui = Idle

-----------------------------------------------------------------------------
(* joinGroup. *)

JoinGroup(g) ==
    /\ Ready
    /\ \E t \in Tokens :
          /\ At(t, "uncalled")
          /\ \A r \in 1 .. t - 1 : ~At(r, "uncalled")
          /\ joins' = [joins EXCEPT ![t] = [group |-> g, at |-> "post"]]
    /\ wantsOut' = wantsOut \ {g}
    /\ rejoined' = IF Joining(g) \/ Found(g) THEN rejoined \cup {g} ELSE rejoined
    /\ UNCHANGED <<m_conns, shown, ui, up, leftEarly, unknown, disk, server, bounds>>

\* The server takes the request.
ServerJoin(t) ==
    /\ At(t, "post")
    /\ members' = [members EXCEPT ![joins[t].group] = @ \cup {t}]
    /\ Goes(t, "reply")
    /\ UNCHANGED <<m_conns, shown, wantsOut, ui, up, history, disk, requests, posted, wire, bounds>>

\* onJoinError, with the request or the reply lost.
JoinFails(t) ==
    /\ At(t, "post") \/ At(t, "reply")
    /\ Fail
    /\ Goes(t, "done")
    /\ Lost({t})
    /\ UNCHANGED <<m_conns, shown, wantsOut, ui, up, rejoined, leftEarly, disk, server>>

\* StorageManager: the rows.
StoreGroup(g, t) == stored' = [stored EXCEPT ![g] = t]
StoreMessages(g, S) == rows' = [rows EXCEPT ![g] = @ \cup S]
AllGroups == {g \in Groups : stored[g] # NoToken}

\* The token of a row that could not be read is lost with the row.
Unread(g) == IF g \in skipped THEN {stored[g]} ELSE {}

\* saveGroup is one INSERT OR REPLACE; joinGroup goes on when it fails.
SaveGroup(t) ==
    LET g == joins[t].group IN
    /\ At(t, "reply")
    /\ Goes(t, "saved")
    /\ \/ /\ StoreGroup(g, t)
          /\ unsaved' = unsaved \ {g} /\ undeleted' = undeleted \ {g} /\ skipped' = skipped \ {g}
          /\ Lost(Unread(g))
          /\ UNCHANGED dbFails
       \/ /\ DbFail
          /\ unsaved' = unsaved \cup {g}
          /\ UNCHANGED <<stored, undeleted, skipped, unknown>>
    /\ UNCHANGED <<m_conns, shown, wantsOut, ui, up, rejoined, leftEarly, rows, missed, server,
                   bounds>>

OnGroupJoined(t) ==
    /\ At(t, "saved")
    /\ shown' = shown \cup {joins[t].group}
    /\ Goes(t, "joined")
    /\ UNCHANGED <<m_conns, wantsOut, ui, up, history, disk, server, bounds>>

\* connectGroup up to the unlock: a Conn that is there gets the token.
Replaced(g, t) == IF Found(g) THEN {m_conns[g].token} \ {t} ELSE {}
Emplaced(g, t) == [m_conns EXCEPT ![g] = IF Found(g) THEN [@ EXCEPT !.token = t] ELSE NewConn(t)]

JoinConnects(t) ==
    /\ At(t, "joined")
    /\ m_conns' = Emplaced(joins[t].group, t)
    /\ Goes(t, IF Found(joins[t].group) THEN "done" ELSE "start")
    /\ Lost(Replaced(joins[t].group, t))
    /\ UNCHANGED <<shown, wantsOut, ui, up, rejoined, leftEarly, disk, server, bounds>>

\* The assignment of wsThread.  The Conn may be gone; what becomes of its thread then is
\* undefined and left out.
JoinStarts(t) ==
    /\ At(t, "start") \/ At(t, "astray")
    /\ IF At(t, "start")
       THEN m_conns' = [m_conns EXCEPT ![joins[t].group] = Started(@)]
       ELSE UNCHANGED m_conns
    /\ Goes(t, "done")
    /\ UNCHANGED <<shown, wantsOut, ui, up, history, disk, server, bounds>>

\* connectGroup by the user, for a saved group: one shown, or one just saved.
ConnectGroup(g) ==
    /\ Ready /\ stored[g] # NoToken
    /\ g \in shown \/ g \notin undeleted \cup skipped
    /\ m_conns' = [m_conns EXCEPT ![g] = IF Found(g) THEN [@ EXCEPT !.token = stored[g]]
                                                     ELSE Started(NewConn(stored[g]))]
    /\ Lost(Replaced(g, stored[g]))
    /\ UNCHANGED <<joins, shown, wantsOut, ui, up, rejoined, leftEarly, disk, server, bounds>>

-----------------------------------------------------------------------------
(* leaveGroup. *)

LeaveGroup(g) ==
    /\ Ready /\ g \in shown
    /\ wantsOut' = wantsOut \cup {g}
    /\ leftEarly' = IF Completing(g) THEN leftEarly \cup {g} ELSE leftEarly
    /\ IF Found(g)
       THEN /\ m_conns' = [m_conns EXCEPT ![g].stopRequested = TRUE]
            /\ ui' = [op |-> "join_thread", group |-> g, token |-> m_conns[g].token]
       ELSE UNCHANGED <<m_conns, ui>>
    /\ UNCHANGED <<joins, shown, up, rejoined, unknown, disk, server, bounds>>

\* join() returns, at once when there is no thread; the Conn is destroyed, and the
\* DELETE request is on its way.
Joinable(c) == c.wsThread # "unset"
Returned(c) == c.wsThread = "returned"

LeaveAtOnce(g) ==
    /\ ui.op = "join_thread" /\ ui.group = g
    /\ m_conns' = [m_conns EXCEPT ![g] = NoConn]
    /\ joins' = [t \in Tokens |-> IF At(t, "start") /\ joins[t].group = g
                                  THEN [joins[t] EXCEPT !.at = "astray"] ELSE joins[t]]
    /\ ui' = [ui EXCEPT !.op = "delete"]
    /\ UNCHANGED <<shown, wantsOut, up, history, disk, members, posted, wire, bounds>>
LeaveSilently(g) == Returned(m_conns[g]) /\ LeaveAtOnce(g) /\ UNCHANGED requests
LeaveJoined(g) ==
    /\ Joinable(m_conns[g]) => Returned(m_conns[g])
    /\ LeaveAtOnce(g)
    /\ requests' = requests \cup {<<g, ui.token>>}

\* deleteGroup's two statements, the first of which nobody checks, and onGroupLeft, which
\* is called whatever became of the second.
KeepMessages(g) == UNCHANGED rows
DeleteMessages(g) == rows' = [rows EXCEPT ![g] = {}]
LeaveMessages(g) ==
    /\ ui.op = "delete" /\ ui.group = g
    /\ \/ DeleteMessages(g) /\ UNCHANGED <<undeleted, dbFails>>
       \/ DbFail /\ undeleted' = undeleted \cup {g} /\ UNCHANGED rows
    /\ ui' = [ui EXCEPT !.op = "delete_row"]
    /\ UNCHANGED <<m_conns, joins, shown, wantsOut, up, history, stored, unsaved, skipped, missed,
                   server, bounds>>

LeaveDeleted(g) ==
    /\ ui.op = "delete_row" /\ ui.group = g
    /\ \/ StoreGroup(g, NoToken) /\ Lost(Unread(g)) /\ UNCHANGED <<undeleted, dbFails>>
       \/ DbFail /\ undeleted' = undeleted \cup {g} /\ UNCHANGED <<stored, unknown>>
    /\ ui' = Idle
    /\ shown' = shown \ {g} /\ wantsOut' = wantsOut \ {g}
    /\ UNCHANGED <<m_conns, joins, up, rejoined, leftEarly, rows, unsaved, skipped, missed, server,
                   bounds>>

ServerLeave(g, t) ==
    /\ <<g, t>> \in requests
    /\ requests' = requests \ {<<g, t>>}
    /\ \/ members' = [members EXCEPT ![g] = @ \ {t}] /\ UNCHANGED <<unknown, bounds>>
       \/ Fail /\ Lost({t}) /\ UNCHANGED members
    /\ UNCHANGED <<m_conns, joins, shown, wantsOut, ui, up, rejoined, leftEarly, disk, posted, wire>>

-----------------------------------------------------------------------------
(* wsThreadFunc. *)

Thread(g, pc) == m_conns[g].wsThread = pc
Moves(g, c) == m_conns' = [m_conns EXCEPT ![g] = c]
LocalButConns == <<joins, shown, wantsOut, ui, up, history>>

\* After a failure or a broken connection: return for good, or wait and try again.
Again(c, limit) ==
    IF c.stopRequested THEN [c EXCEPT !.wsThread = "returned"]
    ELSE [c EXCEPT !.reconnAttempts = @ + 1,
                   !.wsThread = IF c.reconnAttempts + 1 > limit THEN "returned" ELSE "asleep"]
GivesUpEarly(c) == Again(c, kMaxReconnAttempts - 1)
Retry(c) == Again(c, kMaxReconnAttempts)

Dials(g) ==
    /\ Thread(g, "top")
    /\ Moves(g, IF m_conns[g].stopRequested THEN [m_conns[g] EXCEPT !.wsThread = "returned"]
                ELSE [m_conns[g] EXCEPT !.wsThread = "dial", !.url = m_conns[g].token])
    /\ UNCHANGED <<LocalButConns, disk, server, bounds>>

DialFails(g) ==
    /\ Thread(g, "dial")
    /\ Fail \/ (m_conns[g].url \notin members[g] /\ UNCHANGED bounds)
    /\ Moves(g, Retry(m_conns[g]))
    /\ UNCHANGED <<LocalButConns, disk, server>>

\* The server takes the connection and sends the history.
Connected(c) == [c EXCEPT !.wsThread = "online", !.curl = TRUE, !.handle = TRUE,
                          !.reconnAttempts = 0]
Dialled(g) ==
    /\ Thread(g, "dial") /\ m_conns[g].url \in members[g]
    /\ Moves(g, Connected(m_conns[g]))
    /\ wire' = [wire EXCEPT ![g] = <<Frame("history", posted[g])>>]
    /\ missed' = [missed EXCEPT ![g] = {}]
    /\ UNCHANGED <<LocalButConns, stored, rows, unsaved, undeleted, skipped, dbFails, members,
                   requests, posted, bounds>>

\* One curl_ws_recv with handleWsFrame, which saves what the frame carries, but for what it
\* cannot decrypt or saveGroupMessage does not take: it goes on to the next.
LiveOnly(g) == IF Head(wire[g]).type = "msg" THEN Head(wire[g]).messages ELSE {}
Saves(g) == Head(wire[g]).messages
Receives(g) ==
    /\ Thread(g, "online") /\ ~m_conns[g].stopRequested /\ wire[g] # <<>>
    /\ \E S \in SUBSET Saves(g) :
          /\ StoreMessages(g, S)
          /\ missed' = [missed EXCEPT ![g] = (@ \ S) \cup (Saves(g) \ S)]
          /\ IF S = Saves(g) THEN UNCHANGED dbFails ELSE DbFail
    /\ wire' = [wire EXCEPT ![g] = Tail(@)]
    /\ UNCHANGED <<local, stored, unsaved, undeleted, skipped, members, requests, posted, bounds>>

\* The loop ends, for a stop or because the connection broke; curl is cleared under
\* curlMutex before the handle is cleaned up.
CleanedUp(c) == [c EXCEPT !.wsThread = "closing", !.handle = FALSE]
Cleared(c) == [c EXCEPT !.wsThread = "closing", !.curl = FALSE]
ClosesIfBroken(g) ==
    /\ Thread(g, "online")
    /\ Fail
    /\ Moves(g, Cleared(m_conns[g]))
    /\ wire' = [wire EXCEPT ![g] = <<>>]
    /\ UNCHANGED <<LocalButConns, disk, members, requests, posted>>
Closes(g) ==
    /\ Thread(g, "online")
    /\ Fail \/ (m_conns[g].stopRequested /\ UNCHANGED bounds)
    /\ Moves(g, Cleared(m_conns[g]))
    /\ wire' = [wire EXCEPT ![g] = <<>>]
    /\ UNCHANGED <<LocalButConns, disk, members, requests, posted>>

CleansUp(g) ==
    /\ Thread(g, "closing")
    /\ Moves(g, Retry([m_conns[g] EXCEPT !.handle = FALSE, !.curl = FALSE]))
    /\ UNCHANGED <<LocalButConns, disk, server, bounds>>

Wakes(g) ==
    /\ Thread(g, "asleep")
    /\ Moves(g, Started(m_conns[g]))
    /\ UNCHANGED <<LocalButConns, disk, server, bounds>>

-----------------------------------------------------------------------------
(* Messages. *)

Posts(g, m) ==
    /\ posted' = [posted EXCEPT ![g] = @ \cup {m}]
    /\ wire' = IF Thread(g, "online") THEN [wire EXCEPT ![g] = Append(@, Frame("msg", {m}))] ELSE wire

PeerPosts(g, m) ==
    /\ m \notin posted[g]
    /\ Posts(g, m)
    /\ UNCHANGED <<local, disk, members, requests, bounds>>

\* sendMessage up to the unlock of m_mutex, and from the lock of curlMutex.
SendMessage(g, m) ==
    /\ Ready /\ m_conns[g].curl /\ m \notin posted[g]
    /\ ui' = [op |-> "send", group |-> g, message |-> m]
    /\ UNCHANGED <<m_conns, joins, shown, wantsOut, up, history, disk, server, bounds>>

Sends(g) ==
    /\ ui.op = "send" /\ ui.group = g
    /\ \/ m_conns[g].curl /\ Posts(g, ui.message) /\ UNCHANGED bounds
       \/ m_conns[g].curl /\ Fail /\ UNCHANGED <<posted, wire>>
       \/ ~m_conns[g].curl /\ UNCHANGED <<posted, wire, bounds>>
    /\ ui' = Idle
    /\ UNCHANGED <<m_conns, joins, shown, wantsOut, up, history, disk, members, requests>>

-----------------------------------------------------------------------------
(* The program ends and starts again. *)

\* What memory held is gone, and the detached threads with it.
OnlyInMemory ==
    {t \in Tokens : \E g \in Groups : /\ m_conns[g].token = t \/ (Active(t) /\ joins[t].group = g)
                                     /\ stored[g] # t}
Down ==
    /\ up' = FALSE
    /\ m_conns' = [g \in Groups |-> NoConn]
    /\ joins' = [t \in Tokens |-> IF Active(t) THEN [joins[t] EXCEPT !.at = "done"] ELSE joins[t]]
    /\ shown' = {} /\ wantsOut' = {} /\ Lost(OnlyInMemory) /\ UNCHANGED <<rejoined, leftEarly>>
    /\ ui' = Idle
    /\ wire' = [g \in Groups |-> <<>>]
    /\ UNCHANGED <<disk, members, requests, posted>>

Crash ==
    /\ up /\ MayFail /\ stops < MaxStops
    /\ stops' = stops + 1 /\ UNCHANGED fails
    /\ Down

StoppedByQuit(c) == [c EXCEPT !.stopRequested = c.wsThread # "none"]

\* The destructor stops every thread it finds and waits for them.
Quit ==
    /\ Ready /\ MayFail /\ stops < MaxStops
    /\ stops' = stops + 1 /\ UNCHANGED fails
    /\ m_conns' = [g \in Groups |-> StoppedByQuit(m_conns[g])]
    /\ ui' = [op |-> "quit", groups |-> {g \in Groups : Found(g)}]
    /\ UNCHANGED <<joins, shown, wantsOut, up, history, disk, server>>

Destroyed ==
    /\ ui.op = "quit"
    /\ \A g \in ui.groups : Joinable(m_conns[g]) => Returned(m_conns[g])
    /\ Down
    /\ UNCHANGED bounds

\* loadSavedGroups.  It passes over a row whose token or key cannot be had: one saved or
\* read without the key of the database, or damaged.
Start ==
    /\ ~up
    /\ up' = TRUE
    /\ \E readable \in SUBSET AllGroups :
          /\ m_conns' = [g \in Groups |-> IF g \in readable THEN Started(NewConn(stored[g])) ELSE NoConn]
          /\ shown' = readable
          /\ skipped' = AllGroups \ readable
          /\ IF readable = AllGroups THEN UNCHANGED dbFails ELSE DbFail
    /\ UNCHANGED <<joins, wantsOut, ui, history, stored, rows, unsaved, undeleted, missed, server,
                   bounds>>

-----------------------------------------------------------------------------

JoinStep(t) ==
    \/ ServerJoin(t) \/ SaveGroup(t) \/ OnGroupJoined(t) \/ JoinConnects(t) \/ JoinStarts(t)
LeaveStep(g) == LeaveJoined(g) \/ LeaveMessages(g) \/ LeaveDeleted(g)
WsStep(g) ==
    \/ Dials(g) \/ DialFails(g) \/ Dialled(g) \/ Receives(g) \/ Closes(g) \/ CleansUp(g) \/ Wakes(g)

Next ==
    \/ \E g \in Groups : JoinGroup(g) \/ ConnectGroup(g) \/ LeaveGroup(g)
    \/ \E t \in Tokens : JoinStep(t) \/ JoinFails(t)
    \/ \E g \in Groups : LeaveStep(g) \/ WsStep(g) \/ Sends(g)
    \/ \E g \in Groups, t \in Tokens : ServerLeave(g, t)
    \/ \E g \in Groups, m \in Messages : PeerPosts(g, m) \/ SendMessage(g, m)
    \/ Crash \/ Quit \/ Destroyed \/ Start

Spec == Init /\ [][Next]_vars

\* Every thread runs on: a dial ends within its timeout, a wait is finite, the
\* server answers.  The user need do nothing.
Fairness ==
    /\ \A t \in Tokens : WF_vars(JoinStep(t))
    /\ \A g \in Groups : WF_vars(LeaveStep(g)) /\ WF_vars(WsStep(g)) /\ WF_vars(Sends(g))
    /\ \A g \in Groups, t \in Tokens : WF_vars(ServerLeave(g, t))
    /\ WF_vars(Destroyed) /\ WF_vars(Start)

FairSpec == Spec /\ Fairness

-----------------------------------------------------------------------------
(* Properties. *)

\* Types of every variable.
TypeOK ==
    /\ m_conns \in [Groups -> Conn]
    /\ joins \in [Tokens -> Join \cup {Uncalled}]
    /\ stored \in [Groups -> Tokens \cup {NoToken}]
    /\ rows \in [Groups -> SUBSET Messages]
    /\ shown \subseteq Groups /\ wantsOut \subseteq Groups
    /\ unsaved \subseteq Groups /\ undeleted \subseteq Groups /\ skipped \subseteq Groups
    /\ missed \in [Groups -> SUBSET Messages]
    /\ rejoined \subseteq Groups /\ leftEarly \subseteq Groups
    /\ unknown \subseteq Tokens \cup {NoToken}
    /\ ui \in Calls
    /\ up \in BOOLEAN
    /\ members \in [Groups -> SUBSET Tokens]
    /\ requests \subseteq Groups \X (Tokens \cup {NoToken})
    /\ posted \in [Groups -> SUBSET Messages]
    /\ wire \in [Groups -> Seq(Frames)]
    /\ fails \in 0 .. MaxFaults /\ dbFails \in 0 .. MaxFaults /\ stops \in 0 .. MaxStops

\* Whoever finds curl set under curlMutex may use it: it has not been cleaned up
\* (sendMessage against the end of wsThreadFunc's loop).
HandleIsOpen == \A g \in Groups : m_conns[g].curl => m_conns[g].handle

\* Joined only when it was not, and left only when its join was complete.
Patient(g) == g \notin rejoined /\ g \notin leftEarly

\* leaveGroup leaves no message behind: the thread that saves them has ended before
\* deleteGroup, and none is saved for a group without a row, unless a statement about the
\* group failed.
RowsHaveGroup(g) == rows[g] # {} => stored[g] # NoToken \/ g \in unsaved \cup undeleted

\* Database, connections and screen agree, whatever was interrupted by a crash between any
\* two steps: messages have their group's row and, when no call about a group is under
\* way, the user is shown exactly the groups that have a Conn; one of them is not in the
\* database only if saveGroup failed, and a row is not shown only if it could not be
\* deleted or read.
ShownIsSaved ==
    \A g \in Groups :
        Patient(g) =>
            /\ RowsHaveGroup(g)
            /\ up /\ ~Joining(g) /\ ui = Idle =>
                  /\ g \in shown <=> Found(g)
                  /\ g \in shown => stored[g] # NoToken \/ g \in unsaved
                  /\ stored[g] # NoToken => g \in shown \cup undeleted \cup skipped

\* No membership is forgotten: the token the server counts as a member is the saved one, or
\* that of a join or a leave under way, or, where saveGroup failed, that of the Conn, unless
\* a message about it was lost or the only copy of the token was (unknown).
MembershipIsSaved ==
    \A g \in Groups : Patient(g) => \A t \in members[g] \ unknown :
        \/ stored[g] = t
        \/ g \in unsaved /\ Found(g) /\ m_conns[g].token = t
        \/ Active(t)
        \/ <<g, t>> \in requests

\* A group that is online and has nothing on its WebSocket has saved every message, also
\* those posted while it was not connected, but for those whose saving failed on this very
\* connection.
OnlineMissesNothing ==
    \A g \in Groups :
        Thread(g, "online") /\ wire[g] = <<>> /\ Patient(g) => posted[g] \subseteq rows[g] \cup missed[g]

\* leaveGroup ends and the group is gone, whatever its thread is doing ("leave the
\* group", groupmanager.h:46), if its join was complete.
LeaveLeaves ==
    \A g \in Groups : g \in wantsOut ~> (g \notin shown \/ g \notin wantsOut \/ g \in leftEarly)

\* A group shown as joined comes to be connected or is left ("HTTP join + WS",
\* groupmanager.h:43), unless its thread gave up, the program ended, or an older row with a
\* token that is no member's could not be deleted.
JoinedGoesOnline ==
    \A g \in Groups :
        g \in shown ~> \/ Thread(g, "online") \/ g \notin shown \/ g \in leftEarly
                       \/ fails > kMaxReconnAttempts \/ stops > 0 \/ g \in undeleted
=============================================================================
