------------------------------- MODULE Storage -------------------------------
(***************************************************************************)
(* StorageManager (src/src/storage/storage.cpp): contacts, messages and    *)
(* the block list in one SQLite database, behind one connection that the   *)
(* user's thread, the io_context's thread and the groups' threads share.   *)
(*                                                                         *)
(* SQLite runs one statement at a time and a statement that was run is     *)
(* saved; the manager uses no transactions, so that other threads, failing *)
(* statements and the end of the program come between the statements of a  *)
(* call.                                                                   *)
(***************************************************************************)
EXTENDS Integers, FiniteSets

CONSTANTS
    Peers,
    PageSize,    \* the limit given to getMessages
    MaxSaves,    \* bound: messages saved in all
    MaxGroupRows,\* bound: messages of groups saved in all
    MaxFailures, \* bound: statements that fail for want of space or of a lock
    MaxEnds      \* bound: ends of the program

ASSUME StorageAssumption ==
    /\ PageSize \in Nat \ {0}
    /\ MaxSaves \in Nat /\ MaxGroupRows \in Nat
    /\ MaxFailures \in Nat /\ MaxEnds \in Nat

Msgs == 1 .. MaxSaves  \* messages, in the order in which they are saved
Threads == {"ui", "io"}
Ids == 1 .. MaxSaves + MaxGroupRows
NoId == 0

VARIABLES
    contacts,  \* [Peers -> "absent", "normal" or "blocked"]: the rows of contacts
    blockList, \* the rows of blocked_list
    messages,  \* the rows of messages: id, message, peer, delivered; and, for the
               \* properties, whether the delivery of the message was confirmed
    sequence,  \* the last id AUTOINCREMENT gave out for messages
    groupRows, \* ... and for group_messages
    lastRow,   \* what sqlite3_last_insert_rowid would return
    doing,     \* [Threads -> what the thread has left to do in its call]
    idOf,      \* [Msgs -> the id saveMessage returned for it, as long as it is remembered]
    view,      \* a conversation the user scrolls through
    saves, failures, ends,
    (* What the user did, for the properties: *)
    refused,   \* the peers blocked and not unblocked since
    unlisted,  \* peers whose row of the block list could not be written
    crossed    \* did an insertion come before another had been told its id?

dbVars == <<contacts, blockList, messages, sequence, groupRows, lastRow>>
memVars == <<doing, idOf, view>>
ghostVars == <<refused, unlisted, crossed>>
vars == <<dbVars, memVars, saves, failures, ends, ghostVars>>

Idle == [op |-> "idle"]
Closed == [open |-> FALSE]

Init ==
    /\ contacts = [p \in Peers |-> "absent"]
    /\ blockList = {} /\ messages = {}
    /\ sequence = 0 /\ groupRows = 0 /\ lastRow = NoId
    /\ doing = [t \in Threads |-> Idle]
    /\ idOf = [m \in Msgs |-> NoId]
    /\ view = Closed
    /\ saves = 0 /\ failures = 0 /\ ends = 0
    /\ refused = {} /\ unlisted = {} /\ crossed = FALSE

Free(t) == doing[t] = Idle
Fails == failures < MaxFailures /\ failures' = failures + 1
Of(p) == {r \in messages : r.peer = p}

-----------------------------------------------------------------------------
(* Contacts, from the user's thread. *)

\* A row that exists keeps its is_blocked; a new one has it 0.
AddContact(p) ==
    /\ Free("ui")
    /\ contacts' = [contacts EXCEPT ![p] = IF @ = "absent" THEN "normal" ELSE @]
    /\ UNCHANGED <<blockList, messages, sequence, groupRows, lastRow, memVars, saves,
                   failures, ends, ghostVars>>

BlockContact(p, blocked) ==
    /\ Free("ui") /\ contacts[p] # "absent"
    /\ contacts' = [contacts EXCEPT ![p] = IF blocked THEN "blocked" ELSE "normal"]
    /\ refused' = IF blocked THEN refused \cup {p} ELSE refused \ {p}
    /\ UNCHANGED <<blockList, messages, sequence, groupRows, lastRow, memVars, saves,
                   failures, ends, unlisted, crossed>>

\* deleteContact in three statements.  What the first two return is not looked at.
ForgetBlock(p) == UNCHANGED <<blockList, failures, unlisted>>
PreserveBlock(p) ==
    \/ /\ contacts[p] = "blocked"
       /\ blockList' = blockList \cup {p}
       /\ UNCHANGED <<failures, unlisted>>
    \/ /\ contacts[p] = "blocked"
       /\ Fails /\ unlisted' = unlisted \cup {p}
       /\ UNCHANGED blockList
    \/ /\ contacts[p] # "blocked"
       /\ UNCHANGED <<blockList, failures, unlisted>>

DeleteContact(p) ==
    /\ Free("ui")
    /\ PreserveBlock(p)
    /\ doing' = [doing EXCEPT !["ui"] = [op |-> "messages", peer |-> p]]
    /\ UNCHANGED <<contacts, messages, sequence, groupRows, lastRow, idOf, view, saves, ends,
                   refused, crossed>>

DeleteMessages ==
    /\ doing["ui"].op = "messages"
    /\ LET p == doing["ui"].peer IN
       /\ \/ messages' = messages \ Of(p) /\ UNCHANGED failures
          \/ Of(p) # {} /\ Fails /\ UNCHANGED messages
       /\ doing' = [doing EXCEPT !["ui"] = [op |-> "contact", peer |-> p]]
    /\ UNCHANGED <<contacts, blockList, sequence, groupRows, lastRow, idOf, view, saves, ends,
                   ghostVars>>

\* The last statement fails if a message refers to the contact (FOREIGN KEY).
DeleteRow ==
    /\ doing["ui"].op = "contact"
    /\ LET p == doing["ui"].peer IN
       \/ /\ Of(p) = {}
          /\ contacts' = [contacts EXCEPT ![p] = "absent"]
          /\ UNCHANGED failures
       \/ Of(p) # {} /\ UNCHANGED <<contacts, failures>>
       \/ Fails /\ UNCHANGED contacts
    /\ doing' = [doing EXCEPT !["ui"] = Idle]
    /\ UNCHANGED <<blockList, messages, sequence, groupRows, lastRow, idOf, view, saves, ends,
                   ghostVars>>

ClearMessages(p) ==
    /\ Free("ui") /\ Of(p) # {}
    /\ messages' = messages \ Of(p)
    /\ UNCHANGED <<contacts, blockList, sequence, groupRows, lastRow, memVars, saves,
                   failures, ends, ghostVars>>

\* What the interface asks before it lets a stranger in (isUuidBlocked), or shows of a
\* contact (getContact).
IsUuidBlocked(p) == p \in blockList
IsBlocked(p) == contacts[p] = "blocked"

-----------------------------------------------------------------------------
(* Messages. *)

\* The id of a new row.  AUTOINCREMENT never gives out an id twice.
GreatestPlusOne ==
    CHOOSE i \in Ids :
        /\ \A r \in messages : r.id < i
        /\ i = 1 \/ \E r \in messages : r.id + 1 = i
NextId == sequence + 1

\* An insertion while a thread is between its own and sqlite3_last_insert_rowid.
Crossing == \E t \in Threads : doing[t].op = "id"

\* saveMessage: the user's thread saves what it sends, the io_context's what comes.
\* It fails for a peer that is no contact (FOREIGN KEY).
SaveMessage(t, p) ==
    /\ Free(t) /\ saves < MaxSaves /\ contacts[p] # "absent"
    /\ saves' = saves + 1
    /\ messages' = messages \cup {[id |-> NextId, msg |-> saves + 1, peer |-> p,
                                   delivered |-> FALSE, confirmed |-> FALSE]}
    /\ sequence' = NextId
    /\ lastRow' = NextId
    /\ doing' = [doing EXCEPT ![t] = [op |-> "id", msg |-> saves + 1]]
    /\ crossed' = (crossed \/ Crossing)
    /\ UNCHANGED <<contacts, blockList, groupRows, idOf, view, failures, ends, refused,
                   unlisted>>

\* The id is asked for afterwards, of the connection.
ReturnId(t) ==
    /\ doing[t].op = "id"
    /\ idOf' = [idOf EXCEPT ![doing[t].msg] = IF t = "ui" THEN lastRow ELSE NoId]
    /\ doing' = [doing EXCEPT ![t] = Idle]
    /\ UNCHANGED <<dbVars, view, saves, failures, ends, ghostVars>>

\* saveGroupMessage, on the thread of a group; nobody looks at the id it returns.
SaveGroupMessage ==
    /\ groupRows < MaxGroupRows
    /\ groupRows' = groupRows + 1
    /\ lastRow' = groupRows + 1
    /\ crossed' = (crossed \/ Crossing)
    /\ UNCHANGED <<contacts, blockList, messages, sequence, memVars, saves, failures, ends,
                   refused, unlisted>>

\* The delivery of a message is confirmed and its id is marked.
MarkDelivered(m) ==
    /\ Free("io") /\ idOf[m] # NoId
    /\ messages' = {[r EXCEPT !.delivered = @ \/ r.id = idOf[m],
                              !.confirmed = @ \/ r.msg = m] : r \in messages}
    /\ idOf' = [idOf EXCEPT ![m] = NoId]
    /\ UNCHANGED <<contacts, blockList, sequence, groupRows, lastRow, doing, view, saves,
                   failures, ends, ghostVars>>

-----------------------------------------------------------------------------
(* The user scrolls back through a conversation, page by page. *)

\* The rank of a row in ORDER BY id DESC, counted from 0.
NewestFirst(p, r) == Cardinality({s \in Of(p) : s.id > r.id})
UndeliveredFirst(p, r) ==
    Cardinality({s \in Of(p) : \/ ~s.delivered /\ r.delivered
                               \/ s.delivered = r.delivered /\ s.id > r.id})
Rank(p, r) == NewestFirst(p, r)

\* getMessages: LIMIT PageSize OFFSET offset.
GetMessages(p, offset) ==
    {r \in Of(p) : Rank(p, r) \in offset .. offset + PageSize - 1}

OpenView(p) ==
    /\ Free("ui") /\ view = Closed
    /\ view' = [open |-> TRUE, peer |-> p, offset |-> 0, end |-> FALSE,
                unseen |-> {r.msg : r \in Of(p)}]
    /\ UNCHANGED <<dbVars, doing, idOf, saves, failures, ends, ghostVars>>

\* The next page is the one after all that was loaded; a short page is the last.
NextPage ==
    /\ Free("ui") /\ view.open /\ ~view.end
    /\ LET page == GetMessages(view.peer, view.offset) IN
       view' = [view EXCEPT !.offset = @ + Cardinality(page),
                            !.unseen = @ \ {r.msg : r \in page},
                            !.end = Cardinality(page) < PageSize]
    /\ UNCHANGED <<dbVars, doing, idOf, saves, failures, ends, ghostVars>>

CloseView ==
    /\ Free("ui") /\ view.open
    /\ view' = Closed
    /\ UNCHANGED <<dbVars, doing, idOf, saves, failures, ends, ghostVars>>

-----------------------------------------------------------------------------

\* The program ends at any point and starts again: open() and migrate() find the rows of
\* the statements that were run, and nothing of what was in memory.
End ==
    /\ ends < MaxEnds
    /\ ends' = ends + 1
    /\ doing' = [t \in Threads |-> Idle]
    /\ idOf' = [m \in Msgs |-> NoId]
    /\ view' = Closed
    /\ lastRow' = NoId
    /\ UNCHANGED <<contacts, blockList, messages, sequence, groupRows, saves, failures,
                   ghostVars>>

Next ==
    \/ \E p \in Peers :
          \/ AddContact(p) \/ DeleteContact(p) \/ ClearMessages(p) \/ OpenView(p)
          \/ \E blocked \in BOOLEAN : BlockContact(p, blocked)
          \/ \E t \in Threads : SaveMessage(t, p)
    \/ DeleteMessages \/ DeleteRow
    \/ \E t \in Threads : ReturnId(t)
    \/ SaveGroupMessage
    \/ \E m \in Msgs : MarkDelivered(m)
    \/ NextPage \/ CloseView
    \/ End

Spec == Init /\ [][Next]_vars

-----------------------------------------------------------------------------
(* Properties. *)

\* The variables have their types.
TypeOK ==
    /\ contacts \in [Peers -> {"absent", "normal", "blocked"}]
    /\ blockList \in SUBSET Peers
    /\ messages \in SUBSET [id : Ids, msg : Msgs, peer : Peers, delivered : BOOLEAN,
                             confirmed : BOOLEAN]
    /\ sequence \in 0 .. MaxSaves /\ groupRows \in 0 .. MaxGroupRows
    /\ lastRow \in Ids \cup {NoId}
    /\ doing \in [Threads -> {Idle} \cup [op : {"messages", "contact"}, peer : Peers]
                             \cup [op : {"id"}, msg : Msgs]]
    /\ idOf \in [Msgs -> Ids \cup {NoId}]
    /\ view \in {Closed} \cup [open : {TRUE}, peer : Peers, offset : Nat, end : BOOLEAN,
                               unseen : SUBSET Msgs]
    /\ saves \in 0 .. MaxSaves /\ failures \in 0 .. MaxFailures /\ ends \in 0 .. MaxEnds
    /\ refused \in SUBSET Peers /\ unlisted \in SUBSET Peers /\ crossed \in BOOLEAN

\* Who was blocked stays so until unblocked, though the contact is deleted, added again, or
\* the deletion stops halfway, fails, or crosses a message of that peer.  (If the row of the
\* block list cannot be written the contact is deleted all the same, and the block is gone.)
BlockedStaysBlocked ==
    \A p \in refused \ unlisted : IsBlocked(p) \/ IsUuidBlocked(p)

\* No message is shown as delivered that was not, though the confirmation may come long
\* after the message, or the whole conversation, was deleted and others were saved.  (Not
\* so for a message whose id was asked for after another insertion.)
DeliveredWasConfirmed ==
    \A r \in messages : r.delivered => r.confirmed \/ crossed

\* Who scrolls to the end of a conversation has seen every message in it that was there
\* when the scrolling began, whatever came, was sent or was marked meanwhile.
PagingMissesNothing ==
    view.open /\ view.end =>
        \A r \in Of(view.peer) : r.msg \notin view.unseen

=============================================================================
