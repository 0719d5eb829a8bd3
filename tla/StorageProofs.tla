---------------------------- MODULE StorageProofs ----------------------------
(* Theorems about Storage, for every set of peers and every bound: who is       *)
(* blocked stays so, what is marked as delivered was delivered, who scrolls     *)
(* through a conversation sees all of it, and the types.                        *)
EXTENDS Storage, FiniteSetTheorems, TLAPS

-----------------------------------------------------------------------------
(* The block list. *)

\* What a deletion that has passed its first statement relies on.
DeletionListed ==
    doing["ui"].op \in {"messages", "contact"} =>
        (doing["ui"].peer \in refused \ unlisted => doing["ui"].peer \in blockList)

\* The rows and the states that the argument reads.
BlockTypes ==
    /\ contacts \in [Peers -> {"absent", "normal", "blocked"}]
    /\ refused \subseteq Peers
    /\ DOMAIN doing = Threads
    /\ doing["ui"].op \in {"messages", "contact"} => doing["ui"].peer \in Peers

BlockInv == BlockTypes /\ DeletionListed /\ BlockedStaysBlocked

LEMMA BlockInit == Init => BlockInv
BY DEF Init, BlockInv, BlockTypes, DeletionListed, BlockedStaysBlocked, Idle, Threads

LEMMA BlockNext ==
    ASSUME BlockInv, [Next]_vars
    PROVE  BlockInv'
<1> USE DEF BlockInv, BlockTypes, DeletionListed, BlockedStaysBlocked, IsBlocked,
            IsUuidBlocked, Threads
<1>1. ASSUME NEW p \in Peers, AddContact(p) PROVE BlockInv'
  BY <1>1 DEF AddContact, Free, Idle, memVars, ghostVars
<1>2. ASSUME NEW p \in Peers, NEW blocked \in BOOLEAN, BlockContact(p, blocked)
      PROVE  BlockInv'
  BY <1>2 DEF BlockContact, Free, Idle, memVars
<1>3. ASSUME NEW p \in Peers, DeleteContact(p) PROVE BlockInv'
  BY <1>3 DEF DeleteContact, PreserveBlock, Fails, Free, Idle
<1>4. CASE DeleteMessages
  BY <1>4 DEF DeleteMessages, Fails, ghostVars
<1>5. CASE DeleteRow
  <2> DEFINE p == doing["ui"].peer
  <2>1. /\ p \in Peers
        /\ contacts' = [contacts EXCEPT ![p] = "absent"] \/ contacts' = contacts
        /\ doing' = [doing EXCEPT !["ui"] = Idle]
        /\ UNCHANGED <<blockList, refused, unlisted>>
        /\ p \in refused \ unlisted => p \in blockList
    BY <1>5 DEF DeleteRow, ghostVars
  <2>2. BlockTypes' /\ DeletionListed'
    BY <2>1 DEF Idle
  <2>3. BlockedStaysBlocked'
    BY <2>1
  <2> QED
    BY <2>2, <2>3
<1>6. ASSUME NEW p \in Peers, ClearMessages(p) PROVE BlockInv'
  BY <1>6 DEF ClearMessages, memVars, ghostVars
<1>7. ASSUME NEW p \in Peers, NEW t \in Threads, SaveMessage(t, p) PROVE BlockInv'
  BY <1>7 DEF SaveMessage, Free, Idle
<1>8. ASSUME NEW t \in Threads, ReturnId(t) PROVE BlockInv'
  BY <1>8 DEF ReturnId, dbVars, ghostVars, Idle
<1>9. CASE SaveGroupMessage
  BY <1>9 DEF SaveGroupMessage, memVars
<1>10. ASSUME NEW m \in Msgs, MarkDelivered(m) PROVE BlockInv'
  BY <1>10 DEF MarkDelivered, ghostVars
<1>11. ASSUME NEW p \in Peers, OpenView(p) PROVE BlockInv'
  BY <1>11 DEF OpenView, dbVars, ghostVars
<1>12. CASE NextPage \/ CloseView
  BY <1>12 DEF NextPage, CloseView, dbVars, ghostVars
<1>13. CASE End
  BY <1>13 DEF End, ghostVars, Idle
<1>14. CASE UNCHANGED vars
  BY <1>14 DEF vars, dbVars, memVars, ghostVars
<1> QED
  BY <1>1, <1>2, <1>3, <1>4, <1>5, <1>6, <1>7, <1>8, <1>9, <1>10, <1>11, <1>12, <1>13, <1>14
     DEF Next

\* Who was blocked stays so until unblocked, through deletions that stop halfway, fail or
\* cross a message, and through any number of ends of the program.
THEOREM BlockKept == Spec => []BlockedStaysBlocked
<1>1. BlockInv => BlockedStaysBlocked
  BY DEF BlockInv
<1> QED
  BY BlockInit, BlockNext, <1>1, PTL DEF Spec

-----------------------------------------------------------------------------
(* The marks. *)

\* The types the marks depend on.
IdTypes ==
    /\ \A r \in messages : r \in [id : Nat \ {0}, msg : Nat, peer : Peers,
                                  delivered : BOOLEAN, confirmed : BOOLEAN]
    /\ sequence \in Nat /\ saves \in Nat
    /\ DOMAIN doing = Threads
    /\ \A t \in Threads : doing[t].op = "id" => doing[t].msg \in 1 .. saves
    /\ idOf \in [Msgs -> Nat]
    /\ crossed \in BOOLEAN

\* Rows have ids and messages of their own, none of the future.
RowsAreDistinct ==
    /\ \A r \in messages : r.id <= sequence /\ r.msg <= saves
    /\ \A r, s \in messages : r.id = s.id => r.msg = s.msg

\* What is to be read, and what was read, is the id of the message it was read for, or of
\* a row that is gone.
IdsAreOwn ==
    /\ \A t \in Threads : doing[t].op = "id" =>
          /\ lastRow <= sequence /\ lastRow # NoId
          /\ \A r \in messages : r.id = lastRow => r.msg = doing[t].msg
    /\ \A t, u \in Threads : doing[t].op = "id" /\ doing[u].op = "id" => t = u
    /\ \A m \in Msgs : idOf[m] <= sequence
    /\ \A m \in Msgs : \A r \in messages : idOf[m] = r.id => r.msg = m

MarkInv ==
    /\ IdTypes /\ RowsAreDistinct
    /\ ~crossed => IdsAreOwn /\ \A r \in messages : r.delivered => r.confirmed

LEMMA MarkInit == Init => MarkInv
<1> SUFFICES ASSUME Init PROVE MarkInv
  OBVIOUS
<1>1. \A t \in Threads : doing[t].op # "id"
  BY DEF Init, Idle
<1>2. /\ messages = {} /\ sequence = 0 /\ saves = 0 /\ idOf = [m \in Msgs |-> 0]
      /\ DOMAIN doing = Threads /\ crossed = FALSE
  BY DEF Init, NoId
<1>3. IdTypes
  BY <1>1, <1>2 DEF IdTypes
<1>4. RowsAreDistinct
  BY <1>2 DEF RowsAreDistinct
<1>5. IdsAreOwn
  BY <1>1, <1>2 DEF IdsAreOwn
<1> QED
  BY <1>2, <1>3, <1>4, <1>5 DEF MarkInv

LEMMA SaveMessageMarks ==
    ASSUME MarkInv, NEW t \in Threads, NEW p \in Peers, SaveMessage(t, p)
    PROVE  MarkInv'
<1> DEFINE new == [id |-> sequence + 1, msg |-> saves + 1, peer |-> p,
                   delivered |-> FALSE, confirmed |-> FALSE]
<1>1. /\ messages' = messages \cup {new}
      /\ sequence' = sequence + 1 /\ saves' = saves + 1 /\ lastRow' = sequence + 1
      /\ doing' = [doing EXCEPT ![t] = [op |-> "id", msg |-> saves + 1]]
      /\ crossed' = (crossed \/ Crossing)
      /\ UNCHANGED idOf /\ doing[t] = Idle
  BY DEF SaveMessage, NextId, Free
<1>2. IdTypes'
  <2>1. new \in [id : Nat \ {0}, msg : Nat, peer : Peers,
                 delivered : BOOLEAN, confirmed : BOOLEAN]
    BY DEF MarkInv, IdTypes
  <2>2. \A u \in Threads : doing'[u].op = "id" => doing'[u].msg \in 1 .. saves'
    <3> TAKE u \in Threads
    <3>1. CASE u = t
      BY <1>1, <3>1 DEF MarkInv, IdTypes
    <3>2. CASE u # t
      BY <1>1, <3>2 DEF MarkInv, IdTypes
    <3> QED
      BY <3>1, <3>2
  <2>3. DOMAIN doing' = Threads /\ crossed' \in BOOLEAN
    BY <1>1 DEF MarkInv, IdTypes, Crossing
  <2> QED
    BY <1>1, <2>1, <2>2, <2>3 DEF MarkInv, IdTypes
<1>3. RowsAreDistinct'
  BY <1>1 DEF MarkInv, RowsAreDistinct, IdTypes
<1>4. ASSUME ~crossed'
      PROVE  IdsAreOwn' /\ \A r \in messages' : r.delivered => r.confirmed
  <2>1. /\ ~crossed
        /\ \A u \in Threads : doing[u].op # "id"
        /\ IdsAreOwn /\ \A r \in messages : r.delivered => r.confirmed
    BY <1>1, <1>4 DEF MarkInv, Crossing, IdTypes
  <2>2. \A u \in Threads : doing'[u].op = "id" => u = t /\ doing'[u].msg = saves + 1
    BY <1>1, <2>1 DEF MarkInv, IdTypes
  <2>3. \A r \in messages' : r.id = sequence + 1 => r.msg = saves + 1
    BY <1>1 DEF MarkInv, IdTypes, RowsAreDistinct
  <2>4. \A m \in Msgs : idOf[m] <= sequence /\ idOf[m] \in Nat
    BY <2>1 DEF IdsAreOwn, MarkInv, IdTypes
  <2>5. \A m \in Msgs : \A r \in messages' : idOf[m] = r.id => r.msg = m
    BY <1>1, <2>1, <2>4 DEF IdsAreOwn, MarkInv, IdTypes
  <2> QED
    BY <1>1, <2>1, <2>2, <2>3, <2>4, <2>5 DEF IdsAreOwn, MarkInv, IdTypes, NoId
<1> QED
  BY <1>2, <1>3, <1>4 DEF MarkInv

LEMMA ReturnIdMarks ==
    ASSUME MarkInv, lastRow \in Nat, NEW t \in Threads, ReturnId(t)
    PROVE  MarkInv'
<1>1. /\ doing[t].op = "id"
      /\ idOf' = [idOf EXCEPT ![doing[t].msg] = IF t = "ui" THEN lastRow ELSE NoId]
      /\ doing' = [doing EXCEPT ![t] = Idle]
      /\ UNCHANGED <<messages, sequence, saves, lastRow, crossed>>
  BY DEF ReturnId, dbVars, ghostVars
<1>2. IdTypes'
  BY <1>1 DEF MarkInv, IdTypes, Idle, NoId
<1>3. RowsAreDistinct'
  BY <1>1 DEF MarkInv, RowsAreDistinct
<1>4. ASSUME ~crossed
      PROVE  IdsAreOwn'
  <2>1. IdsAreOwn
    BY <1>4 DEF MarkInv
  <2>2. \A u \in Threads : doing'[u].op # "id"
    BY <1>1, <2>1 DEF IdsAreOwn, Idle, MarkInv, IdTypes
  <2>3. \A m \in Msgs : idOf'[m] = idOf[m] \/ idOf'[m] = NoId
                       \/ (m = doing[t].msg /\ idOf'[m] = lastRow)
    BY <1>1 DEF MarkInv, IdTypes
  <2>4. \A m \in Msgs : idOf'[m] <= sequence
    BY <1>1, <2>1, <2>3 DEF IdsAreOwn, MarkInv, IdTypes, NoId
  <2>5. \A m \in Msgs : \A r \in messages : idOf'[m] = r.id => r.msg = m
    BY <1>1, <2>1, <2>3 DEF IdsAreOwn, MarkInv, IdTypes, NoId
  <2> QED
    BY <1>1, <2>2, <2>4, <2>5 DEF IdsAreOwn
<1> QED
  BY <1>1, <1>2, <1>3, <1>4 DEF MarkInv

LEMMA MarkDeliveredMarks ==
    ASSUME MarkInv, NEW m \in Msgs, MarkDelivered(m)
    PROVE  MarkInv'
<1> DEFINE Marked(r) == [r EXCEPT !.delivered = @ \/ r.id = idOf[m],
                                  !.confirmed = @ \/ r.msg = m]
<1>1. /\ messages' = {Marked(r) : r \in messages}
      /\ idOf[m] # NoId
      /\ idOf' = [idOf EXCEPT ![m] = NoId]
      /\ UNCHANGED <<sequence, saves, lastRow, doing, crossed>>
  BY DEF MarkDelivered, ghostVars
<1>2. \A r \in messages :
         /\ Marked(r).id = r.id /\ Marked(r).msg = r.msg /\ Marked(r).peer = r.peer
         /\ Marked(r).delivered = (r.delivered \/ r.id = idOf[m])
         /\ Marked(r).confirmed = (r.confirmed \/ r.msg = m)
         /\ Marked(r) \in [id : Nat \ {0}, msg : Nat, peer : Peers,
                            delivered : BOOLEAN, confirmed : BOOLEAN]
  BY DEF MarkInv, IdTypes
<1> HIDE DEF Marked
<1>3. \A q \in messages' : \E r \in messages :
         /\ q.id = r.id /\ q.msg = r.msg
         /\ q.delivered = (r.delivered \/ r.id = idOf[m])
         /\ q.confirmed = (r.confirmed \/ r.msg = m)
         /\ q \in [id : Nat \ {0}, msg : Nat, peer : Peers,
                   delivered : BOOLEAN, confirmed : BOOLEAN]
  BY <1>1, <1>2, Zenon
<1>4. IdTypes'
  BY <1>1, <1>3 DEF MarkInv, IdTypes, NoId
<1>5. RowsAreDistinct'
  BY <1>1, <1>3 DEF MarkInv, RowsAreDistinct
<1>6. ASSUME ~crossed
      PROVE  IdsAreOwn'
  BY <1>1, <1>3, <1>6 DEF MarkInv, IdsAreOwn, IdTypes, NoId
<1>7. ASSUME ~crossed
      PROVE  \A q \in messages' : q.delivered => q.confirmed
  BY <1>3, <1>7 DEF MarkInv, IdsAreOwn
<1> QED
  BY <1>1, <1>4, <1>5, <1>6, <1>7 DEF MarkInv

\* The id of the last insertion is a number.
RowNumbers == lastRow \in Nat /\ groupRows \in Nat /\ sequence \in Nat

LEMMA RowNumbersNext ==
    ASSUME RowNumbers, [Next]_vars
    PROVE  RowNumbers'
<1>1. \/ UNCHANGED <<sequence, groupRows, lastRow>>
      \/ sequence' = sequence + 1 /\ lastRow' = sequence + 1 /\ UNCHANGED groupRows
      \/ groupRows' = groupRows + 1 /\ lastRow' = groupRows + 1 /\ UNCHANGED sequence
      \/ lastRow' = 0 /\ UNCHANGED <<sequence, groupRows>>
  BY Zenon DEF Next, vars, dbVars, NextId, NoId, AddContact, BlockContact, DeleteContact,
         DeleteMessages, DeleteRow, ClearMessages, SaveMessage, ReturnId, SaveGroupMessage,
         MarkDelivered, OpenView, NextPage, CloseView, End
<1> QED
  BY <1>1 DEF RowNumbers

LEMMA MarkNext ==
    ASSUME MarkInv, RowNumbers, [Next]_vars
    PROVE  MarkInv'
<1>1. ASSUME messages' \subseteq messages,
             DOMAIN doing' = Threads,
             \A t \in Threads : doing'[t].op = "id" => doing[t].op = "id" /\ doing'[t] = doing[t],
             UNCHANGED <<sequence, saves, lastRow, idOf, crossed>>
      PROVE  MarkInv'
  <2>1. IdTypes'
    BY <1>1 DEF MarkInv, IdTypes
  <2>2. RowsAreDistinct'
    BY <1>1 DEF MarkInv, RowsAreDistinct
  <2>3. ASSUME ~crossed PROVE IdsAreOwn'
    BY <1>1, <2>3 DEF MarkInv, IdsAreOwn
  <2> QED
    BY <1>1, <2>1, <2>2, <2>3 DEF MarkInv
<1>2. ASSUME NEW p \in Peers,
             \/ AddContact(p) \/ ClearMessages(p) \/ OpenView(p)
             \/ \E blocked \in BOOLEAN : BlockContact(p, blocked)
      PROVE  MarkInv'
  BY <1>1, <1>2 DEF MarkInv, IdTypes, AddContact, ClearMessages, OpenView, BlockContact, dbVars, memVars,
                    ghostVars
<1>3. ASSUME NEW p \in Peers, DeleteContact(p) PROVE MarkInv'
  <2>1. /\ doing' = [doing EXCEPT !["ui"] = [op |-> "messages", peer |-> p]]
        /\ UNCHANGED <<messages, sequence, saves, lastRow, idOf, crossed>>
    BY <1>3 DEF DeleteContact
  <2> QED
    BY <1>1, <2>1 DEF MarkInv, IdTypes, Threads
<1>4. CASE DeleteMessages
  <2>1. /\ doing' = [doing EXCEPT !["ui"] = [op |-> "contact", peer |-> doing["ui"].peer]]
        /\ messages' \subseteq messages
        /\ UNCHANGED <<sequence, saves, lastRow, idOf, crossed>>
    BY <1>4 DEF DeleteMessages, ghostVars
  <2> QED
    BY <1>1, <2>1 DEF MarkInv, IdTypes, Threads
<1>5. CASE DeleteRow
  <2>1. /\ doing' = [doing EXCEPT !["ui"] = Idle]
        /\ UNCHANGED <<messages, sequence, saves, lastRow, idOf, crossed>>
    BY <1>5 DEF DeleteRow, ghostVars
  <2> QED
    BY <1>1, <2>1 DEF Idle, MarkInv, IdTypes, Threads
<1>6. ASSUME NEW p \in Peers, NEW t \in Threads, SaveMessage(t, p) PROVE MarkInv'
  BY <1>6, SaveMessageMarks
<1>7. ASSUME NEW t \in Threads, ReturnId(t) PROVE MarkInv'
  BY <1>7, ReturnIdMarks DEF RowNumbers
<1>8. CASE SaveGroupMessage
  <2>1. /\ crossed' = (crossed \/ Crossing)
        /\ UNCHANGED <<messages, sequence, saves, doing, idOf>>
    BY <1>8 DEF SaveGroupMessage, memVars
  <2>2. ~crossed' => \A t \in Threads : doing[t].op # "id"
    BY <2>1 DEF Crossing
  <2> QED
    BY <2>1, <2>2 DEF MarkInv, IdTypes, RowsAreDistinct, IdsAreOwn, Crossing
<1>9. ASSUME NEW m \in Msgs, MarkDelivered(m) PROVE MarkInv'
  BY <1>9, MarkDeliveredMarks
<1>10. CASE NextPage \/ CloseView
  BY <1>1, <1>10 DEF MarkInv, IdTypes, NextPage, CloseView, dbVars, ghostVars
<1>11. CASE End
  <2>1. /\ doing' = [t \in Threads |-> Idle] /\ idOf' = [m \in Msgs |-> NoId]
        /\ UNCHANGED <<messages, sequence, saves, crossed>>
    BY <1>11 DEF End, ghostVars
  <2> QED
    BY <2>1 DEF MarkInv, IdTypes, RowsAreDistinct, IdsAreOwn, Idle, NoId
<1>12. CASE UNCHANGED vars
  BY <1>1, <1>12 DEF MarkInv, IdTypes, vars, dbVars, memVars, ghostVars
<1> QED
  BY <1>2, <1>3, <1>4, <1>5, <1>6, <1>7, <1>8, <1>9, <1>10, <1>11, <1>12 DEF Next

\* What is shown as delivered was delivered, as long as no id was asked for after another
\* insertion: ids are never given out twice, and none is remembered for two messages.
THEOREM MarksAreTrue == Spec => []DeliveredWasConfirmed
<1>1. Init => RowNumbers
  BY DEF Init, RowNumbers, NoId
<1>2. MarkInv => DeliveredWasConfirmed
  BY DEF MarkInv, DeliveredWasConfirmed
<1> QED
  BY MarkInit, MarkNext, RowNumbersNext, <1>1, <1>2, PTL DEF Spec

-----------------------------------------------------------------------------
(* The pages of a conversation.  Rows are ranked by their ids, without gaps, so *)
(* that a page that is not the last is full.                                    *)

Above(S, r) == {s \in S : s.id > r.id}

\* S is a finite set of rows with ids of their own.
Numbered(S) ==
    /\ IsFiniteSet(S)
    /\ \A r \in S : r.id \in Nat
    /\ \A r, s \in S : r.id = s.id => r = s

\* What the user has not seen yet comes after what was loaded.
RestIsAhead ==
    view.open =>
        \A r \in Of(view.peer) : r.msg \in view.unseen =>
            /\ Rank(view.peer, r) >= view.offset
            /\ ~view.end

ViewTrue ==
    \/ view = Closed
    \/ /\ view \in [open : {TRUE}, peer : Peers, offset : Nat, end : BOOLEAN,
                     unseen : SUBSET Nat]
       /\ \A m \in view.unseen : m <= saves

PageInv == Numbered(messages) /\ ViewTrue /\ RestIsAhead

\* Ranks count the rows above, so that they are the numbers below the size of the set.
LEMMA RanksFill ==
    ASSUME NEW S, Numbered(S), NEW f, f = [r \in S |-> Cardinality(Above(S, r))]
    PROVE  /\ Cardinality(S) \in Nat
           /\ f \in Injection(S, 0 .. Cardinality(S) - 1)
           /\ f \in Surjection(S, 0 .. Cardinality(S) - 1)
<1> DEFINE n == Cardinality(S)
<1>1. n \in Nat
  BY FS_CardinalityType DEF Numbered
<1>2. \A r \in S : /\ IsFiniteSet(Above(S, r))
                   /\ Cardinality(Above(S, r)) \in Nat
                   /\ Cardinality(Above(S, r)) < n
  <2> TAKE r \in S
  <2>1. Above(S, r) \in SUBSET S /\ Above(S, r) # S
    BY DEF Above, Numbered
  <2>2. IsFiniteSet(Above(S, r)) /\ Cardinality(Above(S, r)) <= n /\ Cardinality(Above(S, r)) # n
    BY <2>1, FS_Subset DEF Numbered
  <2>3. Cardinality(Above(S, r)) \in Nat
    BY <2>2, FS_CardinalityType
  <2> QED
    BY <2>2, <2>3, <1>1
<1>3. \A r, s \in S : r.id < s.id => Cardinality(Above(S, s)) < Cardinality(Above(S, r))
  <2> SUFFICES ASSUME NEW r \in S, NEW s \in S, r.id < s.id
               PROVE  Cardinality(Above(S, s)) < Cardinality(Above(S, r))
    OBVIOUS
  <2>1. /\ Above(S, s) \in SUBSET Above(S, r)
        /\ Above(S, s) # Above(S, r)
    BY DEF Above, Numbered
  <2>2. /\ Cardinality(Above(S, s)) <= Cardinality(Above(S, r))
        /\ Cardinality(Above(S, s)) # Cardinality(Above(S, r))
    BY <2>1, <1>2, FS_Subset
  <2> QED
    BY <1>2, <2>2
<1>4. f \in [S -> 0 .. n - 1]
  BY <1>1, <1>2
<1>5. \A r, s \in S : f[r] = f[s] => r = s
  <2> SUFFICES ASSUME NEW r \in S, NEW s \in S, f[r] = f[s], r # s
               PROVE  FALSE
    OBVIOUS
  <2>1. r.id < s.id \/ s.id < r.id
    BY DEF Numbered
  <2> QED
    BY <1>2, <1>3, <2>1
<1>6. f \in Injection(S, 0 .. n - 1)
  BY <1>4, <1>5 DEF Injection, IsInjective
<1>7. IsFiniteSet(0 .. n - 1) /\ Cardinality(0 .. n - 1) = n
  BY <1>1, FS_Interval
<1>8. f \in Surjection(S, 0 .. n - 1)
  BY <1>6, <1>7, FS_Injection
<1> QED
  BY <1>1, <1>6, <1>8

\* A page has no more rows than its size, and if a row is beyond it no fewer.
LEMMA PageIsFull ==
    ASSUME NEW S, Numbered(S), NEW a \in Nat, NEW size \in Nat \ {0},
           NEW page, page = {r \in S : Cardinality(Above(S, r)) \in a .. a + size - 1}
    PROVE  /\ Cardinality(page) \in Nat /\ Cardinality(page) <= size
           /\ \A r \in S : Cardinality(Above(S, r)) \in Nat
           /\ \A r \in S : Cardinality(Above(S, r)) >= a + size => Cardinality(page) = size
<1>1. PICK f : f = [r \in S |-> Cardinality(Above(S, r))]
  OBVIOUS
<1>2. PICK n \in Nat : /\ n = Cardinality(S)
                       /\ f \in Injection(S, 0 .. n - 1)
                       /\ f \in Surjection(S, 0 .. n - 1)
  BY <1>1, RanksFill
<1>3. \A r \in S : f[r] = Cardinality(Above(S, r)) /\ f[r] \in 0 .. n - 1
  BY <1>1, <1>2 DEF Injection, IsInjective
<1>4. PICK g : g = [r \in page |-> f[r]]
  OBVIOUS
<1>5. g \in Injection(page, a .. a + size - 1)
  <2>1. \A r \in page : r \in S /\ g[r] = f[r] /\ g[r] \in a .. a + size - 1
    BY <1>3, <1>4
  <2>2. g \in [page -> a .. a + size - 1]
    BY <1>4, <2>1
  <2>3. \A r, s \in page : g[r] = g[s] => r = s
    BY <1>2, <2>1 DEF Injection, IsInjective
  <2> QED
    BY <2>2, <2>3 DEF Injection, IsInjective
<1>6. IsFiniteSet(a .. a + size - 1) /\ Cardinality(a .. a + size - 1) = size
  BY FS_Interval
<1>7. /\ IsFiniteSet(page)
      /\ Cardinality(page) <= size
      /\ Cardinality(page) = size <=> g \in Surjection(page, a .. a + size - 1)
  BY <1>5, <1>6, FS_Injection
<1>8. ASSUME NEW r \in S, Cardinality(Above(S, r)) >= a + size
      PROVE  g \in Surjection(page, a .. a + size - 1)
  <2>1. a + size <= n - 1
    BY <1>3, <1>8
  <2>2. ASSUME NEW k \in a .. a + size - 1
        PROVE  \E s \in page : g[s] = k
    <3>1. k \in 0 .. n - 1
      BY <2>1
    <3>2. PICK s \in S : f[s] = k
      BY <1>2, <3>1 DEF Surjection
    <3>3. s \in page
      BY <1>3, <3>2
    <3> QED
      BY <1>4, <3>2, <3>3
  <2> QED
    BY <1>5, <2>2 DEF Injection, IsInjective, Surjection
<1> QED
  <2>1. Cardinality(page) \in Nat /\ Cardinality(page) <= size
    BY <1>7, FS_CardinalityType
  <2>2. \A r \in S : Cardinality(Above(S, r)) \in Nat
    BY <1>3
  <2> QED
    BY <1>7, <1>8, <2>1, <2>2

LEMMA OfNumbered ==
    ASSUME NEW p, Numbered(messages)
    PROVE  /\ Numbered(Of(p))
           /\ \A r \in Of(p) : Rank(p, r) = Cardinality(Above(Of(p), r))
<1>1. Of(p) \in SUBSET messages
  BY DEF Of
<1>2. IsFiniteSet(Of(p))
  BY <1>1, FS_Subset DEF Numbered
<1> QED
  BY <1>1, <1>2 DEF Numbered, Rank, NewestFirst, Above

\* Rows that come are of new messages, and rows go with all of their peer's: then none that
\* the user has not seen moves to where the loading has been.
LEMMA RowsStayAhead ==
    ASSUME PageInv, Numbered(messages'), saves \in Nat, saves' \in Nat, saves <= saves',
           UNCHANGED view,
           \A q \in messages' : q.msg <= saves =>
               /\ \E r \in messages : r.id = q.id /\ r.msg = q.msg /\ r.peer = q.peer
               /\ \A s \in messages : s.peer = q.peer =>
                     \E t \in messages' : t.id = s.id /\ t.peer = s.peer
    PROVE  PageInv'
<1>1. CASE view = Closed
  BY <1>1 DEF PageInv, ViewTrue, RestIsAhead, Closed
<1>2. ASSUME view # Closed
      PROVE  ViewTrue' /\ RestIsAhead'
  <2> DEFINE p == view.peer
  <2>1. /\ view \in [open : {TRUE}, peer : Peers, offset : Nat, end : BOOLEAN,
                     unseen : SUBSET Nat]
        /\ \A m \in view.unseen : m <= saves
    BY <1>2 DEF PageInv, ViewTrue
  <2>2. ViewTrue'
    <3>1. \A m \in view.unseen : m <= saves'
      BY <2>1
    <3> QED
      BY <2>1, <3>1 DEF ViewTrue
  <2>3. ASSUME NEW q \in Of(p)', q.msg \in view.unseen
        PROVE  Rank(p, q)' >= view.offset /\ ~view.end
    <3>1. q \in messages' /\ q.peer = p /\ q.msg <= saves
      BY <2>1, <2>3 DEF Of
    <3>2. PICK r \in messages : r.id = q.id /\ r.msg = q.msg /\ r.peer = q.peer
      BY <3>1
    <3>3. r \in Of(p) /\ Rank(p, r) >= view.offset /\ ~view.end
      BY <2>1, <2>3, <3>1, <3>2 DEF Of, PageInv, RestIsAhead
    <3> DEFINE A == Above(Of(p), r)
               B == {t \in Of(p)' : t.id > q.id}
    <3>4. \A s \in A : \E t \in B : t.id = s.id
      BY <3>1, <3>2 DEF Above, Of
    <3>5. PICK h : h = [s \in A |-> CHOOSE t \in B : t.id = s.id]
      OBVIOUS
    <3>6. \A s \in A : h[s] \in B /\ h[s].id = s.id
      BY <3>4, <3>5
    <3>7. h \in Injection(A, B)
      <4>1. \A s, t \in A : s.id = t.id => s = t
        BY DEF Above, Of, PageInv, Numbered
      <4>2. h \in [A -> B]
        BY <3>5, <3>6
      <4>3. \A s, t \in A : h[s] = h[t] => s = t
        BY <3>6, <4>1
      <4> QED
        BY <4>2, <4>3 DEF Injection, IsInjective
    <3>8. IsFiniteSet(B)
      <4>1. B \in SUBSET messages' /\ IsFiniteSet(messages')
        BY DEF Of, Numbered
      <4> QED
        BY <4>1, FS_Subset
    <3>9. /\ Cardinality(A) <= Cardinality(B)
          /\ Cardinality(A) \in Nat /\ Cardinality(B) \in Nat
      BY <3>7, <3>8, FS_Injection, FS_CardinalityType
    <3>10. Rank(p, r) = Cardinality(A) /\ Rank(p, q)' = Cardinality(B)
      BY DEF Rank, NewestFirst, Above
    <3> QED
      BY <2>1, <3>3, <3>9, <3>10
  <2>4. RestIsAhead'
    BY <2>3 DEF RestIsAhead
  <2> QED
    BY <2>2, <2>4
<1> QED
  BY <1>1, <1>2 DEF PageInv

\* Rows that are not touched.
LEMMA RowsUntouched ==
    ASSUME PageInv, UNCHANGED <<messages, saves, view>>
    PROVE  PageInv'
BY DEF PageInv, Numbered, ViewTrue, RestIsAhead, Of, Rank, NewestFirst

\* The rows of one peer go.
LEMMA ClearKeepsAhead ==
    ASSUME PageInv, saves \in Nat, UNCHANGED <<saves, view>>,
           NEW p, messages' = messages \ Of(p)
    PROVE  PageInv'
<1>1. messages' \in SUBSET messages /\ IsFiniteSet(messages')
  BY FS_Subset DEF PageInv, Numbered
<1>2. Numbered(messages')
  BY <1>1 DEF PageInv, Numbered
<1>3. \A q \in messages' : \A s \in messages : s.peer = q.peer => s \in messages'
  BY DEF Of
<1> QED
  BY <1>1, <1>2, <1>3, RowsStayAhead

LEMMA SaveMessageAhead ==
    ASSUME PageInv, MarkInv, NEW t \in Threads, NEW p \in Peers, SaveMessage(t, p)
    PROVE  PageInv'
<1> DEFINE new == [id |-> sequence + 1, msg |-> saves + 1, peer |-> p,
                   delivered |-> FALSE, confirmed |-> FALSE]
<1>1. /\ messages' = messages \cup {new}
      /\ saves' = saves + 1 /\ UNCHANGED view
  BY DEF SaveMessage, NextId
<1>2. /\ saves \in Nat /\ sequence \in Nat
      /\ \A r \in messages : r.id \in Nat /\ r.id <= sequence /\ r.msg <= saves
  BY DEF MarkInv, IdTypes, RowsAreDistinct
<1>3. IsFiniteSet(messages')
  BY <1>1, FS_AddElement DEF PageInv, Numbered
<1>4. new.id = sequence + 1 /\ new.msg = saves + 1
  OBVIOUS
<1> HIDE DEF new
<1>5. Numbered(messages')
  BY <1>1, <1>2, <1>3, <1>4 DEF PageInv, Numbered
<1>6. \A q \in messages' : q.msg <= saves => q \in messages
  BY <1>1, <1>2, <1>4
<1> QED
  BY <1>1, <1>2, <1>5, <1>6, RowsStayAhead

LEMMA MarkDeliveredAhead ==
    ASSUME PageInv, MarkInv, NEW m \in Msgs, MarkDelivered(m)
    PROVE  PageInv'
<1> DEFINE Marked(r) == [r EXCEPT !.delivered = @ \/ r.id = idOf[m],
                                  !.confirmed = @ \/ r.msg = m]
<1>1. /\ messages' = {Marked(r) : r \in messages}
      /\ UNCHANGED <<saves, view>>
  BY DEF MarkDelivered
<1>2. \A r \in messages :
         Marked(r).id = r.id /\ Marked(r).msg = r.msg /\ Marked(r).peer = r.peer
  BY DEF MarkInv, IdTypes
<1> HIDE DEF Marked
<1>3. PICK f : f = [r \in messages |-> Marked(r)]
  OBVIOUS
<1>4. f \in Surjection(messages, messages')
  BY <1>1, <1>3 DEF Surjection
<1>5. IsFiniteSet(messages')
  BY <1>4, FS_Surjection DEF PageInv, Numbered
<1>6. /\ \A q \in messages' : \E r \in messages :
            q = Marked(r) /\ q.id = r.id /\ q.msg = r.msg /\ q.peer = r.peer
      /\ \A r \in messages : \E q \in messages' : q.id = r.id /\ q.peer = r.peer
  BY <1>1, <1>2, Zenon
<1>7. Numbered(messages')
  BY <1>5, <1>6 DEF PageInv, Numbered
<1>8. saves \in Nat
  BY DEF MarkInv, IdTypes
<1>9. \A q \in messages' :
         /\ \E r \in messages : r.id = q.id /\ r.msg = q.msg /\ r.peer = q.peer
         /\ \A s \in messages : s.peer = q.peer =>
               \E t \in messages' : t.id = s.id /\ t.peer = s.peer
  BY <1>6, Zenon
<1> QED
  BY <1>1, <1>7, <1>8, <1>9, RowsStayAhead

LEMMA OpenViewAhead ==
    ASSUME PageInv, MarkInv, NEW p \in Peers, OpenView(p)
    PROVE  PageInv'
<1>1. /\ view' = [open |-> TRUE, peer |-> p, offset |-> 0, end |-> FALSE,
                  unseen |-> {r.msg : r \in Of(p)}]
      /\ UNCHANGED <<messages, saves>>
  BY DEF OpenView, dbVars
<1>2. Numbered(messages')
  BY <1>1 DEF PageInv
<1>3. \A r \in Of(p) : r.msg \in Nat /\ r.msg <= saves
  BY DEF Of, MarkInv, IdTypes, RowsAreDistinct
<1>4. ViewTrue'
  BY <1>1, <1>3 DEF ViewTrue
<1>5. \A r \in Of(p) : Rank(p, r) >= 0
  <2>1. Numbered(Of(p)) /\ \A r \in Of(p) : Rank(p, r) = Cardinality(Above(Of(p), r))
    BY OfNumbered DEF PageInv
  <2>2. PICK page : page = {r \in Of(p) : Cardinality(Above(Of(p), r)) \in 0 .. 0 + 1 - 1}
    OBVIOUS
  <2>3. 0 \in Nat /\ 1 \in Nat \ {0}
    OBVIOUS
  <2>4. \A r \in Of(p) : Cardinality(Above(Of(p), r)) \in Nat
    BY <2>1, <2>2, <2>3, PageIsFull
  <2> QED
    BY <2>1, <2>4
<1>6. RestIsAhead'
  BY <1>1, <1>5 DEF RestIsAhead, Of, Rank, NewestFirst
<1> QED
  BY <1>2, <1>4, <1>6 DEF PageInv

\* A short page is the last, and what was not on it is beyond it.
LEMMA NextPageAhead ==
    ASSUME PageInv, NextPage
    PROVE  PageInv'
<1> DEFINE p == view.peer
           a == view.offset
           page == GetMessages(p, a)
           S == Of(p)
<1>1. /\ view.open /\ ~view.end
      /\ view' = [view EXCEPT !.offset = @ + Cardinality(page),
                              !.unseen = @ \ {r.msg : r \in page},
                              !.end = Cardinality(page) < PageSize]
      /\ UNCHANGED <<messages, saves>>
  BY DEF NextPage, dbVars
<1>2. view # Closed
  BY <1>1 DEF Closed
<1>3. /\ view \in [open : {TRUE}, peer : Peers, offset : Nat, end : BOOLEAN,
                   unseen : SUBSET Nat]
      /\ \A m \in view.unseen : m <= saves
  BY <1>2 DEF PageInv, ViewTrue
<1>4. Numbered(S) /\ \A r \in S : Rank(p, r) = Cardinality(Above(S, r))
  BY OfNumbered DEF PageInv
<1>5. page = {r \in S : Cardinality(Above(S, r)) \in a .. a + PageSize - 1}
  BY <1>4 DEF GetMessages
<1>6. /\ Cardinality(page) \in Nat /\ Cardinality(page) <= PageSize
      /\ \A r \in S : Cardinality(Above(S, r)) \in Nat
      /\ \A r \in S : Cardinality(Above(S, r)) >= a + PageSize
                         => Cardinality(page) = PageSize
  <2>1. a \in Nat /\ PageSize \in Nat \ {0}
    BY <1>3, StorageAssumption
  <2> QED
    BY <1>4, <1>5, <2>1, PageIsFull
<1>7. /\ view'.open /\ view'.peer = p /\ view'.offset = a + Cardinality(page)
      /\ view'.unseen = view.unseen \ {r.msg : r \in page}
      /\ view'.end = (Cardinality(page) < PageSize)
      /\ view' \in [open : {TRUE}, peer : Peers, offset : Nat, end : BOOLEAN,
                    unseen : SUBSET Nat]
  <2> DEFINE n == Cardinality(page)
             seen == {r.msg : r \in page}
             short == n < PageSize
  <2>1. n \in Nat /\ short \in BOOLEAN
    BY <1>6
  <2>2. view' = [view EXCEPT !.offset = @ + n, !.unseen = @ \ seen, !.end = short]
    BY <1>1
  <2> DEFINE v1 == [view EXCEPT !.offset = @ + n]
             v2 == [v1 EXCEPT !.unseen = @ \ seen]
             v3 == [v2 EXCEPT !.end = short]
             Views == [open : {TRUE}, peer : Peers, offset : Nat, end : BOOLEAN,
                       unseen : SUBSET Nat]
  <2> HIDE DEF n, seen, short
  <2>3. /\ v1 \in Views /\ v1.open /\ v1.peer = p /\ v1.offset = a + n
        /\ v1.unseen = view.unseen
    <3>1. a + n \in Nat /\ DOMAIN view = {"open", "peer", "offset", "end", "unseen"}
      BY <1>3, <2>1
    <3>2. v1 = [view EXCEPT !.offset = a + n]
      OBVIOUS
    <3>3. v1 \in Views
      BY <1>3, <3>1, <3>2
    <3>4. v1.open = view.open /\ v1.peer = p /\ v1.unseen = view.unseen
      BY <1>3, <3>2
    <3>5. v1.offset = a + n
      BY <3>1, <3>2
    <3> QED
      BY <1>1, <3>3, <3>4, <3>5
  <2> HIDE DEF v1
  <2>4. /\ v2 \in Views /\ v2.open /\ v2.peer = p /\ v2.offset = a + n
        /\ v2.unseen = view.unseen \ seen
    BY <2>3
  <2> HIDE DEF v2
  <2>5. /\ v3 \in Views /\ v3.open /\ v3.peer = p /\ v3.offset = a + n
        /\ v3.unseen = view.unseen \ seen /\ v3.end = short
    BY <2>4, <2>1
  <2>6. view' = v3
    BY <1>3, <2>2 DEF v1, v2
  <2>7. /\ view'.open /\ view'.peer = p /\ view'.offset = a + n
        /\ view'.unseen = view.unseen \ seen
        /\ view'.end = short
        /\ view' \in [open : {TRUE}, peer : Peers, offset : Nat, end : BOOLEAN,
                      unseen : SUBSET Nat]
    BY <2>5, <2>6
  <2> QED
    BY <2>7 DEF n, seen, short
<1>8. ViewTrue'
  BY <1>1, <1>3, <1>7 DEF ViewTrue
<1>9. ASSUME NEW r \in S, r.msg \in view'.unseen
      PROVE  Rank(p, r) >= view'.offset /\ ~view'.end
  <2>1. r.msg \in view.unseen /\ r \notin page
    BY <1>7, <1>9
  <2>2. Rank(p, r) >= a
    BY <1>1, <1>3, <2>1 DEF PageInv, RestIsAhead
  <2>3. a \in Nat /\ PageSize \in Nat \ {0}
    BY <1>3, StorageAssumption
  <2>4. Cardinality(Above(S, r)) >= a + PageSize
    BY <1>4, <1>5, <1>6, <2>1, <2>2, <2>3
  <2>5. Cardinality(page) = PageSize
    BY <1>6, <2>4
  <2> QED
    BY <1>4, <1>6, <1>7, <2>3, <2>4, <2>5
<1>10. Of(p)' = S /\ \A r \in S : Rank(p, r)' = Rank(p, r)
  BY <1>1 DEF Of, Rank, NewestFirst
<1>11. RestIsAhead'
  BY <1>7, <1>9, <1>1 DEF RestIsAhead, Of, Rank, NewestFirst
<1> QED
  BY <1>1, <1>8, <1>11 DEF PageInv

LEMMA PageNext ==
    ASSUME PageInv, MarkInv, [Next]_vars
    PROVE  PageInv'
<1>1. saves \in Nat
  BY DEF MarkInv, IdTypes
<1>2. ASSUME NEW p \in Peers, \/ AddContact(p) \/ DeleteContact(p)
                              \/ \E blocked \in BOOLEAN : BlockContact(p, blocked)
      PROVE  PageInv'
  BY <1>2, RowsUntouched DEF AddContact, DeleteContact, BlockContact, memVars
<1>3. ASSUME NEW p \in Peers, ClearMessages(p) PROVE PageInv'
  BY <1>1, <1>3, ClearKeepsAhead DEF ClearMessages, memVars
<1>4. CASE DeleteMessages
  BY <1>1, <1>4, ClearKeepsAhead, RowsUntouched DEF DeleteMessages
<1>5. CASE DeleteRow
  BY <1>5, RowsUntouched DEF DeleteRow
<1>6. ASSUME NEW p \in Peers, NEW t \in Threads, SaveMessage(t, p) PROVE PageInv'
  BY <1>6, SaveMessageAhead
<1>7. ASSUME NEW t \in Threads, ReturnId(t) PROVE PageInv'
  BY <1>7, RowsUntouched DEF ReturnId, dbVars
<1>8. CASE SaveGroupMessage
  BY <1>8, RowsUntouched DEF SaveGroupMessage, memVars
<1>9. ASSUME NEW m \in Msgs, MarkDelivered(m) PROVE PageInv'
  BY <1>9, MarkDeliveredAhead
<1>10. ASSUME NEW p \in Peers, OpenView(p) PROVE PageInv'
  BY <1>10, OpenViewAhead
<1>11. CASE NextPage
  BY <1>11, NextPageAhead
<1>12. CASE CloseView \/ End
  <2>1. view' = Closed /\ UNCHANGED messages
    BY <1>12 DEF CloseView, End, dbVars
  <2> QED
    BY <2>1 DEF PageInv, ViewTrue, RestIsAhead, Closed
<1>13. CASE UNCHANGED vars
  BY <1>13, RowsUntouched DEF vars, dbVars, memVars
<1> QED
  BY <1>2, <1>3, <1>4, <1>5, <1>6, <1>7, <1>8, <1>9, <1>10, <1>11, <1>12, <1>13 DEF Next

LEMMA PageInit == Init => RowNumbers /\ PageInv
<1>1. ASSUME Init PROVE PageInv
  BY <1>1, FS_EmptySet DEF Init, PageInv, Numbered, ViewTrue, RestIsAhead, Closed
<1>2. Init => RowNumbers
  BY DEF Init, RowNumbers, NoId
<1> QED
  BY <1>1, <1>2

\* getMessages, LIMIT and OFFSET by ids that grow: who scrolls to the end of a conversation
\* has seen every row in it that was there at the start, whatever was saved, marked or
\* deleted between the pages.
THEOREM PagingIsComplete == Spec => []PagingMissesNothing
<1>1. PageInv => PagingMissesNothing
  BY DEF PageInv, RestIsAhead, PagingMissesNothing
<1> QED
  BY MarkInit, MarkNext, PageInit, RowNumbersNext, PageNext, <1>1, PTL DEF Spec

-----------------------------------------------------------------------------
(* Types of every variable. *)

Rows == [id : Ids, msg : Msgs, peer : Peers, delivered : BOOLEAN, confirmed : BOOLEAN]
Calls == {Idle} \cup [op : {"messages", "contact"}, peer : Peers] \cup [op : {"id"}, msg : Msgs]
Views == {Closed} \cup [open : {TRUE}, peer : Peers, offset : Nat, end : BOOLEAN,
                        unseen : SUBSET Msgs]

DbTypes ==
    /\ contacts \in [Peers -> {"absent", "normal", "blocked"}]
    /\ blockList \in SUBSET Peers
    /\ messages \in SUBSET Rows
    /\ sequence \in 0 .. MaxSaves /\ groupRows \in 0 .. MaxGroupRows
    /\ lastRow \in Ids \cup {NoId}
    /\ saves = sequence
CallTypes ==
    /\ doing \in [Threads -> Calls]
    /\ idOf \in [Msgs -> Ids \cup {NoId}]
CountTypes ==
    /\ failures \in 0 .. MaxFailures /\ ends \in 0 .. MaxEnds
    /\ refused \in SUBSET Peers /\ unlisted \in SUBSET Peers /\ crossed \in BOOLEAN

StorageTypes == DbTypes /\ CallTypes /\ CountTypes /\ view \in Views

LEMMA StorageTypesInit == Init => StorageTypes
<1> SUFFICES ASSUME Init PROVE StorageTypes
  OBVIOUS
<1>1. DbTypes
  BY StorageAssumption DEF Init, DbTypes, NoId
<1>2. CallTypes
  BY DEF Init, CallTypes, Calls
<1>3. CountTypes
  <2>1. failures = 0 /\ ends = 0 /\ refused = {} /\ unlisted = {}
    BY DEF Init
  <2>2. crossed \in BOOLEAN
    BY Zenon DEF Init
  <2>. QED BY <2>1, <2>2, StorageAssumption DEF CountTypes
<1>4. view \in Views
  BY DEF Init, Views
<1>. QED BY <1>1, <1>2, <1>3, <1>4 DEF StorageTypes


LEMMA DbTypesNext ==
    ASSUME DbTypes, CallTypes, [Next]_vars
    PROVE  DbTypes'
<1> USE StorageAssumption DEF DbTypes
<1>1. ASSUME NEW p \in Peers, NEW b \in BOOLEAN, AddContact(p) \/ BlockContact(p, b) PROVE DbTypes'
  BY <1>1 DEF AddContact, BlockContact
<1>2. ASSUME NEW p \in Peers, DeleteContact(p) PROVE DbTypes'
  BY <1>2 DEF DeleteContact, PreserveBlock
<1>3. ASSUME NEW p \in Peers, ClearMessages(p) PROVE DbTypes'
  BY <1>3 DEF ClearMessages
<1>4. CASE DeleteMessages
  BY <1>4 DEF DeleteMessages
<1>5. CASE DeleteRow
  <2>1. contacts' = contacts \/ contacts' = [contacts EXCEPT ![doing["ui"].peer] = "absent"]
    BY <1>5 DEF DeleteRow
  <2>2. contacts' \in [Peers -> {"absent", "normal", "blocked"}]
    BY <2>1
  <2>. QED BY <1>5, <2>2 DEF DeleteRow
<1>6. ASSUME NEW t \in Threads, NEW p \in Peers, SaveMessage(t, p) PROVE DbTypes'
  <2> DEFINE row == [id |-> NextId, msg |-> saves + 1, peer |-> p,
                     delivered |-> FALSE, confirmed |-> FALSE]
  <2>1. /\ messages' = messages \cup {row} /\ sequence' = sequence + 1 /\ saves' = saves + 1
        /\ lastRow' = sequence + 1 /\ saves < MaxSaves
        /\ UNCHANGED <<contacts, blockList, groupRows>>
    BY <1>6 DEF SaveMessage, NextId
  <2>2. row \in Rows
    BY <2>1 DEF Rows, Ids, Msgs, NextId
  <2> HIDE DEF row
  <2>. QED BY <2>1, <2>2 DEF Ids
<1>7. CASE SaveGroupMessage
  BY <1>7 DEF SaveGroupMessage, Ids
<1>8. ASSUME NEW m \in Msgs, MarkDelivered(m) PROVE DbTypes'
  <2> DEFINE mark(r) == [r EXCEPT !.delivered = @ \/ r.id = idOf[m], !.confirmed = @ \/ r.msg = m]
  <2>1. messages' = {mark(r) : r \in messages}
    BY <1>8 DEF MarkDelivered
  <2>2. \A r \in Rows : mark(r) \in Rows
    BY DEF Rows
  <2> HIDE DEF mark
  <2>3. messages' \in SUBSET Rows
    BY <2>1, <2>2
  <2>. QED BY <1>8, <2>3 DEF MarkDelivered
<1>9. ASSUME UNCHANGED dbVars, UNCHANGED saves PROVE DbTypes'
  BY <1>9 DEF dbVars
<1>10. CASE End
  BY <1>10 DEF End
<1>11. ASSUME NEW t \in Threads, ReturnId(t) PROVE DbTypes'
  BY <1>9, <1>11 DEF ReturnId
<1>12. ASSUME NEW p \in Peers, OpenView(p) PROVE DbTypes'
  BY <1>9, <1>12 DEF OpenView
<1>13. CASE NextPage \/ CloseView \/ UNCHANGED vars
  BY <1>9, <1>13 DEF NextPage, CloseView, vars
<1> HIDE DEF DbTypes
<1>. QED BY <1>1, <1>2, <1>3, <1>4, <1>5, <1>6, <1>7, <1>8, <1>10, <1>11, <1>12, <1>13 DEF Next

\* The peer of a deletion under way.
LEMMA CallPeer ==
    ASSUME CallTypes, NEW t \in Threads
    PROVE  /\ doing[t].op \in {"messages", "contact"} => doing[t].peer \in Peers
           /\ doing[t].op = "id" => doing[t].msg \in Msgs
BY DEF CallTypes, Calls, Idle

LEMMA CallTypesNext ==
    ASSUME DbTypes, CallTypes, [Next]_vars
    PROVE  CallTypes'
<1>1. "ui" \in Threads /\ Idle \in Calls
  BY DEF Threads, Calls
<1>2. ASSUME UNCHANGED <<doing, idOf>> PROVE CallTypes'
  BY <1>2 DEF CallTypes
<1>3. ASSUME NEW t \in Threads, NEW v \in Calls,
             doing' = [doing EXCEPT ![t] = v], UNCHANGED idOf
      PROVE  CallTypes'
  BY <1>3 DEF CallTypes
<1>4. ASSUME NEW p \in Peers, NEW b \in BOOLEAN,
             AddContact(p) \/ BlockContact(p, b) \/ ClearMessages(p) \/ OpenView(p)
      PROVE  CallTypes'
  BY <1>2, <1>4 DEF AddContact, BlockContact, ClearMessages, OpenView, memVars
<1>5. ASSUME NEW p \in Peers, DeleteContact(p) PROVE CallTypes'
  <2>1. [op |-> "messages", peer |-> p] \in Calls
    BY DEF Calls
  <2>. QED BY <1>1, <1>3, <1>5, <2>1 DEF DeleteContact
<1>6. CASE DeleteMessages
  <2>1. [op |-> "contact", peer |-> doing["ui"].peer] \in Calls
    BY <1>1, <1>6, CallPeer DEF DeleteMessages, Calls
  <2>. QED BY <1>1, <1>3, <1>6, <2>1 DEF DeleteMessages
<1>7. CASE DeleteRow
  BY <1>1, <1>3, <1>7 DEF DeleteRow
<1>8. ASSUME NEW t \in Threads, NEW p \in Peers, SaveMessage(t, p) PROVE CallTypes'
  <2>1. [op |-> "id", msg |-> saves + 1] \in Calls
    BY <1>8, StorageAssumption DEF SaveMessage, DbTypes, Calls, Msgs
  <2>. QED BY <1>3, <1>8, <2>1 DEF SaveMessage
<1>9. ASSUME NEW t \in Threads, ReturnId(t) PROVE CallTypes'
  <2>1. /\ idOf' = [idOf EXCEPT ![doing[t].msg] = IF t = "ui" THEN lastRow ELSE NoId]
        /\ doing' = [doing EXCEPT ![t] = Idle]
        /\ lastRow \in Ids \cup {NoId}
    BY <1>9 DEF ReturnId, DbTypes
  <2>. QED BY <1>1, <2>1 DEF CallTypes
<1>10. ASSUME NEW m \in Msgs, MarkDelivered(m) PROVE CallTypes'
  BY <1>10 DEF MarkDelivered, CallTypes
<1>11. CASE End
  BY <1>1, <1>11 DEF End, CallTypes
<1>12. CASE SaveGroupMessage \/ NextPage \/ CloseView \/ UNCHANGED vars
  BY <1>2, <1>12 DEF SaveGroupMessage, NextPage, CloseView, vars, memVars
<1>. QED BY <1>4, <1>5, <1>6, <1>7, <1>8, <1>9, <1>10, <1>11, <1>12 DEF Next

LEMMA CountTypesNext ==
    ASSUME CountTypes, [Next]_vars
    PROVE  CountTypes'
<1> USE StorageAssumption
<1>1. UNCHANGED failures \/ Fails
  BY DEF Next, AddContact, BlockContact, DeleteContact, PreserveBlock, ClearMessages, OpenView,
     DeleteMessages, DeleteRow, SaveMessage, ReturnId, SaveGroupMessage, MarkDelivered,
     NextPage, CloseView, End, vars
<1>2. \/ UNCHANGED ends
      \/ ends < MaxEnds /\ ends' = ends + 1
  BY DEF Next, AddContact, BlockContact, DeleteContact, PreserveBlock, ClearMessages, OpenView,
     DeleteMessages, DeleteRow, SaveMessage, ReturnId, SaveGroupMessage, MarkDelivered,
     NextPage, CloseView, End, vars
<1>3. /\ refused' = refused \/ \E p \in Peers : refused' \in {refused \cup {p}, refused \ {p}}
      /\ unlisted' = unlisted \/ \E p \in Peers : unlisted' = unlisted \cup {p}
      /\ crossed' = crossed \/ crossed' = (crossed \/ Crossing)
  BY DEF Next, AddContact, BlockContact, DeleteContact, PreserveBlock, ClearMessages, OpenView,
     DeleteMessages, DeleteRow, SaveMessage, ReturnId, SaveGroupMessage, MarkDelivered,
     NextPage, CloseView, End, vars, ghostVars
<1>4. failures' \in 0 .. MaxFailures /\ ends' \in 0 .. MaxEnds
  BY <1>1, <1>2 DEF CountTypes, Fails
<1>5. refused' \in SUBSET Peers /\ unlisted' \in SUBSET Peers
  BY <1>3 DEF CountTypes
<1>6. crossed' \in BOOLEAN
  BY <1>3, Zenon DEF CountTypes, Crossing
<1>. QED BY <1>4, <1>5, <1>6 DEF CountTypes

LEMMA ViewTypesNext ==
    ASSUME DbTypes, view \in Views, PageInv', [Next]_vars
    PROVE  view' \in Views
<1>1. CASE view' = view \/ view' = Closed
  BY <1>1 DEF Views
<1>2. ASSUME NEW p \in Peers, OpenView(p) PROVE view' \in Views
  <2>1. {r.msg : r \in Of(p)} \in SUBSET Msgs
    BY DEF DbTypes, Of, Rows
  <2>. QED BY <1>2, <2>1 DEF OpenView, Views
<1>3. CASE NextPage
  <2>1. view \in [open : {TRUE}, peer : Peers, offset : Nat, end : BOOLEAN, unseen : SUBSET Msgs]
    <3>1. view.open /\ ~Closed.open
      BY <1>3 DEF NextPage, Closed
    <3>. QED BY <3>1 DEF Views
  <2>2. PICK k, u, b : view' = [view EXCEPT !.offset = k, !.unseen = view.unseen \ u, !.end = b]
                       /\ b \in BOOLEAN
    <3> DEFINE page == GetMessages(view.peer, view.offset)
               k == view.offset + Cardinality(page)
               u == {r.msg : r \in page}
               b == Cardinality(page) < PageSize
    <3>1. view' = [view EXCEPT !.offset = k, !.unseen = view.unseen \ u, !.end = b]
      BY <1>3, Zenon DEF NextPage
    <3>2. b \in BOOLEAN
      OBVIOUS
    <3> HIDE DEF page, k, u, b
    <3>. QED BY <3>1, <3>2
  <2>3. k \in Nat
    BY <2>1, <2>2 DEF PageInv, ViewTrue, Closed
  <2>. QED BY <2>1, <2>2, <2>3 DEF Views
<1>4. \/ view' = view \/ view' = Closed \/ NextPage \/ \E p \in Peers : OpenView(p)
  BY DEF Next, AddContact, BlockContact, DeleteContact, ClearMessages, memVars,
     DeleteMessages, DeleteRow, SaveMessage, ReturnId, SaveGroupMessage, MarkDelivered,
     CloseView, End, vars
<1>. QED BY <1>1, <1>2, <1>3, <1>4

\* The tables, the calls under way and the views of the conversations are always well typed
\* (StorageManager's methods, whichever fails and wherever the program ends).
THEOREM TypeCorrect == Spec => []TypeOK
<1> DEFINE Inv == RowNumbers /\ MarkInv /\ PageInv /\ StorageTypes
<1>1. Init => Inv
  BY MarkInit, PageInit, StorageTypesInit
<1>2. Inv /\ [Next]_vars => Inv'
  BY MarkNext, RowNumbersNext, PageNext, DbTypesNext, CallTypesNext, CountTypesNext,
     ViewTypesNext DEF StorageTypes
<1>3. Inv => TypeOK
  BY StorageAssumption
     DEF StorageTypes, DbTypes, CallTypes, CountTypes, Rows, Calls, Views, TypeOK
<1>. QED BY <1>1, <1>2, <1>3, PTL DEF Spec

=============================================================================
