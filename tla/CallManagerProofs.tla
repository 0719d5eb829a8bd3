-------------------------- MODULE CallManagerProofs --------------------------
(* Theorems about CallManager, for every set of nodes and every bound: with *)
(* and without interleaving inside the handlers, that a caller talks to who *)
(* accepted, that it implements Agreement, and that both ends are in the    *)
(* same call; without it, that what a node believes hangs together.         *)
EXTENDS CallManager, SequenceTheorems, TLAPS

Networks == [Nodes -> [Nodes -> Seq(Signals)]]
Uis == [op : {"done", "end"}, call : {NoCall}, peer : {NoNode}]
           \cup [op : {"invite", "media", "talk"}, call : Calls, peer : Nodes]

-----------------------------------------------------------------------------
(* Frames. *)

LEMMA SendType ==
    ASSUME NEW w \in Networks, NEW n \in Nodes, NEW m \in Nodes,
           NEW t \in {"INVITE", "ACCEPT", "REJECT", "END"}, NEW i \in Calls
    PROVE  Send(w, n, m, t, i) \in Networks
<1>1. [type |-> t, call |-> i] \in Signals
  BY DEF Signals
<1>2. Append(w[n][m], [type |-> t, call |-> i]) \in Seq(Signals)
  BY <1>1 DEF Networks
<1> QED
  BY <1>2 DEF Send, Networks

LEMMA RestType ==
    ASSUME net \in Networks, NEW m \in Nodes, NEW n \in Nodes, net[m][n] # <<>>
    PROVE  /\ Rest(m, n) \in Networks
           /\ Head(net[m][n]) \in Signals
<1>1. net[m][n] \in Seq(Signals)
  BY DEF Networks
<1>2. Tail(net[m][n]) \in Seq(Signals) /\ Head(net[m][n]) \in Signals
  BY <1>1
<1> QED
  BY <1>2 DEF Rest, Networks

-----------------------------------------------------------------------------
(* Type correctness. *)

LEMMA InitiateCallType ==
    ASSUME TypeOK, NEW n \in Nodes, NEW p \in Nodes, InitiateCall(n, p)
    PROVE  TypeOK'
<1>1. PICK i \in Calls :
         /\ parties' = [parties EXCEPT ![i] = [from |-> n, to |-> p]]
         /\ state' = [state EXCEPT ![n] = "Calling"]
         /\ call' = [call EXCEPT ![n] = i]
         /\ peer' = [peer EXCEPT ![n] = p]
         /\ media' = [media EXCEPT ![n] = NoCall]
         /\ ui' = [ui EXCEPT ![n] = Left("invite", i, p)]
  BY DEF InitiateCall
<1>2. Left("invite", i, p) \in Uis
  BY DEF Left, Uis
<1>3. ui' \in [Nodes -> Uis]
  BY <1>1, <1>2 DEF TypeOK, Uis
<1>4. parties' \in [Calls -> [from : Nodes \cup {NoNode}, to : Nodes \cup {NoNode}]]
  BY <1>1 DEF TypeOK
<1>5. UNCHANGED <<callTimer, endedTimer, callback, accepted, net, losses>>
  BY DEF InitiateCall
<1>6. meddled' \subseteq Nodes
  BY DEF InitiateCall, TypeOK
<1> QED
  BY <1>1, <1>3, <1>4, <1>5, <1>6 DEF TypeOK, Uis, States

LEMMA CancelTimersType ==
    ASSUME TypeOK, NEW n \in Nodes, CancelTimers(n)
    PROVE  /\ callTimer' \in [Nodes -> BOOLEAN]
           /\ endedTimer' \in [Nodes -> BOOLEAN]
           /\ callback' \in [Nodes -> {"none", "current", "stale"}]
BY DEF TypeOK, CancelTimers

LEMMA ForgetType ==
    ASSUME TypeOK, NEW n \in Nodes, Forget(n)
    PROVE  /\ state' \in [Nodes -> States]
           /\ call' \in [Nodes -> Calls \cup {NoCall}]
           /\ peer' \in [Nodes -> Nodes \cup {NoNode}]
BY DEF TypeOK, Forget, States

LEMMA DoneType == Done \in Uis
BY DEF Done, Uis

\* What TypeOK says, with the sets named.
LEMMA TypeParts ==
    TypeOK <=>
    /\ state \in [Nodes -> States] /\ call \in [Nodes -> Calls \cup {NoCall}]
    /\ peer \in [Nodes -> Nodes \cup {NoNode}] /\ media \in [Nodes -> Calls \cup {NoCall}]
    /\ callTimer \in [Nodes -> BOOLEAN] /\ endedTimer \in [Nodes -> BOOLEAN]
    /\ callback \in [Nodes -> {"none", "current", "stale"}]
    /\ ui \in [Nodes -> Uis]
    /\ parties \in [Calls -> [from : Nodes \cup {NoNode}, to : Nodes \cup {NoNode}]]
    /\ accepted \in SUBSET Calls
    /\ net \in Networks
    /\ losses \in 0 .. MaxLosses
    /\ meddled \subseteq Nodes
BY DEF TypeOK, Uis, Networks

-----------------------------------------------------------------------------
(* The inductive invariant.  An ACCEPT on its way is of an accepted call and *)
(* an INVITE comes from the call's caller; a node that rings was called by   *)
(* another one; and what the UI thread has left to do is about the present   *)
(* call, unless the timer thread has reset it meanwhile.                     *)

FrameTrue(f, m, n, acc, par) ==
    /\ f.type = "ACCEPT" => f.call \in acc /\ par[f.call].from \in Nodes
    /\ f.type = "INVITE" => par[f.call].from = m /\ m # n

FramesTrue(w, acc, par) ==
    \A m, n \in Nodes : \A k \in 1 .. Len(w[m][n]) : FrameTrue(w[m][n][k], m, n, acc, par)

RingsForAnother(n) ==
    state[n] = "Ringing" =>
        call[n] \in Calls /\ peer[n] \in Nodes /\ parties[call[n]].from \in Nodes \ {n}

UiOfTheCall(n) ==
    /\ ui[n].op = "invite" => parties[ui[n].call].from = n /\ ui[n].peer # n
    /\ ui[n].op \in {"media", "talk"} =>
           /\ call[n] \in {NoCall, ui[n].call}
           /\ parties[ui[n].call].from \in Nodes
           /\ parties[ui[n].call].from = n => ui[n].call \in accepted

TalksAccepted(n) ==
    state[n] = "InCall" /\ call[n] # NoCall =>
        /\ parties[call[n]].from \in Nodes
        /\ parties[call[n]].from = n => call[n] \in accepted

NodeInv(n) == RingsForAnother(n) /\ UiOfTheCall(n) /\ TalksAccepted(n)

IInv == TypeOK /\ FramesTrue(net, accepted, parties) /\ \A n \in Nodes : NodeInv(n)

\* What no step takes back.
Grown ==
    /\ accepted \subseteq accepted'
    /\ \A i \in Calls : parties[i].from \in Nodes => parties'[i] = parties[i]

-----------------------------------------------------------------------------

LEMMA FramesGrown ==
    ASSUME NEW w \in Networks, FramesTrue(w, accepted, parties), Grown
    PROVE  FramesTrue(w, accepted', parties')
<1> SUFFICES ASSUME NEW m \in Nodes, NEW n \in Nodes, NEW k \in 1 .. Len(w[m][n])
             PROVE  FrameTrue(w[m][n][k], m, n, accepted', parties')
  BY DEF FramesTrue
<1>1. FrameTrue(w[m][n][k], m, n, accepted, parties)
  BY DEF FramesTrue
<1>2. w[m][n][k] \in Signals
  BY DEF Networks
<1>3. w[m][n][k].call \in Calls
  BY <1>2 DEF Signals
<1> QED
  BY <1>1, <1>3 DEF FrameTrue, Grown

LEMMA FramesSend ==
    ASSUME NEW w \in Networks, NEW acc, NEW par, FramesTrue(w, acc, par),
           NEW n \in Nodes, NEW m \in Nodes,
           NEW t \in {"INVITE", "ACCEPT", "REJECT", "END"}, NEW i \in Calls,
           FrameTrue([type |-> t, call |-> i], n, m, acc, par)
    PROVE  FramesTrue(Send(w, n, m, t, i), acc, par)
<1> DEFINE f == [type |-> t, call |-> i]
           v == Send(w, n, m, t, i)
<1> SUFFICES ASSUME NEW a \in Nodes, NEW b \in Nodes, NEW k \in 1 .. Len(v[a][b])
             PROVE  FrameTrue(v[a][b][k], a, b, acc, par)
  BY DEF FramesTrue
<1>1. v[a][b] = IF a = n /\ b = m THEN Append(w[n][m], f) ELSE w[a][b]
  BY DEF Send, Networks
<1>2. CASE a = n /\ b = m
  <2>1. w[n][m] \in Seq(Signals) /\ f \in Signals
    BY DEF Networks, Signals
  <2>2. v[a][b] = Append(w[n][m], f)
    BY <1>1, <1>2
  <2>3. Len(v[a][b]) = Len(w[n][m]) + 1 /\ Len(w[n][m]) \in Nat
    BY <2>1, <2>2
  <2>4. CASE k = Len(w[n][m]) + 1
    <3>1. v[a][b][k] = f
      BY <2>1, <2>2, <2>4
    <3> QED
      BY <1>2, <3>1
  <2>5. CASE k \in 1 .. Len(w[n][m])
    <3>1. v[a][b][k] = w[n][m][k]
      BY <2>1, <2>2, <2>5
    <3>2. FrameTrue(w[n][m][k], n, m, acc, par)
      BY <2>5 DEF FramesTrue
    <3> QED
      BY <1>2, <3>1, <3>2
  <2> QED
    BY <2>3, <2>4, <2>5
<1>3. CASE ~(a = n /\ b = m)
  <2>1. v[a][b] = w[a][b]
    BY <1>1, <1>3
  <2>2. FrameTrue(w[a][b][k], a, b, acc, par)
    BY <2>1 DEF FramesTrue
  <2> QED
    BY <2>1, <2>2
<1> QED
  BY <1>2, <1>3

LEMMA FramesRest ==
    ASSUME net \in Networks, FramesTrue(net, accepted, parties),
           NEW m \in Nodes, NEW n \in Nodes, net[m][n] # <<>>
    PROVE  /\ FramesTrue(Rest(m, n), accepted, parties)
           /\ FrameTrue(Head(net[m][n]), m, n, accepted, parties)
<1> DEFINE s == net[m][n]
           v == Rest(m, n)
<1>1. s \in Seq(Signals) /\ s # <<>>
  BY DEF Networks
<1>2. Head(s) = s[1] /\ 1 \in 1 .. Len(s)
  BY <1>1
<1>3. FrameTrue(Head(s), m, n, accepted, parties)
  BY <1>2 DEF FramesTrue
<1>4. ASSUME NEW a \in Nodes, NEW b \in Nodes, NEW k \in 1 .. Len(v[a][b])
      PROVE  FrameTrue(v[a][b][k], a, b, accepted, parties)
  <2>1. v[a][b] = IF a = m /\ b = n THEN Tail(s) ELSE net[a][b]
    BY DEF Rest, Networks
  <2>2. CASE a = m /\ b = n
    <3>0. v[a][b] = Tail(s)
      BY <2>1, <2>2
    <3>1. v[a][b][k] = s[k + 1] /\ k + 1 \in 1 .. Len(s)
      BY <1>1, <3>0
    <3>2. FrameTrue(s[k + 1], m, n, accepted, parties)
      BY <3>1 DEF FramesTrue
    <3> QED
      BY <2>2, <3>1, <3>2
  <2>3. CASE ~(a = m /\ b = n)
    <3>0. v[a][b] = net[a][b]
      BY <2>1, <2>3
    <3>1. FrameTrue(net[a][b][k], a, b, accepted, parties)
      BY <3>0 DEF FramesTrue
    <3> QED
      BY <3>0, <3>1
  <2> QED
    BY <2>2, <2>3
<1> QED
  BY <1>3, <1>4 DEF FramesTrue

\* A node that a step leaves alone keeps its invariant.
LEMMA NodeKept ==
    ASSUME TypeOK, NEW p \in Nodes, NodeInv(p), Grown,
           state'[p] = state[p], call'[p] = call[p], peer'[p] = peer[p], ui'[p] = ui[p]
    PROVE  NodeInv(p)'
<1>1. call[p] = NoCall \/ call[p] \in Calls
  BY DEF TypeOK
<1>2. ui[p].op \in {"invite", "media", "talk"} => ui[p].call \in Calls
  <2>1. ui[p] \in Uis
    BY DEF TypeOK, Uis
  <2> QED
    BY <2>1 DEF Uis
<1>3. RingsForAnother(p)'
  BY DEF RingsForAnother, NodeInv, Grown
<1>4. UiOfTheCall(p)'
  BY <1>2 DEF UiOfTheCall, NodeInv, Grown
<1>5. TalksAccepted(p)'
  BY <1>1 DEF TalksAccepted, NodeInv, Grown
<1> QED
  BY <1>3, <1>4, <1>5 DEF NodeInv

-----------------------------------------------------------------------------
(* One lemma for each action. *)

SameNode(p) ==
    state'[p] = state[p] /\ call'[p] = call[p] /\ peer'[p] = peer[p] /\ ui'[p] = ui[p]

LEMMA StepOfNode ==
    ASSUME IInv, NEW n \in Nodes, TypeOK', Grown, FramesTrue(net', accepted', parties'),
           NodeInv(n)', \A p \in Nodes \ {n} : SameNode(p)
    PROVE  IInv'
<1>1. ASSUME NEW p \in Nodes PROVE NodeInv(p)'
  <2>1. CASE p = n
    BY <2>1
  <2>2. CASE p # n
    BY <2>2, NodeKept DEF SameNode, IInv
  <2> QED
    BY <2>1, <2>2
<1> QED
  BY <1>1 DEF IInv

\* Frames stay as they are, or what is sent is neither INVITE nor ACCEPT.
LEMMA OtherFrame ==
    ASSUME NEW t \in {"REJECT", "END"}, NEW i, NEW m, NEW n, NEW acc, NEW par
    PROVE  FrameTrue([type |-> t, call |-> i], m, n, acc, par)
BY DEF FrameTrue

LEMMA SameFrames ==
    ASSUME IInv, Grown, UNCHANGED net
    PROVE  FramesTrue(net', accepted', parties')
BY FramesGrown, TypeParts DEF IInv

LEMMA NothingGrown ==
    ASSUME UNCHANGED <<parties, accepted>>
    PROVE  Grown
BY DEF Grown

LEMMA InitiateCallStep ==
    ASSUME IInv, NEW n \in Nodes, NEW p \in Nodes, InitiateCall(n, p)
    PROVE  IInv'
<1> USE CallAssumption DEF IInv
<1>0. PICK i \in Calls :
         /\ parties[i] = Nobody
         /\ parties' = [parties EXCEPT ![i] = [from |-> n, to |-> p]]
         /\ state' = [state EXCEPT ![n] = "Calling"]
         /\ call' = [call EXCEPT ![n] = i]
         /\ peer' = [peer EXCEPT ![n] = p]
         /\ ui' = [ui EXCEPT ![n] = Left("invite", i, p)]
  BY DEF InitiateCall
<1>1. TypeOK'
  BY InitiateCallType
<1>2. Grown
  BY <1>0 DEF Grown, TypeOK, InitiateCall, Nobody
<1>3. FramesTrue(net', accepted', parties')
  BY <1>2, SameFrames DEF InitiateCall
<1>4. NodeInv(n)'
  <2>1. ui'[n] = Left("invite", i, p) /\ state'[n] = "Calling" /\ p # n
    BY <1>0 DEF TypeOK, InitiateCall
  <2>2. parties'[i].from = n
    BY <1>0 DEF TypeOK
  <2> QED
    BY <2>1, <2>2 DEF NodeInv, RingsForAnother, UiOfTheCall, TalksAccepted, Left
<1>5. \A q \in Nodes \ {n} : SameNode(q)
  BY <1>0 DEF SameNode, TypeOK
<1> QED
  BY <1>1, <1>2, <1>3, <1>4, <1>5, StepOfNode

LEMMA SendInviteStep ==
    ASSUME IInv, NEW n \in Nodes, SendInvite(n)
    PROVE  IInv'
<1>0. /\ ui[n].op = "invite" /\ ui[n].call \in Calls /\ ui[n].peer \in Nodes
      /\ net' = Send(net, n, ui[n].peer, "INVITE", ui[n].call)
  <2>1. ui[n].op = "invite" /\ ui[n] \in Uis
    BY TypeParts DEF SendInvite, IInv
  <2> QED
    BY <2>1 DEF Uis, SendInvite
<1>1. TypeOK'
  <2>1. net' \in Networks
    BY <1>0, SendType, TypeParts DEF IInv
  <2>2. ui' \in [Nodes -> Uis]
    BY TypeParts, DoneType DEF IInv, SendInvite
  <2> QED
    BY <2>1, <2>2 DEF IInv, TypeOK, Uis, Networks, SendInvite
<1>2. Grown
  BY NothingGrown DEF SendInvite, Done
<1>3. FramesTrue(net', accepted', parties')
  <2>1. FrameTrue([type |-> "INVITE", call |-> ui[n].call], n, ui[n].peer, accepted, parties)
    BY <1>0 DEF IInv, NodeInv, UiOfTheCall, FrameTrue
  <2>2. FramesTrue(net', accepted, parties)
    BY <1>0, <2>1, FramesSend, TypeParts DEF IInv
  <2> QED
    BY <2>2 DEF SendInvite
<1>4. NodeInv(n)'
  BY DEF IInv, TypeOK, Uis, NodeInv, RingsForAnother, UiOfTheCall, TalksAccepted, SendInvite, Done
<1>5. \A p \in Nodes \ {n} : SameNode(p)
  BY DEF SameNode, IInv, TypeOK, SendInvite, Done
<1> QED
  BY <1>1, <1>2, <1>3, <1>4, <1>5, StepOfNode

LEMMA AcceptCallStep ==
    ASSUME IInv, NEW n \in Nodes, AcceptCall(n)
    PROVE  IInv'
<1>0. /\ state[n] = "Ringing" /\ call[n] \in Calls /\ peer[n] \in Nodes
      /\ ui' = [ui EXCEPT ![n] = Left("media", call[n], peer[n])]
  BY DEF AcceptCall, IInv, NodeInv, RingsForAnother
<1>1. TypeOK'
  <2>1. Left("media", call[n], peer[n]) \in Uis
    BY <1>0 DEF Left, Uis
  <2>2. ui' \in [Nodes -> Uis]
    BY <1>0, <2>1, TypeParts DEF IInv
  <2> QED
    BY <2>2 DEF IInv, TypeOK, Uis, AcceptCall
<1>2. Grown
  BY NothingGrown DEF AcceptCall, UiFree, Left
<1>3. FramesTrue(net', accepted', parties')
  BY <1>2, SameFrames DEF AcceptCall, UiFree, Left
<1>4. NodeInv(n)'
  BY DEF IInv, TypeOK, Uis, NodeInv, RingsForAnother, UiOfTheCall, TalksAccepted, AcceptCall, UiFree, Left
<1>5. \A p \in Nodes \ {n} : SameNode(p)
  BY DEF SameNode, IInv, TypeOK, AcceptCall, UiFree, Left
<1> QED
  BY <1>1, <1>2, <1>3, <1>4, <1>5, StepOfNode

LEMMA RejectCallStep ==
    ASSUME IInv, NEW n \in Nodes, RejectCall(n)
    PROVE  IInv'
<1>0. /\ call[n] \in Calls /\ peer[n] \in Nodes
      /\ net' = Send(net, n, peer[n], "REJECT", call[n])
  BY DEF RejectCall, IInv, NodeInv, RingsForAnother
<1>1. TypeOK'
  <2>1. net' \in Networks
    BY <1>0, SendType, TypeParts DEF IInv
  <2> QED
    BY <2>1, CancelTimersType, ForgetType
    DEF IInv, TypeOK, Networks, RejectCall, ResetState
<1>2. Grown
  BY NothingGrown DEF RejectCall, ResetState, Forget
<1>3. FramesTrue(net', accepted', parties')
  <2>1. FramesTrue(net', accepted, parties)
    BY <1>0, OtherFrame, FramesSend, TypeParts DEF IInv
  <2> QED
    BY <2>1 DEF RejectCall
<1>4. NodeInv(n)'
  BY DEF IInv, TypeOK, Uis, NodeInv, RingsForAnother, UiOfTheCall, TalksAccepted,
         RejectCall, ResetState, Forget, UiFree
<1>5. \A p \in Nodes \ {n} : SameNode(p)
  BY DEF SameNode, IInv, TypeOK, RejectCall, ResetState, Forget
<1> QED
  BY <1>1, <1>2, <1>3, <1>4, <1>5, StepOfNode

LEMMA EndCallStep ==
    ASSUME IInv, NEW n \in Nodes, EndCall(n)
    PROVE  IInv'
<1>0. net' \in Networks /\ FramesTrue(net', accepted, parties)
  <2>1. CASE net' = net
    BY <2>1, TypeParts DEF IInv
  <2>2. CASE /\ call[n] # NoCall /\ peer[n] # NoNode
             /\ net' = Send(net, n, peer[n], "END", call[n])
    <3>1. call[n] \in Calls /\ peer[n] \in Nodes
      BY <2>2 DEF IInv, TypeOK
    <3> QED
      BY <2>2, <3>1, SendType, OtherFrame, FramesSend, TypeParts DEF IInv
  <2> QED
    BY <2>1, <2>2 DEF EndCall
<1>1. TypeOK'
  <2>1. Left("end", NoCall, NoNode) \in Uis
    BY DEF Left, Uis
  <2>2. ui' \in [Nodes -> Uis]
    BY <2>1, TypeParts DEF IInv, EndCall, Ended
  <2> QED
    BY <1>0, <2>2 DEF IInv, TypeOK, Uis, Networks, States, EndCall, Ended
<1>2. Grown
  BY NothingGrown DEF EndCall, Ended, Left
<1>3. FramesTrue(net', accepted', parties')
  BY <1>0 DEF EndCall
<1>4. NodeInv(n)'
  BY DEF IInv, TypeOK, Uis, NodeInv, RingsForAnother, UiOfTheCall, TalksAccepted, EndCall, Ended, Left
<1>5. \A p \in Nodes \ {n} : SameNode(p)
  BY DEF SameNode, IInv, TypeOK, EndCall, Ended, Left
<1> QED
  BY <1>1, <1>2, <1>3, <1>4, <1>5, StepOfNode

LEMMA ArmEndedTimerStep ==
    ASSUME IInv, NEW n \in Nodes, ArmEndedTimer(n)
    PROVE  IInv'
<1>1. TypeOK'
  <2>1. ui' \in [Nodes -> Uis]
    BY TypeParts, DoneType DEF IInv, ArmEndedTimer
  <2> QED
    BY <2>1 DEF IInv, TypeOK, Uis, ArmEndedTimer
<1>2. Grown
  BY NothingGrown DEF ArmEndedTimer, Done
<1>3. FramesTrue(net', accepted', parties')
  BY <1>2, SameFrames DEF ArmEndedTimer, Done
<1>4. NodeInv(n)'
  BY DEF IInv, TypeOK, Uis, NodeInv, RingsForAnother, UiOfTheCall, TalksAccepted, ArmEndedTimer, Done
<1>5. \A p \in Nodes \ {n} : SameNode(p)
  BY DEF SameNode, IInv, TypeOK, ArmEndedTimer, Done
<1> QED
  BY <1>1, <1>2, <1>3, <1>4, <1>5, StepOfNode

LEMMA MediaDoesNotStartStep ==
    ASSUME IInv, NEW n \in Nodes, MediaDoesNotStart(n)
    PROVE  IInv'
<1>0. /\ ui[n].call \in Calls /\ ui[n].peer \in Nodes
      /\ ui[n] \in Uis
  <2>1. ui[n].op \in {"media", "talk"} /\ ui[n] \in Uis
    BY TypeParts DEF MediaDoesNotStart, IInv
  <2> QED
    BY <2>1 DEF Uis
<1>a. [ui[n] EXCEPT !.op = "talk"] = [op |-> "talk", call |-> ui[n].call, peer |-> ui[n].peer]
  BY <1>0 DEF Uis
<1>1. TypeOK'
  <2>1. [ui[n] EXCEPT !.op = "talk"] \in Uis
    BY <1>0, <1>a DEF Uis
  <2>2. ui' \in [Nodes -> Uis]
    BY <2>1, TypeParts, DoneType DEF IInv, MediaDoesNotStart
  <2> QED
    BY <2>2, CancelTimersType, ForgetType
    DEF IInv, TypeOK, Uis, MediaDoesNotStart, ResetState
<1>2. Grown
  BY NothingGrown DEF MediaDoesNotStart, ResetState, Forget, Done
<1>3. FramesTrue(net', accepted', parties')
  BY <1>2, SameFrames DEF MediaDoesNotStart, ResetState, Forget, Done
<1>4. NodeInv(n)'
  <2>1. call'[n] = NoCall /\ state'[n] = "Idle"
    BY DEF MediaDoesNotStart, ResetState, Forget, IInv, TypeOK
  <2>2. ui'[n] = Done \/ ui'[n] = [op |-> "talk", call |-> ui[n].call, peer |-> ui[n].peer]
    BY <1>a DEF MediaDoesNotStart, IInv, TypeOK
  <2>3. ui[n].op = "media"
    BY DEF MediaDoesNotStart
  <2> QED
    BY <2>1, <2>2, <2>3
    DEF IInv, Done, NodeInv, RingsForAnother, UiOfTheCall, TalksAccepted, MediaDoesNotStart
<1>5. \A p \in Nodes \ {n} : SameNode(p)
  BY DEF SameNode, IInv, TypeOK, MediaDoesNotStart, ResetState, Forget, Done
<1> QED
  BY <1>1, <1>2, <1>3, <1>4, <1>5, StepOfNode

LEMMA MediaStartsStep ==
    ASSUME IInv, NEW n \in Nodes, MediaStarts(n)
    PROVE  IInv'
<1>0. /\ ui[n].call \in Calls /\ ui[n].peer \in Nodes
      /\ ui[n] \in Uis
  <2>1. ui[n].op \in {"media", "talk"} /\ ui[n] \in Uis
    BY TypeParts DEF MediaStarts, IInv
  <2> QED
    BY <2>1 DEF Uis
<1>a. [ui[n] EXCEPT !.op = "talk"] = [op |-> "talk", call |-> ui[n].call, peer |-> ui[n].peer]
  BY <1>0 DEF Uis
<1>1. TypeOK'
  <2>1. [ui[n] EXCEPT !.op = "talk"] \in Uis
    BY <1>0, <1>a DEF Uis
  <2>2. ui' \in [Nodes -> Uis]
    BY <2>1, TypeParts, DoneType DEF IInv, MediaStarts
  <2> QED
    BY <1>0, <2>2 DEF IInv, TypeOK, Uis, MediaStarts
<1>2. Grown
  BY NothingGrown DEF MediaStarts
<1>3. FramesTrue(net', accepted', parties')
  BY <1>2, SameFrames DEF MediaStarts
<1>4. NodeInv(n)'
  <2>1. ui'[n] = [op |-> "talk", call |-> ui[n].call, peer |-> ui[n].peer]
    BY <1>a DEF MediaStarts, IInv, TypeOK
  <2>2. ui[n].op = "media"
    BY DEF MediaStarts
  <2> QED
    BY <2>1, <2>2
    DEF IInv, NodeInv, RingsForAnother, UiOfTheCall, TalksAccepted, MediaStarts
<1>5. \A p \in Nodes \ {n} : SameNode(p)
  BY DEF SameNode, IInv, TypeOK, MediaStarts
<1> QED
  BY <1>1, <1>2, <1>3, <1>4, <1>5, StepOfNode

LEMMA TalkStep ==
    ASSUME IInv, NEW n \in Nodes, Talk(n)
    PROVE  IInv'
<1>0. /\ ui[n].call \in Calls /\ ui[n].peer \in Nodes
      /\ ui[n] \in Uis
  <2>1. ui[n].op \in {"media", "talk"} /\ ui[n] \in Uis
    BY TypeParts DEF Talk, IInv
  <2> QED
    BY <2>1 DEF Uis
<1>b. /\ call[n] \in {NoCall, ui[n].call}
      /\ parties[ui[n].call].from \in Nodes
      /\ parties[ui[n].call].from = n => ui[n].call \in accepted
  BY DEF Talk, IInv, NodeInv, UiOfTheCall
<1>c. \/ accepted' = accepted \cup {ui[n].call} /\ net' = Send(net, n, ui[n].peer, "ACCEPT", ui[n].call)
      \/ UNCHANGED <<accepted, net>>
  BY DEF Talk
<1>1. TypeOK'
  <2>1. net' \in Networks
    BY <1>0, <1>c, SendType, TypeParts DEF IInv
  <2>2. ui' \in [Nodes -> Uis]
    BY TypeParts, DoneType DEF IInv, Talk
  <2>3. accepted' \in SUBSET Calls
    BY <1>0, <1>c DEF IInv, TypeOK
  <2> QED
    BY <2>1, <2>2, <2>3 DEF IInv, TypeOK, Uis, Networks, States, Talk
<1>2. Grown
  BY <1>c DEF Talk, Grown
<1>3. FramesTrue(net', accepted', parties')
  <2>1. CASE UNCHANGED net
    BY <1>2, <2>1, SameFrames
  <2>2. CASE /\ accepted' = accepted \cup {ui[n].call}
             /\ net' = Send(net, n, ui[n].peer, "ACCEPT", ui[n].call)
    <3>1. FrameTrue([type |-> "ACCEPT", call |-> ui[n].call], n, ui[n].peer, accepted', parties')
      BY <2>2, <1>b DEF FrameTrue, Talk
    <3>2. FramesTrue(net, accepted', parties')
      BY <1>2, FramesGrown, TypeParts DEF IInv
    <3> QED
      BY <2>2, <3>1, <3>2, <1>0, FramesSend, TypeParts DEF IInv
  <2> QED
    BY <1>c, <2>1, <2>2
<1>4. NodeInv(n)'
  <2>1. ui'[n] = Done /\ state'[n] = "InCall" /\ call'[n] = call[n]
    BY DEF Talk, IInv, TypeOK
  <2>2. UNCHANGED parties /\ accepted \subseteq accepted'
    BY <1>c DEF Talk
  <2> QED
    BY <2>1, <2>2, <1>b DEF Done, NodeInv, RingsForAnother, UiOfTheCall, TalksAccepted
<1>5. \A p \in Nodes \ {n} : SameNode(p)
  BY DEF SameNode, IInv, TypeOK, Talk, Done
<1> QED
  BY <1>1, <1>2, <1>3, <1>4, <1>5, StepOfNode

LEMMA OnInviteStep ==
    ASSUME IInv, NEW m \in Nodes, NEW n \in Nodes, OnInvite(m, n)
    PROVE  IInv'
<1>0. /\ net[m][n] # <<>> /\ Rest(m, n) \in Networks /\ Head(net[m][n]) \in Signals
      /\ FramesTrue(Rest(m, n), accepted, parties)
      /\ FrameTrue(Head(net[m][n]), m, n, accepted, parties)
  <2>1. net[m][n] # <<>>
    BY DEF OnInvite, Arrives
  <2> QED
    BY <2>1, RestType, FramesRest, TypeParts DEF IInv
<1>a. Named(m, n) \in Calls
  BY <1>0 DEF Named, Signals
<1>b. parties[Named(m, n)].from = m /\ m # n
  BY <1>0 DEF FrameTrue, Named, OnInvite, Arrives
<1>c. \/ net' = Send(Rest(m, n), n, m, "REJECT", Named(m, n))
      \/ net' = Rest(m, n)
  BY DEF OnInvite
<1>1. TypeOK'
  <2>1. net' \in Networks
    BY <1>0, <1>a, <1>c, SendType
  <2>2. /\ state' \in [Nodes -> States] /\ call' \in [Nodes -> Calls \cup {NoCall}]
        /\ peer' \in [Nodes -> Nodes \cup {NoNode}]
    <3>1. CASE UNCHANGED <<state, call, peer>>
      BY <3>1 DEF IInv, TypeOK
    <3>2. CASE /\ state' = [state EXCEPT ![n] = "Ringing"]
               /\ call' = [call EXCEPT ![n] = Named(m, n)]
               /\ peer' = [peer EXCEPT ![n] = m]
      BY <1>a, <3>2 DEF IInv, TypeOK, States
    <3> QED
      BY <3>1, <3>2 DEF OnInvite
  <2>3. UNCHANGED <<media, callTimer, endedTimer, callback, ui, parties, accepted, losses,
                    meddled>>
    BY DEF OnInvite
  <2> QED
    BY <2>1, <2>2, <2>3 DEF IInv, TypeOK, Networks
<1>2. Grown
  BY NothingGrown DEF OnInvite, Arrives, UiFree
<1>3. FramesTrue(net', accepted', parties')
  <2>1. FramesTrue(net', accepted, parties)
    BY <1>0, <1>a, <1>c, OtherFrame, FramesSend
  <2> QED
    BY <2>1 DEF OnInvite
<1>4. NodeInv(n)'
  <2>1. ui'[n] = ui[n] /\ ui[n].op = "done" /\ UNCHANGED <<parties, accepted>>
    BY DEF OnInvite, Arrives, UiFree
  <2>2. \/ UNCHANGED <<state, call, peer>>
        \/ state'[n] = "Ringing" /\ call'[n] = Named(m, n) /\ peer'[n] = m
    BY DEF OnInvite, IInv, TypeOK
  <2> QED
    BY <1>a, <1>b, <2>1, <2>2 DEF IInv, NodeInv, RingsForAnother, UiOfTheCall, TalksAccepted
<1>5. \A p \in Nodes \ {n} : SameNode(p)
  BY DEF SameNode, IInv, TypeOK, OnInvite, Arrives, UiFree
<1> QED
  BY <1>1, <1>2, <1>3, <1>4, <1>5, StepOfNode

LEMMA OnAcceptStep ==
    ASSUME IInv, NEW m \in Nodes, NEW n \in Nodes, OnAccept(m, n)
    PROVE  IInv'
<1>0. /\ net[m][n] # <<>> /\ Rest(m, n) \in Networks /\ Head(net[m][n]) \in Signals
      /\ FramesTrue(Rest(m, n), accepted, parties)
      /\ FrameTrue(Head(net[m][n]), m, n, accepted, parties)
  <2>1. net[m][n] # <<>>
    BY DEF OnAccept, Arrives
  <2> QED
    BY <2>1, RestType, FramesRest, TypeParts DEF IInv
<1>a. Named(m, n) \in Calls
  BY <1>0 DEF Named, Signals
<1>b. /\ Named(m, n) \in accepted /\ parties[Named(m, n)].from \in Nodes
      /\ call[n] = Named(m, n)
  BY <1>0 DEF FrameTrue, Named, OnAccept, Arrives, SameCall
<1>1. TypeOK'
  <2>1. Left("media", call[n], m) \in Uis
    BY <1>a, <1>b DEF Left, Uis
  <2>2. ui' \in [Nodes -> Uis]
    BY <2>1, TypeParts DEF IInv, OnAccept
  <2> QED
    BY <1>0, <2>2, CancelTimersType DEF IInv, TypeOK, Uis, Networks, OnAccept
<1>2. Grown
  BY NothingGrown DEF OnAccept, Arrives, UiFree, Left
<1>3. FramesTrue(net', accepted', parties')
  BY <1>0 DEF OnAccept
<1>4. NodeInv(n)'
  <2>1. ui'[n] = Left("media", call[n], m) /\ state[n] = "Calling"
    BY DEF OnAccept, IInv, TypeOK
  <2> QED
    BY <1>b, <2>1
    DEF Left, OnAccept, IInv, NodeInv, RingsForAnother, UiOfTheCall, TalksAccepted
<1>5. \A p \in Nodes \ {n} : SameNode(p)
  BY DEF SameNode, IInv, TypeOK, OnAccept, Arrives, UiFree, Left
<1> QED
  BY <1>1, <1>2, <1>3, <1>4, <1>5, StepOfNode

LEMMA OnRejectStep ==
    ASSUME IInv, NEW m \in Nodes, NEW n \in Nodes, OnReject(m, n)
    PROVE  IInv'
<1>0. /\ net[m][n] # <<>> /\ Rest(m, n) \in Networks /\ Head(net[m][n]) \in Signals
      /\ FramesTrue(Rest(m, n), accepted, parties)
      /\ FrameTrue(Head(net[m][n]), m, n, accepted, parties)
  <2>1. net[m][n] # <<>>
    BY DEF OnReject, Arrives
  <2> QED
    BY <2>1, RestType, FramesRest, TypeParts DEF IInv
<1>a. Named(m, n) \in Calls
  BY <1>0 DEF Named, Signals
<1>1. TypeOK'
  BY <1>0, CancelTimersType, ForgetType DEF IInv, TypeOK, Networks, OnReject, ResetState
<1>2. Grown
  BY NothingGrown DEF OnReject, ResetState, Forget
<1>3. FramesTrue(net', accepted', parties')
  BY <1>0 DEF OnReject
<1>4. NodeInv(n)'
  BY DEF IInv, TypeOK, Uis, NodeInv, RingsForAnother, UiOfTheCall, TalksAccepted, OnReject, ResetState, Forget
<1>5. \A p \in Nodes \ {n} : SameNode(p)
  BY DEF SameNode, IInv, TypeOK, OnReject, ResetState, Forget
<1> QED
  BY <1>1, <1>2, <1>3, <1>4, <1>5, StepOfNode

LEMMA OnEndStep ==
    ASSUME IInv, NEW m \in Nodes, NEW n \in Nodes, OnEnd(m, n)
    PROVE  IInv'
<1>0. /\ net[m][n] # <<>> /\ Rest(m, n) \in Networks /\ Head(net[m][n]) \in Signals
      /\ FramesTrue(Rest(m, n), accepted, parties)
      /\ FrameTrue(Head(net[m][n]), m, n, accepted, parties)
  <2>1. net[m][n] # <<>>
    BY DEF OnEnd, Arrives
  <2> QED
    BY <2>1, RestType, FramesRest, TypeParts DEF IInv
<1>a. Named(m, n) \in Calls
  BY <1>0 DEF Named, Signals
<1>1. TypeOK'
  <2>1. Left("end", NoCall, NoNode) \in Uis
    BY DEF Left, Uis
  <2>2. ui' \in [Nodes -> Uis]
    BY <2>1, TypeParts DEF IInv, OnEnd, Ended
  <2> QED
    BY <1>0, <2>2 DEF IInv, TypeOK, Uis, Networks, States, OnEnd, Ended
<1>2. Grown
  BY NothingGrown DEF OnEnd, Ended, Left
<1>3. FramesTrue(net', accepted', parties')
  BY <1>0 DEF OnEnd
<1>4. NodeInv(n)'
  BY DEF IInv, TypeOK, Uis, NodeInv, RingsForAnother, UiOfTheCall, TalksAccepted, OnEnd, Ended, Left
<1>5. \A p \in Nodes \ {n} : SameNode(p)
  BY DEF SameNode, IInv, TypeOK, OnEnd, Ended, Left
<1> QED
  BY <1>1, <1>2, <1>3, <1>4, <1>5, StepOfNode

LEMMA IgnoreStep ==
    ASSUME IInv, NEW m \in Nodes, NEW n \in Nodes, Ignore(m, n)
    PROVE  IInv'
<1>0. /\ net[m][n] # <<>> /\ Rest(m, n) \in Networks /\ Head(net[m][n]) \in Signals
      /\ FramesTrue(Rest(m, n), accepted, parties)
      /\ FrameTrue(Head(net[m][n]), m, n, accepted, parties)
  <2>1. net[m][n] # <<>>
    BY DEF Ignore, Arrives
  <2> QED
    BY <2>1, RestType, FramesRest, TypeParts DEF IInv
<1>a. Named(m, n) \in Calls
  BY <1>0 DEF Named, Signals
<1>1. TypeOK'
  BY <1>0 DEF IInv, TypeOK, Networks, Ignore, nodeVars
<1>2. Grown
  BY NothingGrown DEF Ignore, nodeVars
<1>3. FramesTrue(net', accepted', parties')
  BY <1>0 DEF Ignore
<1>4. NodeInv(n)'
  BY DEF IInv, TypeOK, Uis, NodeInv, RingsForAnother, UiOfTheCall, TalksAccepted, Ignore, nodeVars
<1>5. \A p \in Nodes \ {n} : SameNode(p)
  BY DEF SameNode, IInv, TypeOK, Ignore, nodeVars
<1> QED
  BY <1>1, <1>2, <1>3, <1>4, <1>5, StepOfNode

LEMMA TimerExpiresStep ==
    ASSUME IInv, NEW n \in Nodes, TimerExpires(n)
    PROVE  IInv'
<1>1. TypeOK'
  BY TypeParts, DoneType DEF IInv, TypeOK, Uis, Networks, States, TimerExpires
<1>2. Grown
  BY NothingGrown DEF TimerExpires
<1>3. FramesTrue(net', accepted', parties')
  BY <1>2, SameFrames DEF TimerExpires
<1>4. NodeInv(n)'
  BY DEF IInv, TypeOK, Uis, NodeInv, RingsForAnother, UiOfTheCall, TalksAccepted, TimerExpires
<1>5. \A p \in Nodes \ {n} : SameNode(p)
  BY DEF SameNode, IInv, TypeOK, TimerExpires
<1> QED
  BY <1>1, <1>2, <1>3, <1>4, <1>5, StepOfNode

LEMMA TimerResetsStep ==
    ASSUME IInv, NEW n \in Nodes, TimerResets(n)
    PROVE  IInv'
<1>1. TypeOK'
  BY ForgetType DEF IInv, TypeOK, TimerResets
<1>2. Grown
  BY NothingGrown DEF TimerResets, Forget
<1>3. FramesTrue(net', accepted', parties')
  BY <1>2, SameFrames DEF TimerResets, Forget
<1>4. NodeInv(n)'
  BY DEF IInv, TypeOK, Uis, NodeInv, RingsForAnother, UiOfTheCall, TalksAccepted, TimerResets, Forget
<1>5. \A p \in Nodes \ {n} : SameNode(p)
  BY DEF SameNode, IInv, TypeOK, TimerResets, Forget
<1> QED
  BY <1>1, <1>2, <1>3, <1>4, <1>5, StepOfNode

LEMMA LoseLinkStep ==
    ASSUME IInv, NEW n \in Nodes, NEW m \in Nodes, LoseLink(n, m)
    PROVE  IInv'
<1>1. TypeOK'
  <2>1. net' \in Networks
    <3>1. net \in [Nodes -> [Nodes -> Seq(Signals)]] /\ <<>> \in Seq(Signals)
      BY TypeParts DEF IInv, Networks
    <3>2. [net EXCEPT ![n][m] = <<>>] \in [Nodes -> [Nodes -> Seq(Signals)]]
      BY <3>1
    <3>3. net' = [[net EXCEPT ![n][m] = <<>>] EXCEPT ![m][n] = <<>>]
      BY DEF LoseLink
    <3> QED
      BY <3>1, <3>2, <3>3 DEF Networks
  <2>2. losses' \in 0 .. MaxLosses
    BY CallAssumption DEF IInv, TypeOK, LoseLink
  <2> QED
    BY <2>1, <2>2 DEF IInv, TypeOK, Networks, LoseLink, nodeVars
<1>2. Grown
  BY NothingGrown DEF LoseLink, nodeVars
<1>3. FramesTrue(net', accepted', parties')
  <2>1. ASSUME NEW a \in Nodes, NEW b \in Nodes, NEW k \in 1 .. Len(net'[a][b])
        PROVE  FrameTrue(net'[a][b][k], a, b, accepted, parties)
    <3>1. net'[a][b] = <<>> \/ net'[a][b] = net[a][b]
      BY TypeParts DEF IInv, LoseLink, Networks
    <3> QED
      BY <3>1 DEF IInv, FramesTrue
  <2>2. FramesTrue(net', accepted, parties)
    BY <2>1 DEF FramesTrue
  <2> QED
    BY <2>2 DEF LoseLink
<1>4. NodeInv(n)'
  BY DEF IInv, TypeOK, Uis, NodeInv, RingsForAnother, UiOfTheCall, TalksAccepted, LoseLink, nodeVars
<1>5. \A p \in Nodes \ {n} : SameNode(p)
  BY DEF SameNode, IInv, TypeOK, LoseLink, nodeVars
<1> QED
  BY <1>1, <1>2, <1>3, <1>4, <1>5, StepOfNode

-----------------------------------------------------------------------------

LEMMA InitInv == Init => IInv
<1> SUFFICES ASSUME Init PROVE IInv
  OBVIOUS
<1>1. TypeOK
  BY CallAssumption, DoneType DEF Init, TypeOK, States, Nobody, Uis
<1>2. FramesTrue(net, accepted, parties)
  BY DEF Init, FramesTrue
<1>3. ASSUME NEW n \in Nodes PROVE NodeInv(n)
  BY DEF Init, Done, NodeInv, RingsForAnother, UiOfTheCall, TalksAccepted
<1> QED
  BY <1>1, <1>2, <1>3 DEF IInv

LEMMA NextInv == IInv /\ [Next]_vars => IInv'
<1> SUFFICES ASSUME IInv, [Next]_vars PROVE IInv'
  OBVIOUS
<1>1. ASSUME NEW n \in Nodes, User(n) PROVE IInv'
  BY <1>1, InitiateCallStep, AcceptCallStep, RejectCallStep, EndCallStep DEF User
<1>2. ASSUME NEW n \in Nodes, Continue(n) PROVE IInv'
  BY <1>2, SendInviteStep, ArmEndedTimerStep, MediaDoesNotStartStep, MediaStartsStep, TalkStep
  DEF Continue
<1>3. ASSUME NEW n \in Nodes, TimerExpires(n) \/ TimerResets(n) PROVE IInv'
  BY <1>3, TimerExpiresStep, TimerResetsStep
<1>4. ASSUME NEW m \in Nodes, NEW n \in Nodes, Signaling(m, n) PROVE IInv'
  BY <1>4, OnInviteStep, OnAcceptStep, OnRejectStep, OnEndStep, IgnoreStep DEF Signaling
<1>5. ASSUME NEW m \in Nodes, NEW n \in Nodes, LoseLink(m, n) PROVE IInv'
  BY <1>5, LoseLinkStep
<1>6. CASE UNCHANGED vars
  BY <1>6 DEF vars, nodeVars, IInv, TypeOK, NodeInv, RingsForAnother, UiOfTheCall, TalksAccepted
<1> QED
  BY <1>1, <1>2, <1>3, <1>4, <1>5, <1>6 DEF Next

LEMMA Invariance == Spec => []IInv
BY InitInv, NextInv, PTL DEF Spec

\* The members of CallManager and the frames between nodes always have their types.
THEOREM TypeCorrect == Spec => []TypeOK
<1>1. IInv => TypeOK
  BY DEF IInv
<1> QED
  BY <1>1, Invariance, PTL

\* handleSignaling: whatever frames are late or lost, whatever timers race with them, a
\* caller is in a call only if its callee accepted that call.
THEOREM AcceptorTalks == Spec => []CallerTalksToAcceptor
<1>1. IInv => CallerTalksToAcceptor
  BY DEF IInv, NodeInv, TalksAccepted, CallerTalksToAcceptor
<1> QED
  BY <1>1, Invariance, PTL

-----------------------------------------------------------------------------
(* A call is on its way to the callee's answer in one place at a time: about   *)
(* to be announced, in a frame, ringing, or being answered.                    *)

InviteAt(w, i, a, b, k) == k \in 1 .. Len(w[a][b]) /\ w[a][b][k] = [type |-> "INVITE", call |-> i]
OnWire(w, i) == \E a, b \in Nodes : \E k \in 1 .. Len(w[a][b]) : InviteAt(w, i, a, b, k)

\* Invitations go from the caller to the callee, and there are no two of one call.
WireInv(w, par) ==
    \A i \in Calls : \A a, b \in Nodes : \A k \in 1 .. Len(w[a][b]) :
        InviteAt(w, i, a, b, k) =>
            /\ par[i].from = a /\ par[i].to = b
            /\ \A l \in 1 .. Len(w[a][b]) : InviteAt(w, i, a, b, l) => l = k

Announces(n, i) == ui[n].op = "invite" /\ ui[n].call = i
RingsFor(n, i) == state[n] = "Ringing" /\ call[n] = i
Answers(n, i) == ui[n].op \in {"media", "talk"} /\ ui[n].call = i /\ parties[i].to = n

CallInv(i) ==
    /\ parties[i] = Nobody \/ (/\ parties[i].from \in Nodes /\ parties[i].to \in Nodes
                               /\ parties[i].from # parties[i].to)
    /\ i \in accepted => parties[i] # Nobody
    /\ OnWire(net, i) => i \notin accepted
    /\ \A n \in Nodes :
          /\ Announces(n, i) => /\ parties[i] = [from |-> n, to |-> ui[n].peer]
                                /\ i \notin accepted /\ ~OnWire(net, i)
                                /\ \A m \in Nodes : ~RingsFor(m, i) /\ ~Answers(m, i)
          /\ RingsFor(n, i) => parties[i].to = n /\ i \notin accepted /\ ~OnWire(net, i)
          /\ Answers(n, i) => i \notin accepted /\ ~OnWire(net, i)

\* Who is about to enter a call is in none, and who calls does so in a call of its own.
NotYetIn(n) == ui[n].op \in {"media", "talk"} => state[n] # "InCall"

CallsOwn(n) == state[n] = "Calling" => call[n] \in Calls /\ parties[call[n]].from = n

OnceInv ==
    /\ WireInv(net, parties)
    /\ \A i \in Calls : CallInv(i)
    /\ \A n \in Nodes : NotYetIn(n) /\ CallsOwn(n)

-----------------------------------------------------------------------------
(* The wire. *)

LEMMA SendWire ==
    ASSUME NEW w \in Networks, NEW par, WireInv(w, par), NEW n \in Nodes, NEW m \in Nodes,
           NEW t \in {"INVITE", "ACCEPT", "REJECT", "END"}, NEW j \in Calls,
           t = "INVITE" => par[j].from = n /\ par[j].to = m /\ ~OnWire(w, j)
    PROVE  /\ WireInv(Send(w, n, m, t, j), par)
           /\ \A i \in Calls : OnWire(Send(w, n, m, t, j), i) =>
                                  OnWire(w, i) \/ (t = "INVITE" /\ i = j)
<1> DEFINE f == [type |-> t, call |-> j]
           v == Send(w, n, m, t, j)
<1>1. ASSUME NEW i \in Calls, NEW a \in Nodes, NEW b \in Nodes, NEW k \in 1 .. Len(v[a][b]),
             InviteAt(v, i, a, b, k)
      PROVE  \/ k \in 1 .. Len(w[a][b]) /\ InviteAt(w, i, a, b, k)
             \/ a = n /\ b = m /\ t = "INVITE" /\ i = j /\ k = Len(w[a][b]) + 1
  <2>1. v[a][b] = IF a = n /\ b = m THEN Append(w[n][m], f) ELSE w[a][b]
    BY DEF Send, Networks
  <2>2. CASE a = n /\ b = m
    <3>1. w[n][m] \in Seq(Signals) /\ f \in Signals
      BY DEF Networks, Signals
    <3>2. v[a][b] = Append(w[n][m], f)
      BY <2>1, <2>2
    <3>3. Len(v[a][b]) = Len(w[n][m]) + 1 /\ Len(w[n][m]) \in Nat
      BY <3>1, <3>2
    <3>4. CASE k = Len(w[n][m]) + 1
      <4>1. v[a][b][k] = f
        BY <3>1, <3>2, <3>4
      <4> QED
        BY <1>1, <2>2, <3>4, <4>1 DEF InviteAt
    <3>5. CASE k \in 1 .. Len(w[n][m])
      <4>1. v[a][b][k] = w[n][m][k]
        BY <3>1, <3>2, <3>5
      <4> QED
        BY <1>1, <2>2, <3>5, <4>1 DEF InviteAt
    <3> QED
      BY <3>3, <3>4, <3>5
  <2>3. CASE ~(a = n /\ b = m)
    <3>1. v[a][b] = w[a][b]
      BY <2>1, <2>3
    <3> QED
      BY <1>1, <3>1 DEF InviteAt
  <2> QED
    BY <2>2, <2>3
<1> HIDE DEF v
<1>2. \A i \in Calls : OnWire(v, i) => OnWire(w, i) \/ (t = "INVITE" /\ i = j)
  BY <1>1 DEF OnWire
<1>3. ASSUME NEW i \in Calls, NEW a \in Nodes, NEW b \in Nodes, NEW k \in 1 .. Len(v[a][b]),
             InviteAt(v, i, a, b, k)
      PROVE  /\ par[i].from = a /\ par[i].to = b
             /\ \A l \in 1 .. Len(v[a][b]) : InviteAt(v, i, a, b, l) => l = k
  <2>1. CASE k \in 1 .. Len(w[a][b]) /\ InviteAt(w, i, a, b, k)
    <3>1. par[i].from = a /\ par[i].to = b
      BY <2>1 DEF WireInv
    <3>2. OnWire(w, i)
      BY <2>1 DEF OnWire
    <3>3. ASSUME NEW l \in 1 .. Len(v[a][b]), InviteAt(v, i, a, b, l) PROVE l = k
      <4>1. l \in 1 .. Len(w[a][b]) /\ InviteAt(w, i, a, b, l)
        BY <1>1, <3>2, <3>3
      <4> QED
        BY <2>1, <4>1 DEF WireInv
    <3> QED
      BY <3>1, <3>3
  <2>2. CASE a = n /\ b = m /\ t = "INVITE" /\ i = j /\ k = Len(w[a][b]) + 1
    <3>1. ASSUME NEW l \in 1 .. Len(v[a][b]), InviteAt(v, i, a, b, l) PROVE l = k
      <4>1. ~(l \in 1 .. Len(w[a][b]) /\ InviteAt(w, i, a, b, l))
        BY <2>2 DEF OnWire
      <4> QED
        BY <1>1, <2>2, <3>1, <4>1
    <3> QED
      BY <2>2, <3>1
  <2> QED
    BY <1>1, <1>3, <2>1, <2>2
<1>4. WireInv(v, par)
  BY <1>3 DEF WireInv
<1> QED
  BY <1>2, <1>4 DEF v

LEMMA RestWire ==
    ASSUME net \in Networks, WireInv(net, parties), NEW m \in Nodes, NEW n \in Nodes,
           net[m][n] # <<>>
    PROVE  /\ WireInv(Rest(m, n), parties)
           /\ \A i \in Calls : OnWire(Rest(m, n), i) => OnWire(net, i)
           /\ \A i \in Calls : Head(net[m][n]) = [type |-> "INVITE", call |-> i] =>
                 /\ parties[i].from = m /\ parties[i].to = n /\ OnWire(net, i)
                 /\ ~OnWire(Rest(m, n), i)
<1> DEFINE s == net[m][n]
           v == Rest(m, n)
<1>1. s \in Seq(Signals) /\ s # <<>>
  BY DEF Networks
<1>2. ASSUME NEW i \in Calls, NEW a \in Nodes, NEW b \in Nodes, NEW k \in 1 .. Len(v[a][b]),
             InviteAt(v, i, a, b, k)
      PROVE  \E q \in 1 .. Len(net[a][b]) :
                /\ InviteAt(net, i, a, b, q)
                /\ q = IF a = m /\ b = n THEN k + 1 ELSE k
  <2>1. v[a][b] = IF a = m /\ b = n THEN Tail(s) ELSE net[a][b]
    BY DEF Rest, Networks
  <2>2. CASE a = m /\ b = n
    <3>1. v[a][b] = Tail(s)
      BY <2>1, <2>2
    <3>2. v[a][b][k] = s[k + 1] /\ k + 1 \in 1 .. Len(s)
      BY <1>1, <3>1
    <3> QED
      BY <1>2, <2>2, <3>2 DEF InviteAt
  <2>3. CASE ~(a = m /\ b = n)
    <3>1. v[a][b] = net[a][b]
      BY <2>1, <2>3
    <3> QED
      BY <1>2, <2>3, <3>1 DEF InviteAt
  <2> QED
    BY <2>2, <2>3
<1> HIDE DEF v
<1>3. \A i \in Calls : OnWire(v, i) => OnWire(net, i)
  BY <1>2 DEF OnWire
<1>4. ASSUME NEW i \in Calls, NEW a \in Nodes, NEW b \in Nodes, NEW k \in 1 .. Len(v[a][b]),
             InviteAt(v, i, a, b, k)
      PROVE  /\ parties[i].from = a /\ parties[i].to = b
             /\ \A l \in 1 .. Len(v[a][b]) : InviteAt(v, i, a, b, l) => l = k
  <2>1. PICK q \in 1 .. Len(net[a][b]) :
           /\ InviteAt(net, i, a, b, q)
           /\ q = IF a = m /\ b = n THEN k + 1 ELSE k
    BY <1>2, <1>4
  <2>2. ASSUME NEW l \in 1 .. Len(v[a][b]), InviteAt(v, i, a, b, l) PROVE l = k
    <3>1. PICK r \in 1 .. Len(net[a][b]) :
             /\ InviteAt(net, i, a, b, r)
             /\ r = IF a = m /\ b = n THEN l + 1 ELSE l
      BY <1>2, <2>2
    <3>2. r = q
      BY <2>1, <3>1 DEF WireInv
    <3> QED
      BY <2>1, <3>1, <3>2
  <2> QED
    BY <2>1, <2>2 DEF WireInv
<1>5. ASSUME NEW i \in Calls, Head(s) = [type |-> "INVITE", call |-> i]
      PROVE  /\ parties[i].from = m /\ parties[i].to = n /\ OnWire(net, i)
             /\ ~OnWire(v, i)
  <2>1. 1 \in 1 .. Len(s) /\ InviteAt(net, i, m, n, 1)
    BY <1>1, <1>5 DEF InviteAt
  <2>2. parties[i].from = m /\ parties[i].to = n
    BY <2>1 DEF WireInv
  <2>3. ASSUME NEW a \in Nodes, NEW b \in Nodes, NEW k \in 1 .. Len(v[a][b]),
               InviteAt(v, i, a, b, k)
        PROVE  FALSE
    <3>1. a = m /\ b = n
      BY <1>4, <2>2, <2>3
    <3>2. PICK q \in 1 .. Len(s) : InviteAt(net, i, m, n, q) /\ q = k + 1
      BY <1>2, <2>3, <3>1
    <3>3. q = 1
      BY <2>1, <3>2 DEF WireInv
    <3> QED
      BY <3>2, <3>3
  <2> QED
    BY <2>1, <2>2, <2>3 DEF OnWire
<1>6. WireInv(v, parties)
  BY <1>4 DEF WireInv
<1> QED
  BY <1>3, <1>5, <1>6 DEF v

-----------------------------------------------------------------------------
(* The nodes. *)

\* What n has left to do, and what rings there, is not new.
NothingNew(n) ==
    /\ ui'[n].op \in {"invite", "media", "talk"} =>
          /\ ui'[n].call = ui[n].call /\ ui'[n].peer = ui[n].peer
          /\ \/ ui[n].op = "invite" /\ ui'[n].op = "invite"
             \/ ui[n].op \in {"media", "talk"} /\ ui'[n].op \in {"media", "talk"}
    /\ state'[n] \in {"Ringing", "Calling"} => state[n] = state'[n] /\ call'[n] = call[n]
    /\ NotYetIn(n)'

LEMMA SameNothingNew ==
    ASSUME NEW n, NotYetIn(n), state'[n] = state[n], call'[n] = call[n], ui'[n] = ui[n]
    PROVE  NothingNew(n)
BY DEF NothingNew, NotYetIn

\* A step that invites nobody and answers nothing.
LEMMA NothingNewStep ==
    ASSUME OnceInv, UNCHANGED <<parties, accepted>>,
           WireInv(net', parties'), \A i \in Calls : OnWire(net', i) => OnWire(net, i),
           \A n \in Nodes : NothingNew(n)
    PROVE  OnceInv'
<1>1. ASSUME NEW i \in Calls, NEW n \in Nodes
      PROVE  /\ Announces(n, i)' => Announces(n, i) /\ ui'[n].peer = ui[n].peer
             /\ RingsFor(n, i)' => RingsFor(n, i)
             /\ Answers(n, i)' => Answers(n, i)
  BY DEF NothingNew, Announces, RingsFor, Answers
<1>2. ASSUME NEW i \in Calls
      PROVE  CallInv(i)'
  <2>1. /\ parties'[i] = parties[i] /\ (i \in accepted' <=> i \in accepted)
        /\ OnWire(net', i) => OnWire(net, i)
        /\ CallInv(i)
    BY DEF OnceInv
  <2>2. OnWire(net, i)' <=> OnWire(net', i)
    BY DEF OnWire, InviteAt
  <2> QED
    BY <1>1, <2>1, <2>2 DEF CallInv
<1>3. WireInv(net, parties)'
  BY DEF WireInv, InviteAt
<1>4. \A n \in Nodes : NotYetIn(n)' /\ CallsOwn(n)'
  BY DEF OnceInv, NothingNew, CallsOwn
<1> QED
  BY <1>2, <1>3, <1>4 DEF OnceInv

\* A step of one node that invites nobody and answers nothing.
LEMMA StepOfOne ==
    ASSUME OnceInv, UNCHANGED <<parties, accepted>>, NEW n \in Nodes,
           WireInv(net', parties'), \A i \in Calls : OnWire(net', i) => OnWire(net, i),
           NothingNew(n),
           \A p \in Nodes \ {n} : state'[p] = state[p] /\ call'[p] = call[p] /\ ui'[p] = ui[p]
    PROVE  OnceInv'
<1>1. \A p \in Nodes : NothingNew(p)
  BY SameNothingNew DEF OnceInv
<1> QED
  BY <1>1, NothingNewStep

LEMMA SameWire ==
    ASSUME OnceInv, UNCHANGED <<net, parties>>
    PROVE  WireInv(net', parties') /\ \A i \in Calls : OnWire(net', i) => OnWire(net, i)
BY DEF OnceInv

LEMMA UiType ==
    ASSUME TypeOK, NEW n \in Nodes
    PROVE  /\ ui[n].op \in {"invite", "media", "talk"} =>
                 ui[n].call \in Calls /\ ui[n].peer \in Nodes
           /\ call[n] = NoCall \/ call[n] \in Calls
           /\ net \in Networks
<1>1. ui[n] \in Uis
  BY DEF TypeOK, Uis
<1> QED
  BY <1>1 DEF Uis, TypeOK, Networks

LEMMA InitiateCallOnce ==
    ASSUME IInv, OnceInv, NEW n \in Nodes, NEW p \in Nodes, InitiateCall(n, p)
    PROVE  OnceInv'
<1>1. PICK j \in Calls :
         /\ parties[j] = Nobody
         /\ parties' = [parties EXCEPT ![j] = [from |-> n, to |-> p]]
         /\ state' = [state EXCEPT ![n] = "Calling"]
         /\ call' = [call EXCEPT ![n] = j]
         /\ ui' = [ui EXCEPT ![n] = Left("invite", j, p)]
  BY DEF InitiateCall
<1>2. ui[n].op = "done" /\ p # n /\ UNCHANGED <<accepted, net>>
  BY DEF InitiateCall, UiFree
<1>t. TypeOK /\ NoNode \notin Nodes
  BY CallAssumption DEF IInv
<1>3. /\ ui'[n] = [op |-> "invite", call |-> j, peer |-> p]
      /\ state'[n] = "Calling" /\ call'[n] = j
      /\ \A m \in Nodes \ {n} : ui'[m] = ui[m] /\ state'[m] = state[m] /\ call'[m] = call[m]
      /\ parties'[j] = [from |-> n, to |-> p]
      /\ \A i \in Calls \ {j} : parties'[i] = parties[i]
  BY <1>1, <1>t DEF TypeOK, Left
<1>4. /\ parties[j].to = NoNode /\ parties[j].from = NoNode
      /\ j \notin accepted
  BY <1>1 DEF OnceInv, CallInv, Nobody
<1>5. ~OnWire(net, j)
  BY <1>4, <1>t DEF OnceInv, WireInv, OnWire
<1>6. \A m \in Nodes : ~RingsFor(m, j) /\ ~Answers(m, j) /\ ~Announces(m, j)
  <2> TAKE m \in Nodes
  <2>1. CallInv(j) /\ m # NoNode
    BY <1>t DEF OnceInv
  <2>2. ~RingsFor(m, j)
    BY <1>4, <2>1 DEF CallInv
  <2>4. ~Announces(m, j)
    <3> SUFFICES ASSUME Announces(m, j) PROVE FALSE
      OBVIOUS
    <3>1. parties[j] = [from |-> m, to |-> ui[m].peer]
      BY <2>1 DEF CallInv
    <3>2. parties[j].from = m
      BY <3>1
    <3> QED
      BY <1>4, <2>1, <3>2
  <2>3. ~Answers(m, j)
    BY <1>4, <2>1 DEF Answers
  <2> QED
    BY <2>2, <2>3, <2>4
<1>7. CallInv(j)'
  <2>1. \A m \in Nodes : ~RingsFor(m, j)'
    BY <1>3, <1>6 DEF RingsFor
  <2>2. \A m \in Nodes : ~Answers(m, j)'
    <3> SUFFICES ASSUME NEW m \in Nodes, Answers(m, j)' PROVE FALSE
      OBVIOUS
    <3>1. m # n
      BY <1>3 DEF Answers
    <3>2. ui[m].op \in {"media", "talk"} /\ ui[m].call = j
      BY <1>3, <3>1 DEF Answers
    <3>3. parties[j].from \in Nodes
      BY <3>2 DEF IInv, NodeInv, UiOfTheCall
    <3> QED
      BY <1>4, <1>t, <3>3
  <2>3. \A m \in Nodes : Announces(m, j)' => m = n
    BY <1>3, <1>6 DEF Announces
  <2>4. ~OnWire(net, j)'
    BY <1>2, <1>5 DEF OnWire, InviteAt
  <2> QED
    BY <1>2, <1>3, <1>4, <2>1, <2>2, <2>3, <2>4 DEF CallInv
<1>8. ASSUME NEW i \in Calls \ {j}
      PROVE  CallInv(i)'
  <2>1. \A m \in Nodes : /\ Announces(m, i)' => Announces(m, i) /\ ui'[m].peer = ui[m].peer
                         /\ RingsFor(m, i)' => RingsFor(m, i)
                         /\ Answers(m, i)' => Answers(m, i)
    BY <1>3, <1>8 DEF Announces, RingsFor, Answers
  <2>2. parties'[i] = parties[i] /\ (OnWire(net, i)' <=> OnWire(net, i))
    BY <1>2, <1>3 DEF OnWire, InviteAt
  <2>3. CallInv(i)
    BY DEF OnceInv
  <2> QED
    BY <1>2, <2>1, <2>2, <2>3 DEF CallInv
<1>9. WireInv(net, parties)'
  <2> SUFFICES ASSUME NEW i \in Calls, NEW a \in Nodes, NEW b \in Nodes,
                      NEW k \in 1 .. Len(net[a][b]), InviteAt(net, i, a, b, k)
               PROVE  /\ parties'[i].from = a /\ parties'[i].to = b
                      /\ \A l \in 1 .. Len(net[a][b]) : InviteAt(net, i, a, b, l) => l = k
    BY <1>2 DEF WireInv, InviteAt
  <2>1. i # j
    BY <1>5 DEF OnWire
  <2> QED
    BY <1>3, <2>1 DEF OnceInv, WireInv
<1>10. ASSUME NEW m \in Nodes PROVE NotYetIn(m)' /\ CallsOwn(m)'
  <2>1. CASE m = n
    BY <1>3, <2>1 DEF NotYetIn, CallsOwn
  <2>2. CASE m # n
    <3>1. NotYetIn(m) /\ CallsOwn(m)
      BY DEF OnceInv
    <3>2. state[m] = "Calling" => call[m] # j
      BY <1>4, <1>t, <3>1 DEF CallsOwn
    <3> QED
      BY <1>3, <2>2, <3>1, <3>2 DEF NotYetIn, CallsOwn
  <2> QED
    BY <2>1, <2>2
<1> QED
  BY <1>7, <1>8, <1>9, <1>10 DEF OnceInv

LEMMA SendInviteOnce ==
    ASSUME IInv, OnceInv, NEW n \in Nodes, SendInvite(n)
    PROVE  OnceInv'
<1>1. PICK j \in Calls, q \in Nodes :
      /\ ui[n].op = "invite" /\ ui[n].call = j /\ ui[n].peer = q
      /\ net' = Send(net, n, q, "INVITE", j)
      /\ UNCHANGED <<state, call, parties, accepted>>
  BY UiType DEF SendInvite, IInv
<1>2. ui'[n].op = "done" /\ \A m \in Nodes \ {n} : ui'[m] = ui[m]
  BY DEF SendInvite, Done, IInv, TypeOK
<1>3. /\ parties[j] = [from |-> n, to |-> q] /\ j \notin accepted /\ ~OnWire(net, j)
      /\ \A m \in Nodes : ~RingsFor(m, j) /\ ~Answers(m, j)
  BY <1>1 DEF OnceInv, CallInv, Announces
<1>4. /\ WireInv(net', parties)
      /\ \A i \in Calls : OnWire(net', i) => OnWire(net, i) \/ i = j
  BY <1>1, <1>3, SendWire, UiType DEF OnceInv, IInv
<1>5. ASSUME NEW i \in Calls PROVE CallInv(i)'
  <2>1. \A m \in Nodes : /\ Announces(m, i)' => /\ Announces(m, i) /\ m # n
                                                /\ ui'[m].peer = ui[m].peer
                         /\ RingsFor(m, i)' => RingsFor(m, i)
                         /\ Answers(m, i)' => Answers(m, i)
    BY <1>1, <1>2 DEF Announces, RingsFor, Answers
  <2>2. OnWire(net, i)' <=> OnWire(net', i)
    BY DEF OnWire, InviteAt
  <2>5. CallInv(i)
    BY DEF OnceInv
  <2>3. CASE i = j
    <3>1. \A m \in Nodes : ~Announces(m, j)'
      <4> SUFFICES ASSUME NEW m \in Nodes, Announces(m, j)' PROVE FALSE
        OBVIOUS
      <4>1. m # n /\ Announces(m, j)
        BY <2>1, <2>3
      <4>2. parties[j] = [from |-> m, to |-> ui[m].peer]
        BY <2>3, <2>5, <4>1 DEF CallInv
      <4>3. parties[j].from = m /\ parties[j].from = n
        BY <1>3, <4>2
      <4> QED
        BY <4>1, <4>3
    <3>2. \A m \in Nodes : ~RingsFor(m, j)' /\ ~Answers(m, j)'
      BY <1>3, <2>1, <2>3
    <3>3. parties'[j] = parties[j] /\ accepted' = accepted
      BY <1>1
    <3> QED
      BY <1>3, <2>3, <2>5, <3>1, <3>2, <3>3 DEF CallInv
  <2>4. CASE i # j
    <3>1. OnWire(net, i)' => OnWire(net, i)
      BY <1>4, <2>2, <2>4
    <3>2. parties'[i] = parties[i] /\ accepted' = accepted
      BY <1>1
    <3> QED
      BY <2>1, <2>5, <3>1, <3>2 DEF CallInv
  <2> QED
    BY <2>3, <2>4
<1>6. WireInv(net, parties)'
  BY <1>1, <1>4 DEF WireInv, InviteAt
<1>7. \A m \in Nodes : NotYetIn(m)' /\ CallsOwn(m)'
  BY <1>1, <1>2 DEF OnceInv, NotYetIn, CallsOwn
<1> QED
  BY <1>5, <1>6, <1>7 DEF OnceInv

LEMMA AcceptCallOnce ==
    ASSUME IInv, OnceInv, NEW n \in Nodes, AcceptCall(n)
    PROVE  OnceInv'
<1>1. PICK j \in Calls : /\ RingsFor(n, j) /\ ui[n].op = "done"
                         /\ ui' = [ui EXCEPT ![n] = Left("media", j, peer[n])]
                         /\ UNCHANGED <<state, call, parties, accepted, net>>
  BY DEF AcceptCall, UiFree, RingsFor, IInv, NodeInv, RingsForAnother
<1>2. /\ ui'[n].op = "media" /\ ui'[n].call = j
      /\ \A m \in Nodes \ {n} : ui'[m] = ui[m]
  BY <1>1 DEF IInv, TypeOK, Left
<1>3. CallInv(j)
  BY DEF OnceInv
<1>4. parties[j].to = n /\ j \notin accepted /\ ~OnWire(net, j)
      /\ \A m \in Nodes : ~Announces(m, j)
  BY <1>1, <1>3 DEF CallInv
<1>5. ASSUME NEW i \in Calls PROVE CallInv(i)'
  <2>1. \A m \in Nodes :
           /\ Announces(m, i)' => Announces(m, i) /\ ui'[m].peer = ui[m].peer
           /\ RingsFor(m, i)' => RingsFor(m, i)
           /\ Answers(m, i)' => Answers(m, i) \/ i = j
    BY <1>1, <1>2 DEF Announces, RingsFor, Answers
  <2>2. /\ OnWire(net, i)' <=> OnWire(net, i)
        /\ parties'[i] = parties[i] /\ accepted' = accepted
    BY <1>1 DEF OnWire, InviteAt
  <2>3. CallInv(i)
    BY DEF OnceInv
  <2>4. CASE i = j
    <3>1. \A m \in Nodes : ~Announces(m, i)'
      BY <1>4, <2>1, <2>4
    <3> QED
      BY <1>4, <2>1, <2>2, <2>3, <2>4, <3>1 DEF CallInv
  <2>5. CASE i # j
    BY <2>1, <2>2, <2>3, <2>5 DEF CallInv
  <2> QED
    BY <2>4, <2>5
<1>6. WireInv(net, parties)'
  BY <1>1 DEF OnceInv, WireInv, InviteAt
<1>7. \A m \in Nodes : NotYetIn(m)' /\ CallsOwn(m)'
  BY <1>1, <1>2 DEF OnceInv, NotYetIn, CallsOwn, RingsFor
<1> QED
  BY <1>5, <1>6, <1>7 DEF OnceInv

LEMMA OnAcceptOnce ==
    ASSUME IInv, OnceInv, NEW m \in Nodes, NEW n \in Nodes, OnAccept(m, n)
    PROVE  OnceInv'
<1>1. /\ net[m][n] # <<>> /\ net' = Rest(m, n) /\ net \in Networks
      /\ UNCHANGED <<state, call, parties, accepted>>
      /\ state[n] = "Calling" /\ ui[n].op = "done"
      /\ ui' = [ui EXCEPT ![n] = Left("media", call[n], m)]
  BY UiType DEF OnAccept, Arrives, UiFree, IInv
<1>2. call[n] \in Calls /\ call[n] \in accepted
  <2>1. /\ Head(net[m][n]) \in Signals
        /\ FrameTrue(Head(net[m][n]), m, n, accepted, parties)
    BY <1>1, RestType, FramesRest DEF IInv
  <2> QED
    BY <2>1 DEF OnAccept, Arrives, SameCall, Named, FrameTrue, Signals
<1>3. /\ ui'[n].op = "media" /\ ui'[n].call = call[n]
      /\ \A p \in Nodes \ {n} : ui'[p] = ui[p]
  BY <1>1 DEF IInv, TypeOK, Left
<1>4. parties[call[n]].to # n
  BY <1>1, <1>2 DEF OnceInv, CallInv, CallsOwn, Nobody
<1>5. /\ WireInv(net', parties)
      /\ \A i \in Calls : OnWire(net', i) => OnWire(net, i)
  BY <1>1, RestWire DEF OnceInv
<1>6. ASSUME NEW i \in Calls PROVE CallInv(i)'
  <2>1. \A p \in Nodes :
           /\ Announces(p, i)' => Announces(p, i) /\ ui'[p].peer = ui[p].peer
           /\ RingsFor(p, i)' => RingsFor(p, i)
           /\ Answers(p, i)' => Answers(p, i)
    BY <1>1, <1>3, <1>4 DEF Announces, RingsFor, Answers
  <2>2. /\ OnWire(net, i)' => OnWire(net, i)
        /\ parties'[i] = parties[i] /\ accepted' = accepted
    BY <1>1, <1>5 DEF OnWire, InviteAt
  <2>3. CallInv(i)
    BY DEF OnceInv
  <2> QED
    BY <2>1, <2>2, <2>3 DEF CallInv
<1>7. WireInv(net, parties)'
  BY <1>1, <1>5 DEF WireInv, InviteAt
<1>8. \A p \in Nodes : NotYetIn(p)' /\ CallsOwn(p)'
  BY <1>1, <1>3 DEF OnceInv, NotYetIn, CallsOwn
<1> QED
  BY <1>6, <1>7, <1>8 DEF OnceInv

LEMMA OnInviteOnce ==
    ASSUME IInv, OnceInv, NEW m \in Nodes, NEW n \in Nodes, OnInvite(m, n)
    PROVE  OnceInv'
<1>1. /\ net[m][n] # <<>> /\ net \in Networks /\ Rest(m, n) \in Networks
      /\ UNCHANGED <<ui, parties, accepted>> /\ ui[n].op = "done"
      /\ Head(net[m][n]) \in Signals /\ Head(net[m][n]).type = "INVITE"
  BY UiType, RestType DEF OnInvite, Arrives, UiFree, IInv
<1>2. PICK j \in Calls : Head(net[m][n]) = [type |-> "INVITE", call |-> j]
  BY <1>1 DEF Signals
<1>3. /\ WireInv(Rest(m, n), parties)
      /\ \A i \in Calls : OnWire(Rest(m, n), i) => OnWire(net, i)
      /\ parties[j].from = m /\ parties[j].to = n
      /\ OnWire(net, j) /\ ~OnWire(Rest(m, n), j)
  BY <1>1, <1>2, RestWire DEF OnceInv
<1>4. CASE state[n] # "Idle" /\ net' = Send(Rest(m, n), n, m, "REJECT", Named(m, n))
                           /\ UNCHANGED <<state, call>>
  <2>1. Named(m, n) = j
    BY <1>2 DEF Named
  <2>2. /\ WireInv(net', parties)
        /\ \A i \in Calls : OnWire(net', i) => OnWire(Rest(m, n), i)
    BY <1>1, <1>3, <1>4, <2>1, SendWire
  <2>3. NothingNew(n)
    BY <1>1, <1>4 DEF NothingNew, NotYetIn
  <2> QED
    BY <1>1, <1>3, <1>4, <2>2, <2>3, StepOfOne
<1>5. CASE /\ state[n] = "Idle" /\ net' = Rest(m, n)
           /\ state' = [state EXCEPT ![n] = "Ringing"]
           /\ call' = [call EXCEPT ![n] = Named(m, n)]
  <2>1. /\ state'[n] = "Ringing" /\ call'[n] = j
        /\ \A p \in Nodes \ {n} : state'[p] = state[p] /\ call'[p] = call[p]
    BY <1>2, <1>5 DEF IInv, TypeOK, Named
  <2>2. CallInv(j)
    BY DEF OnceInv
  <2>3. /\ j \notin accepted
        /\ \A p \in Nodes : ~Announces(p, j) /\ ~Answers(p, j)
    BY <1>3, <2>2 DEF CallInv
  <2>4. ASSUME NEW i \in Calls PROVE CallInv(i)'
    <3>1. \A p \in Nodes :
             /\ Announces(p, i)' => Announces(p, i) /\ ui'[p].peer = ui[p].peer
             /\ RingsFor(p, i)' => RingsFor(p, i) \/ (i = j /\ p = n)
             /\ Answers(p, i)' => Answers(p, i)
      BY <1>1, <2>1 DEF Announces, RingsFor, Answers
    <3>2. /\ OnWire(net, i)' => OnWire(net, i) /\ i # j
          /\ parties'[i] = parties[i] /\ accepted' = accepted
      <4>1. OnWire(net, i)' <=> OnWire(net', i)
        BY DEF OnWire, InviteAt
      <4>2. OnWire(net', i) => OnWire(net, i) /\ i # j
        BY <1>3, <1>5
      <4> QED
        BY <1>1, <4>1, <4>2
    <3>3. CallInv(i)
      BY DEF OnceInv
    <3>4. CASE i = j
      <4>1. \A p \in Nodes : ~Announces(p, i)' /\ ~Answers(p, i)'
        BY <2>3, <3>1, <3>4
      <4> QED
        BY <1>3, <2>3, <3>1, <3>2, <3>3, <3>4, <4>1 DEF CallInv
    <3>5. CASE i # j
      BY <3>1, <3>2, <3>3, <3>5 DEF CallInv
    <3> QED
      BY <3>4, <3>5
  <2>5. WireInv(net, parties)'
    BY <1>1, <1>3, <1>5 DEF WireInv, InviteAt
  <2>6. \A p \in Nodes : NotYetIn(p)' /\ CallsOwn(p)'
    BY <1>1, <2>1 DEF OnceInv, NotYetIn, CallsOwn
  <2> QED
    BY <2>4, <2>5, <2>6 DEF OnceInv
<1> QED
  BY <1>4, <1>5 DEF OnInvite

LEMMA TalkOnce ==
    ASSUME IInv, OnceInv, NEW n \in Nodes, Talk(n)
    PROVE  /\ OnceInv'
           /\ ui[n].call \in Calls
           /\ parties[ui[n].call].to = n => ui[n].call \notin accepted
<1>1. PICK j \in Calls : /\ ui[n].op = "talk" /\ ui[n].call = j /\ ui[n].peer \in Nodes
                         /\ net \in Networks
  BY UiType DEF Talk, IInv
<1>2. /\ UNCHANGED <<call, parties>>
      /\ state'[n] = "InCall" /\ ui'[n].op = "done"
      /\ \A p \in Nodes \ {n} : state'[p] = state[p] /\ ui'[p] = ui[p]
  BY DEF Talk, IInv, TypeOK, Done
<1>3. CallInv(j)
  BY DEF OnceInv
<1>n. NothingNew(n)
  BY <1>2 DEF NothingNew, NotYetIn
<1>4. CASE parties[j].from = n /\ UNCHANGED <<accepted, net>>
  <2>1. parties[j].to # n
    BY <1>3, <1>4, CallAssumption DEF CallInv, Nobody
  <2>2. OnceInv'
    BY <1>2, <1>4, <1>n, SameWire, StepOfOne
  <2> QED
    BY <1>1, <2>1, <2>2
<1>5. CASE /\ parties[j].to = n
           /\ accepted' = accepted \cup {j}
           /\ net' = Send(net, n, ui[n].peer, "ACCEPT", j)
  <2>1. Answers(n, j)
    BY <1>1, <1>5 DEF Answers
  <2>2. /\ j \notin accepted /\ ~OnWire(net, j) /\ parties[j] # Nobody
        /\ \A p \in Nodes : ~Announces(p, j) /\ (RingsFor(p, j) => p = n)
                                             /\ (Answers(p, j) => p = n)
    <3>1. j \notin accepted /\ ~OnWire(net, j)
      BY <1>3, <2>1 DEF CallInv
    <3>2. parties[j] # Nobody
      BY <1>5, CallAssumption DEF Nobody
    <3>3. \A p \in Nodes : ~Announces(p, j) /\ (RingsFor(p, j) => p = n)
      BY <1>3, <1>5, <2>1 DEF CallInv
    <3>4. \A p \in Nodes : Answers(p, j) => p = n
      BY <1>5 DEF Answers
    <3> QED
      BY <3>1, <3>2, <3>3, <3>4
  <2>3. /\ WireInv(net', parties)
        /\ \A i \in Calls : OnWire(net', i) => OnWire(net, i)
    BY <1>1, <1>5, SendWire DEF OnceInv
  <2>4. ASSUME NEW i \in Calls PROVE CallInv(i)'
    <3>1. \A p \in Nodes :
             /\ Announces(p, i)' => Announces(p, i) /\ ui'[p].peer = ui[p].peer
             /\ RingsFor(p, i)' => RingsFor(p, i) /\ p # n
             /\ Answers(p, i)' => Answers(p, i) /\ p # n
      BY <1>2 DEF Announces, RingsFor, Answers
    <3>2. /\ OnWire(net, i)' => OnWire(net, i)
          /\ parties'[i] = parties[i]
      BY <1>2, <2>3 DEF OnWire, InviteAt
    <3>3. CallInv(i)
      BY DEF OnceInv
    <3>4. CASE i = j
      <4>1. \A p \in Nodes : ~Announces(p, i)' /\ ~RingsFor(p, i)' /\ ~Answers(p, i)'
        BY <2>2, <3>1, <3>4
      <4> QED
        BY <2>2, <3>2, <3>3, <3>4, <4>1 DEF CallInv
    <3>5. CASE i # j
      <4>1. i \in accepted' <=> i \in accepted
        BY <1>5, <3>5
      <4> QED
        BY <3>1, <3>2, <3>3, <4>1 DEF CallInv
    <3> QED
      BY <3>4, <3>5
  <2>5. WireInv(net, parties)'
    BY <1>2, <2>3 DEF WireInv, InviteAt
  <2>6. \A p \in Nodes : NotYetIn(p)' /\ CallsOwn(p)'
    BY <1>2 DEF OnceInv, NotYetIn, CallsOwn
  <2> QED
    BY <1>1, <2>2, <2>4, <2>5, <2>6 DEF OnceInv
<1> QED
  BY <1>1, <1>4, <1>5 DEF Talk

-----------------------------------------------------------------------------
(* The remaining steps invite nobody and answer nothing. *)

LEMMA OwnSteps ==
    ASSUME IInv, OnceInv, NEW n \in Nodes,
           \/ EndCall(n) \/ ArmEndedTimer(n) \/ MediaDoesNotStart(n) \/ MediaStarts(n)
           \/ RejectCall(n) \/ TimerExpires(n) \/ TimerResets(n)
    PROVE  OnceInv'
<1>1. /\ UNCHANGED <<parties, accepted>> /\ net \in Networks
      /\ \A p \in Nodes \ {n} : state'[p] = state[p] /\ call'[p] = call[p] /\ ui'[p] = ui[p]
  BY UiType DEF EndCall, Ended, ArmEndedTimer, MediaDoesNotStart, MediaStarts, RejectCall,
     ResetState, CancelTimers, Forget, TimerExpires, TimerResets, IInv, TypeOK
<1>2. NotYetIn(n)
  BY DEF OnceInv
<1>3. NothingNew(n)
  BY <1>2 DEF NothingNew, NotYetIn, EndCall, Ended, Left, ArmEndedTimer, Done,
     MediaDoesNotStart, MediaStarts, RejectCall, ResetState, CancelTimers, Forget, TimerExpires,
     TimerResets, IInv, TypeOK
<1>4. /\ WireInv(net', parties)
      /\ \A i \in Calls : OnWire(net', i) => OnWire(net, i)
  <2>1. CASE net' = net
    BY <2>1 DEF OnceInv
  <2>2. CASE RejectCall(n)
    <3>1. /\ net' = Send(net, n, peer[n], "REJECT", call[n])
          /\ peer[n] \in Nodes /\ call[n] \in Calls
      BY <2>2 DEF RejectCall, IInv, NodeInv, RingsForAnother
    <3> QED
      BY <1>1, <3>1, SendWire DEF OnceInv
  <2>3. CASE EndCall(n) /\ net' # net
    <3>1. /\ net' = Send(net, n, peer[n], "END", call[n])
          /\ peer[n] \in Nodes /\ call[n] \in Calls
      BY <2>3, CallAssumption DEF EndCall, IInv, TypeOK
    <3> QED
      BY <1>1, <3>1, SendWire DEF OnceInv
  <2> QED
    BY <2>1, <2>2, <2>3 DEF ArmEndedTimer, MediaDoesNotStart, MediaStarts, TimerExpires,
       TimerResets
<1> QED
  BY <1>1, <1>3, <1>4, StepOfOne

LEMMA FrameSteps ==
    ASSUME IInv, OnceInv, NEW m \in Nodes, NEW n \in Nodes,
           OnReject(m, n) \/ OnEnd(m, n) \/ Ignore(m, n)
    PROVE  OnceInv'
<1>1. /\ UNCHANGED <<parties, accepted>> /\ net' = Rest(m, n) /\ net[m][n] # <<>>
      /\ \A p \in Nodes \ {n} : state'[p] = state[p] /\ call'[p] = call[p] /\ ui'[p] = ui[p]
  BY DEF OnReject, OnEnd, Ended, Ignore, Arrives, ResetState, Forget, nodeVars, IInv, TypeOK
<1>2. NotYetIn(n)
  BY DEF OnceInv
<1>3. NothingNew(n)
  BY <1>2 DEF NothingNew, NotYetIn, OnReject, OnEnd, Ended, Left, Ignore, ResetState, Forget,
     nodeVars, IInv, TypeOK
<1>4. /\ WireInv(net', parties)
      /\ \A i \in Calls : OnWire(net', i) => OnWire(net, i)
  BY <1>1, RestWire, UiType DEF OnceInv, IInv
<1> QED
  BY <1>1, <1>3, <1>4, StepOfOne

LEMMA LoseLinkOnce ==
    ASSUME IInv, OnceInv, NEW m \in Nodes, NEW n \in Nodes, LoseLink(n, m)
    PROVE  OnceInv'
<1>1. \A a, b \in Nodes : net'[a][b] = <<>> \/ net'[a][b] = net[a][b]
  <2>1. net \in [Nodes -> [Nodes -> Seq(Signals)]]
    BY DEF IInv, TypeOK
  <2> QED
    BY <2>1 DEF LoseLink
<1>2. WireInv(net', parties)
  <2> SUFFICES ASSUME NEW i \in Calls, NEW a \in Nodes, NEW b \in Nodes,
                      NEW k \in 1 .. Len(net'[a][b]), InviteAt(net', i, a, b, k)
               PROVE  /\ parties[i].from = a /\ parties[i].to = b
                      /\ \A l \in 1 .. Len(net'[a][b]) : InviteAt(net', i, a, b, l) => l = k
    BY DEF WireInv
  <2>1. net'[a][b] = net[a][b]
    BY <1>1
  <2> QED
    BY <2>1 DEF OnceInv, WireInv, InviteAt
<1>3. ASSUME NEW i \in Calls, OnWire(net', i) PROVE OnWire(net, i)
  <2>1. PICK a \in Nodes, b \in Nodes : \E k \in 1 .. Len(net'[a][b]) : InviteAt(net', i, a, b, k)
    BY <1>3 DEF OnWire
  <2>2. net'[a][b] = net[a][b]
    BY <1>1, <2>1
  <2> QED
    BY <2>1, <2>2 DEF OnWire, InviteAt
<1>4. UNCHANGED <<parties, accepted, state, call, ui>>
  BY DEF LoseLink, nodeVars
<1>5. \A p \in Nodes : NothingNew(p)
  BY <1>4, SameNothingNew DEF OnceInv
<1> QED
  BY <1>2, <1>3, <1>4, <1>5, NothingNewStep

-----------------------------------------------------------------------------

LEMMA OnceInit == Init => OnceInv
<1> SUFFICES ASSUME Init PROVE OnceInv
  OBVIOUS
<1>1. \A w \in Nodes, v \in Nodes : net[w][v] = <<>>
  BY DEF Init
<1>2. WireInv(net, parties) /\ \A i \in Calls : ~OnWire(net, i)
  BY <1>1 DEF WireInv, OnWire
<1>3. \A n \in Nodes : ui[n].op = "done" /\ state[n] = "Idle"
  BY DEF Init, Done
<1>4. parties = [i \in Calls |-> Nobody] /\ accepted = {}
  BY DEF Init
<1> QED
  BY <1>2, <1>3, <1>4
     DEF OnceInv, CallInv, NotYetIn, CallsOwn, Announces, RingsFor, Answers

LEMMA OnceNext ==
    ASSUME IInv, OnceInv, [Next]_vars
    PROVE  OnceInv'
<1>1. ASSUME NEW n \in Nodes, User(n) PROVE OnceInv'
  BY <1>1, InitiateCallOnce, AcceptCallOnce, OwnSteps DEF User
<1>2. ASSUME NEW n \in Nodes, Continue(n) PROVE OnceInv'
  BY <1>2, SendInviteOnce, TalkOnce, OwnSteps DEF Continue
<1>3. ASSUME NEW n \in Nodes, TimerExpires(n) \/ TimerResets(n) PROVE OnceInv'
  BY <1>3, OwnSteps
<1>4. ASSUME NEW m \in Nodes, NEW n \in Nodes, Signaling(m, n) PROVE OnceInv'
  BY <1>4, OnInviteOnce, OnAcceptOnce, FrameSteps DEF Signaling
<1>5. ASSUME NEW m \in Nodes, NEW n \in Nodes, LoseLink(m, n) PROVE OnceInv'
  BY <1>5, LoseLinkOnce
<1>6. CASE UNCHANGED vars
  <2>1. UNCHANGED <<parties, accepted, state, call, ui, net>>
    BY <1>6 DEF vars, nodeVars
  <2>2. \A p \in Nodes : NothingNew(p)
    BY <2>1, SameNothingNew DEF OnceInv
  <2> QED
    BY <2>1, <2>2, NothingNewStep DEF OnceInv
<1> QED
  BY <1>1, <1>2, <1>3, <1>4, <1>5, <1>6 DEF Next

-----------------------------------------------------------------------------
(* The refinement. *)

LEMMA AgreementInit == Init => Promise!Init
<1> SUFFICES ASSUME Init PROVE Promise!Init
  OBVIOUS
<1>1. talking = [n \in Nodes |-> NoCall]
  BY DEF Init, talking
<1> QED
  BY <1>1 DEF Init, Promise!Init, Promise!Unmade, Nobody

LEMMA AgreementNext ==
    ASSUME IInv, OnceInv, [Next]_vars
    PROVE  [Promise!Next]_(Promise!avars)
<1> DEFINE Stutters == UNCHANGED <<parties, accepted, talking>>
<1>t. TypeOK
  BY DEF IInv
<1>1. ASSUME NEW n \in Nodes, state'[n] # "InCall" \/ call'[n] = NoCall,
             UNCHANGED <<parties, accepted>>,
             \A p \in Nodes \ {n} : state'[p] = state[p] /\ call'[p] = call[p]
      PROVE  Promise!Leave(n)
  BY <1>1 DEF Promise!Leave, talking
<1>2. ASSUME UNCHANGED <<parties, accepted>>,
             \A p \in Nodes : state'[p] = state[p] /\ call'[p] = call[p]
      PROVE  Stutters
  BY <1>2 DEF talking
<1>3. ASSUME NEW n \in Nodes, Stutters \/ Promise!Leave(n)
      PROVE  [Promise!Next]_(Promise!avars)
  BY <1>3 DEF Promise!Next, Promise!avars
<1>4. ASSUME NEW n \in Nodes, NEW p \in Nodes, InitiateCall(n, p)
      PROVE  [Promise!Next]_(Promise!avars)
  <2>1. PICK i \in Calls : /\ parties[i] = Nobody
                           /\ parties' = [parties EXCEPT ![i] = [from |-> n, to |-> p]]
                           /\ state' = [state EXCEPT ![n] = "Calling"]
                           /\ call' = [call EXCEPT ![n] = i]
    BY <1>4 DEF InitiateCall
  <2>2. n # p /\ state[n] = "Idle" /\ UNCHANGED accepted
    BY <1>4 DEF InitiateCall
  <2>3. UNCHANGED talking /\ talking[n] = NoCall
    BY <1>t, <2>1, <2>2 DEF talking, TypeOK
  <2>4. Promise!Make(n, p, i)
    BY <2>1, <2>2, <2>3 DEF Promise!Make, Promise!Unmade, Nobody
  <2> QED
    BY <2>4 DEF Promise!Next
<1>5. ASSUME NEW n \in Nodes, Talk(n) PROVE [Promise!Next]_(Promise!avars)
  <2>1. PICK i \in Calls : ui[n].call = i /\ (parties[i].to = n => i \notin accepted)
    BY <1>5, TalkOnce
  <2>2. /\ call[n] \in {NoCall, i} /\ (parties[i].from = n => i \in accepted)
        /\ state[n] # "InCall"
    BY <1>5, <2>1 DEF Talk, IInv, NodeInv, UiOfTheCall, OnceInv, NotYetIn
  <2>3. /\ talking[n] = NoCall
        /\ talking' = [talking EXCEPT ![n] = call[n]]
        /\ UNCHANGED parties
    <3>1. state' = [state EXCEPT ![n] = "InCall"] /\ UNCHANGED <<call, parties>>
      BY <1>5 DEF Talk
    <3> QED
      BY <1>t, <2>2, <3>1 DEF talking, TypeOK
  <2>4. CASE parties[i].to = n /\ accepted' = accepted \cup {i}
    <3>1. call[n] = i \/ UNCHANGED talking
      BY <2>2, <2>3 DEF talking
    <3>2. Promise!Agree(n, i)
      BY <2>1, <2>3, <2>4, <3>1 DEF Promise!Agree
    <3> QED
      BY <3>2 DEF Promise!Next
  <2>5. CASE parties[i].from = n /\ UNCHANGED accepted
    <3>1. CASE call[n] = i
      <4>1. Promise!Join(n, i)
        BY <2>2, <2>3, <2>5, <3>1 DEF Promise!Join
      <4> QED
        BY <4>1 DEF Promise!Next
    <3>2. CASE call[n] = NoCall
      <4>1. Promise!Leave(n)
        BY <2>3, <2>5, <3>2 DEF Promise!Leave
      <4> QED
        BY <1>3, <4>1
    <3> QED
      BY <2>2, <3>1, <3>2
  <2> QED
    BY <1>5, <2>1, <2>4, <2>5 DEF Talk
<1>6. ASSUME NEW n \in Nodes,
             \/ RejectCall(n) \/ EndCall(n) \/ MediaDoesNotStart(n) \/ TimerResets(n)
             \/ \E m \in Nodes : OnReject(m, n) \/ OnEnd(m, n)
      PROVE  [Promise!Next]_(Promise!avars)
  <2>1. /\ state'[n] # "InCall"
        /\ UNCHANGED <<parties, accepted>>
        /\ \A p \in Nodes \ {n} : state'[p] = state[p] /\ call'[p] = call[p]
    BY <1>t, <1>6 DEF RejectCall, EndCall, MediaDoesNotStart, TimerResets, OnReject, OnEnd, Ended,
       ResetState, Forget, TypeOK
  <2> QED
    BY <1>1, <1>3, <2>1
<1>7. ASSUME NEW m \in Nodes, NEW n \in Nodes, OnInvite(m, n)
      PROVE  [Promise!Next]_(Promise!avars)
  <2>1. UNCHANGED <<parties, accepted>>
    BY <1>7 DEF OnInvite
  <2>2. UNCHANGED talking
    BY <1>t, <1>7 DEF OnInvite, talking, TypeOK
  <2> QED
    BY <1>3, <2>1, <2>2
<1>8. ASSUME NEW n \in Nodes, \/ SendInvite(n) \/ AcceptCall(n) \/ ArmEndedTimer(n)
                             \/ MediaStarts(n) \/ TimerExpires(n)
                             \/ \E m \in Nodes : OnAccept(m, n) \/ Ignore(m, n) \/ LoseLink(m, n)
                             \/ UNCHANGED vars
      PROVE  [Promise!Next]_(Promise!avars)
  <2>1. UNCHANGED <<parties, accepted, state, call>>
    BY <1>8 DEF SendInvite, AcceptCall, ArmEndedTimer, MediaStarts, TimerExpires, OnAccept,
       Ignore, LoseLink, nodeVars, vars
  <2> QED
    BY <1>2, <1>3, <2>1
<1>9. CASE UNCHANGED vars
  <2>1. UNCHANGED <<parties, accepted, talking>>
    BY <1>9 DEF vars, nodeVars, talking
  <2> QED
    BY <2>1 DEF Promise!avars
<1> QED
  BY <1>4, <1>5, <1>6, <1>7, <1>8, <1>9 DEF Next, User, Continue, Signaling

\* CallManager keeps what Agreement promises, whatever races, losses and failures occur: a
\* callee agrees to a call at most once, and only then does the caller talk in it.
THEOREM KeepsAgreement == Spec => CallsAreAgreed
<1>1. Spec => [](IInv /\ OnceInv)
  <2>1. Init => IInv /\ OnceInv
    BY InitInv, OnceInit
  <2>2. IInv /\ OnceInv /\ [Next]_vars => (IInv /\ OnceInv)'
    BY NextInv, OnceNext
  <2> QED
    BY <2>1, <2>2, PTL DEF Spec
<1>2. IInv /\ OnceInv /\ [Next]_vars => [Promise!Next]_(Promise!avars)
  BY AgreementNext
<1> QED
  BY AgreementInit, <1>1, <1>2, PTL DEF Spec, CallsAreAgreed, Promise!Spec

-----------------------------------------------------------------------------
(* On a node no timer has meddled with, what it believes hangs together.     *)
(* Its timers are armed, and a callback of theirs is not stale, only while   *)
(* it waits for them, and the UI thread holds on to nothing but the present  *)
(* call.  A call of its own brings a node back to this from any state.       *)

TimersWait(n) ==
    callTimer[n] \/ endedTimer[n] \/ callback[n] = "current" =>
        state[n] \in {"Calling", "Ended"} /\ ui[n].op \in {"done", "end", "invite"}

UiInCall(n) ==
    /\ ui[n].op \in {"invite", "media", "talk"} =>
           state[n] \in {"Ringing", "Calling"} /\ call[n] = ui[n].call
    /\ ui[n].op = "invite" => state[n] = "Calling"
    /\ ui[n].op = "end" => state[n] = "Ended"

Coherent(n) == PartyToTheCall(n) /\ MediaOnlyInCall(n) /\ TimersWait(n) /\ UiInCall(n)

AllCoherent == \A n \in Nodes \ meddled : Coherent(n)

\* The calls that have been made are not made again.
MadeOnce == \A i \in Calls : parties[i] # Nobody => parties'[i] = parties[i]

\* A step that leaves node p alone.
Untouched(p) ==
    /\ state'[p] = state[p] /\ call'[p] = call[p] /\ peer'[p] = peer[p]
    /\ media'[p] = media[p] /\ ui'[p] = ui[p]
    /\ callTimer'[p] = callTimer[p] /\ endedTimer'[p] = endedTimer[p]
    /\ callback'[p] = callback[p]

LEMMA UntouchedCoherent ==
    ASSUME TypeOK, NEW p \in Nodes, Coherent(p), MadeOnce, Untouched(p)
    PROVE  Coherent(p)'
<1>1. call[p] # NoCall /\ PartyToTheCall(p) => parties'[call[p]] = parties[call[p]]
  <2> SUFFICES ASSUME call[p] # NoCall, PartyToTheCall(p) PROVE parties'[call[p]] = parties[call[p]]
    OBVIOUS
  <2>1. call[p] \in Calls /\ p \in {parties[call[p]].from, parties[call[p]].to}
    BY DEF TypeOK, PartyToTheCall
  <2>2. parties[call[p]] # Nobody
    BY <2>1, CallAssumption DEF Nobody
  <2> QED
    BY <2>1, <2>2 DEF MadeOnce
<1>2. PartyToTheCall(p)'
  BY <1>1 DEF Untouched, Coherent, PartyToTheCall
<1> QED
  BY <1>2 DEF Untouched, Coherent, MediaOnlyInCall, TimersWait, UiInCall

\* It is enough to look at the node that takes the step.
LEMMA CoherentStep ==
    ASSUME TypeOK, AllCoherent, MadeOnce, NEW n \in Nodes, n \notin meddled' => Coherent(n)',
           meddled \subseteq meddled' \cup {n}, \A p \in Nodes \ {n} : Untouched(p)
    PROVE  AllCoherent'
<1>1. ASSUME NEW p \in Nodes, p \notin meddled' PROVE Coherent(p)'
  <2>1. CASE p = n
    BY <1>1, <2>1
  <2>2. CASE p # n
    <3>1. p \notin meddled
      BY <1>1, <2>2
    <3> QED
      BY <2>2, <3>1, UntouchedCoherent DEF AllCoherent
  <2> QED
    BY <2>1, <2>2
<1> QED
  BY <1>1 DEF AllCoherent

LEMMA InitiateCallCoherent ==
    ASSUME TypeOK, AllCoherent, NEW n \in Nodes, NEW p \in Nodes, InitiateCall(n, p)
    PROVE  AllCoherent'
<1>1. PICK i \in Calls :
         /\ parties[i] = Nobody
         /\ parties' = [parties EXCEPT ![i] = [from |-> n, to |-> p]]
         /\ state' = [state EXCEPT ![n] = "Calling"]
         /\ call' = [call EXCEPT ![n] = i]
         /\ peer' = [peer EXCEPT ![n] = p]
         /\ media' = [media EXCEPT ![n] = NoCall]
         /\ ui' = [ui EXCEPT ![n] = Left("invite", i, p)]
  BY DEF InitiateCall
<1>2. /\ ui[n].op = "done" /\ state[n] = "Idle" /\ p # n
      /\ UNCHANGED <<callTimer, endedTimer, callback>>
      /\ meddled' = meddled \ {n}
  BY DEF InitiateCall, UiFree
<1>3. /\ parties'[i] = [from |-> n, to |-> p]
      /\ state'[n] = "Calling" /\ call'[n] = i /\ peer'[n] = p /\ media'[n] = NoCall
      /\ ui'[n].op = "invite" /\ ui'[n].call = i
  BY <1>1 DEF TypeOK, Left
<1>5. {parties'[i].from, parties'[i].to} = {n, p}
  BY <1>3
<1>6. PartyToTheCall(n)'
  BY <1>2, <1>3, <1>5 DEF PartyToTheCall, NoCall, Calls
<1>7. Coherent(n)'
  BY <1>2, <1>3, <1>6 DEF Coherent, MediaOnlyInCall, TimersWait, UiInCall
<1>8. MadeOnce
  BY <1>1 DEF MadeOnce, TypeOK
<1>9. \A q \in Nodes \ {n} : Untouched(q)
  BY <1>1, <1>2 DEF Untouched, TypeOK
<1>10. meddled \subseteq meddled' \cup {n}
  BY <1>2
<1> QED
  BY <1>7, <1>8, <1>9, <1>10, CoherentStep

LEMMA OnInviteCoherent ==
    ASSUME IInv, OnceInv, AllCoherent, NEW m \in Nodes, NEW n \in Nodes, OnInvite(m, n)
    PROVE  AllCoherent'
<1>1. /\ ui[n].op = "done" /\ TypeOK
      /\ UNCHANGED <<media, callTimer, endedTimer, callback, ui, parties, meddled>>
  BY DEF OnInvite, Arrives, UiFree, IInv
<1>2. MadeOnce
  BY <1>1 DEF MadeOnce
<1>3. CASE UNCHANGED <<state, call, peer>>
  BY <1>1, <1>2, <1>3, UntouchedCoherent DEF Untouched, AllCoherent
<1>4. CASE /\ state[n] = "Idle"
           /\ state' = [state EXCEPT ![n] = "Ringing"]
           /\ call' = [call EXCEPT ![n] = Named(m, n)]
           /\ peer' = [peer EXCEPT ![n] = m]
  <2> DEFINE i == Named(m, n)
  <2>1. i \in Calls /\ parties[i].from = m /\ parties[i].to = n
    <3>1. net[m][n] \in Seq(Signals) /\ net[m][n] # <<>>
      BY <1>1 DEF TypeOK, OnInvite, Arrives
    <3>2. Head(net[m][n]) = net[m][n][1] /\ 1 \in 1 .. Len(net[m][n]) /\ net[m][n][1] \in Signals
      BY <3>1
    <3>3. net[m][n][1] = [type |-> "INVITE", call |-> i] /\ i \in Calls
      BY <3>2 DEF OnInvite, Arrives, Named, Signals
    <3>4. InviteAt(net, i, m, n, 1)
      BY <3>2, <3>3 DEF InviteAt
    <3> QED
      BY <3>2, <3>3, <3>4 DEF OnceInv, WireInv
  <2> HIDE DEF i
  <2>2. m # n
    BY <2>1, CallAssumption DEF OnceInv, CallInv, Nobody
  <2>3. state'[n] = "Ringing" /\ call'[n] = i /\ peer'[n] = m
    BY <1>1, <1>4 DEF TypeOK, i
  <2>4. n \notin meddled =>
           /\ ~callTimer[n] /\ ~endedTimer[n] /\ callback[n] # "current"
           /\ media[n] = NoCall
    BY <1>1, <1>4 DEF AllCoherent, Coherent, TimersWait, MediaOnlyInCall
  <2>5. {parties'[i].from, parties'[i].to} = {n, m}
    BY <1>1, <2>1
  <2>6. PartyToTheCall(n)'
    BY <2>1, <2>2, <2>3, <2>5 DEF PartyToTheCall, NoCall, Calls
  <2>7. n \notin meddled' => Coherent(n)'
    BY <1>1, <2>3, <2>4, <2>6 DEF Coherent, MediaOnlyInCall, TimersWait, UiInCall
  <2>8. \A q \in Nodes \ {n} : Untouched(q)
    BY <1>1, <1>4 DEF Untouched, TypeOK
  <2> QED
    BY <1>1, <1>2, <2>7, <2>8, CoherentStep
<1> QED
  BY <1>3, <1>4 DEF OnInvite

\* The steps that make no call and take none.
LEMMA OtherCoherent ==
    ASSUME TypeOK, AllCoherent, NEW m \in Nodes, NEW n \in Nodes,
           \/ SendInvite(n) \/ AcceptCall(n) \/ RejectCall(n) \/ EndCall(n) \/ ArmEndedTimer(n)
           \/ MediaDoesNotStart(n) \/ MediaStarts(n) \/ Talk(n) \/ TimerExpires(n)
           \/ TimerResets(n) \/ OnAccept(m, n) \/ OnReject(m, n) \/ OnEnd(m, n)
    PROVE  AllCoherent'
<1>1. MadeOnce /\ UNCHANGED parties /\ meddled \subseteq meddled'
  <2>1. CASE TimerResets(n)
    BY <2>1 DEF MadeOnce, TimerResets
  <2>2. CASE ~TimerResets(n)
    BY <2>2 DEF MadeOnce, SendInvite, AcceptCall, RejectCall, EndCall, ArmEndedTimer,
       MediaDoesNotStart, MediaStarts, Talk, TimerExpires, OnAccept, OnReject, OnEnd
  <2> QED
    BY <2>1, <2>2
<1>2. ASSUME NEW p \in Nodes \ {n} PROVE Untouched(p)
  <2> USE <1>2 DEF TypeOK, Untouched
  <2>1. CASE SendInvite(n) \/ AcceptCall(n) \/ EndCall(n) \/ ArmEndedTimer(n)
    BY <2>1 DEF SendInvite, AcceptCall, EndCall, Ended, ArmEndedTimer
  <2>2. CASE RejectCall(n) \/ OnAccept(m, n) \/ OnReject(m, n) \/ OnEnd(m, n)
    BY <2>2 DEF RejectCall, OnAccept, OnReject, OnEnd, Ended, ResetState, CancelTimers, Forget
  <2>3. CASE MediaDoesNotStart(n) \/ MediaStarts(n) \/ Talk(n)
    BY <2>3 DEF MediaDoesNotStart, MediaStarts, Talk, ResetState, CancelTimers, Forget
  <2>4. CASE TimerExpires(n) \/ TimerResets(n)
    BY <2>4 DEF TimerExpires, TimerResets, Forget
  <2> QED
    BY <2>1, <2>2, <2>3, <2>4
<1> DEFINE Sound == Coherent(n) /\ call[n] \in Calls \cup {NoCall}
<1>3. n \notin meddled => Sound
  BY DEF AllCoherent, TypeOK
<1>4. ASSUME ResetState(n), media[n] = NoCall, UNCHANGED media, ui'[n].op = "done"
      PROVE  Coherent(n)'
  BY <1>4 DEF Coherent, PartyToTheCall, MediaOnlyInCall, TimersWait, UiInCall, ResetState, CancelTimers,
     Forget, TypeOK
<1>5. ASSUME Sound, Ended(n), state[n] # "Idle",
             UNCHANGED <<call, peer, callTimer, endedTimer, callback>>
      PROVE  Coherent(n)'
  BY <1>1, <1>5 DEF Coherent, PartyToTheCall, MediaOnlyInCall, TimersWait, UiInCall, Ended, Left, TypeOK
<1>6. ASSUME n \notin meddled' PROVE Coherent(n)'
  <2>s. Sound
    BY <1>1, <1>3, <1>6
  <2>1. CASE SendInvite(n)
    BY <1>1, <2>s, <2>1
    DEF SendInvite, Done, Coherent, PartyToTheCall, MediaOnlyInCall, TimersWait, UiInCall, TypeOK
  <2>2. CASE AcceptCall(n)
    BY <1>1, <2>s, <2>2 DEF AcceptCall, UiFree, Left, Coherent, PartyToTheCall, MediaOnlyInCall, TimersWait,
       UiInCall, TypeOK
  <2>3. CASE RejectCall(n)
    BY <2>s, <1>4, <2>3 DEF RejectCall, UiFree, ResetState, CancelTimers, Coherent, MediaOnlyInCall,
       TypeOK
  <2>4. CASE EndCall(n)
    BY <2>s, <1>5, <2>4 DEF EndCall
  <2>5. CASE ArmEndedTimer(n)
    BY <1>1, <2>s, <2>5 DEF ArmEndedTimer, Done, Coherent, PartyToTheCall, MediaOnlyInCall, TimersWait,
       UiInCall, TypeOK
  <2>6. CASE MediaDoesNotStart(n)
    <3>1. media[n] = NoCall
      BY <2>s, <2>6 DEF MediaDoesNotStart, Coherent, MediaOnlyInCall, UiInCall
    <3>2. ui'[n].op = "done"
      BY <2>6, <3>1 DEF MediaDoesNotStart, Done, TypeOK
    <3> QED
      BY <1>4, <2>6, <3>1, <3>2 DEF MediaDoesNotStart
  <2>7. CASE MediaStarts(n)
    <3>1. /\ ui[n].op = "media" /\ media'[n] = ui[n].call
          /\ ui'[n].op = "talk" /\ ui'[n].call = ui[n].call
          /\ UNCHANGED <<state, call, peer, callTimer, endedTimer, callback, parties>>
      <4>1. ui'[n] = [ui[n] EXCEPT !.op = "talk"]
        BY <2>7 DEF MediaStarts, TypeOK
      <4>2. ui[n] \in Uis
        BY DEF TypeOK, Uis
      <4> QED
        BY <2>7, <4>1, <4>2 DEF MediaStarts, TypeOK, Uis
    <3> QED
      BY <2>s, <3>1 DEF Coherent, PartyToTheCall, MediaOnlyInCall, TimersWait, UiInCall
  <2>8. CASE Talk(n)
    BY <1>1, <2>s, <2>8 DEF Talk, Done, Coherent, PartyToTheCall, MediaOnlyInCall, TimersWait, UiInCall, TypeOK
  <2>9. CASE TimerExpires(n)
    <3>1. /\ UNCHANGED <<state, call, peer, media, ui, parties>>
          /\ callTimer[n] \/ endedTimer[n]
      BY <2>9 DEF TimerExpires
    <3> QED
      BY <2>s, <3>1 DEF Coherent, PartyToTheCall, MediaOnlyInCall, TimersWait, UiInCall
  <2>10. CASE TimerResets(n)
    <3>1. ~Meddles(n) /\ callback[n] \in {"current", "stale"}
      BY <1>6, <2>10 DEF TimerResets, TypeOK
    <3>2. ui[n].op = "done" /\ media[n] = NoCall
      BY <2>s, <3>1 DEF Meddles, Coherent, MediaOnlyInCall, TimersWait
    <3> QED
      BY <2>10, <3>2 DEF TimerResets, Forget, Coherent, PartyToTheCall, MediaOnlyInCall, TimersWait, UiInCall,
         TypeOK
  <2>11. CASE OnAccept(m, n)
    BY <1>1, <2>s, <2>11 DEF OnAccept, Arrives, UiFree, Left, CancelTimers, Coherent, PartyToTheCall,
       MediaOnlyInCall, TimersWait, UiInCall, TypeOK
  <2>12. CASE OnReject(m, n)
    BY <2>s, <1>4, <2>12 DEF OnReject, Arrives, UiFree, ResetState, CancelTimers, Coherent,
       MediaOnlyInCall, TypeOK
  <2>13. CASE OnEnd(m, n)
    BY <2>s, <1>5, <2>13 DEF OnEnd, Active
  <2> QED
    BY <2>1, <2>2, <2>3, <2>4, <2>5, <2>6, <2>7, <2>8, <2>9, <2>10, <2>11, <2>12, <2>13
<1> QED
  BY <1>1, <1>2, <1>6, CoherentStep

LEMMA CoherentNext ==
    ASSUME IInv, OnceInv, AllCoherent, [Next]_vars
    PROVE  AllCoherent'
<1>t. TypeOK
  BY DEF IInv
<1>1. ASSUME NEW n \in Nodes, User(n) \/ Continue(n) \/ TimerExpires(n) \/ TimerResets(n)
      PROVE  AllCoherent'
  BY <1>t, <1>1, InitiateCallCoherent, OtherCoherent DEF User, Continue
<1>2. ASSUME UNCHANGED <<nodeVars, parties, meddled>>
      PROVE  AllCoherent'
  BY <1>t, <1>2, UntouchedCoherent DEF AllCoherent, Untouched, MadeOnce, nodeVars
<1>3. ASSUME NEW m \in Nodes, NEW n \in Nodes, Signaling(m, n) \/ LoseLink(m, n)
      PROVE  AllCoherent'
  BY <1>t, <1>2, <1>3, OnInviteCoherent, OtherCoherent DEF Signaling, Ignore, LoseLink
<1>4. CASE UNCHANGED vars
  BY <1>2, <1>4 DEF vars
<1> QED
  BY <1>1, <1>3, <1>4 DEF Next

\* CallManager: a node is Idle with neither call nor peer, or is one party of its call with
\* the other as its peer, and the engine runs for that call only, whatever refusals,
\* failures, losses and timeouts there were and wherever between the steps of the handlers
\* the timers ran out, unless one of them has reset the node in the middle of a handler, or
\* a stale one while it talked; and then again from its next call on.
THEOREM NodesAreConsistent == Spec => []NodeIsConsistent
<1>1. Init => IInv /\ OnceInv /\ AllCoherent
  BY InitInv, OnceInit
     DEF Init, AllCoherent, Coherent, PartyToTheCall, MediaOnlyInCall, TimersWait, UiInCall, Done
<1>2. IInv /\ OnceInv /\ AllCoherent /\ [Next]_vars => (IInv /\ OnceInv /\ AllCoherent)'
  BY NextInv, OnceNext, CoherentNext
<1>3. AllCoherent => NodeIsConsistent
  BY DEF AllCoherent, Coherent, NodeIsConsistent
<1> QED
  BY <1>1, <1>2, <1>3, PTL DEF Spec

-----------------------------------------------------------------------------
(* The two ends of a call agree which one it is.  Calls are numbered as they *)
(* are made; the call of its own that a node is in is the last one it made,  *)
(* and no later one reached it that it accepted; invitations arrive in the   *)
(* order of the calls, so a callee never goes back to an earlier one.        *)

Made(i) == parties[i] # Nobody
NumberedInOrder == \A i, j \in Calls : i < j /\ Made(j) => Made(i)

\* Call and peer go together.
HasPeer(n) ==
    /\ call[n] = NoCall <=> peer[n] = NoNode
    /\ call[n] # NoCall => {parties[call[n]].from, parties[call[n]].to} = {n, peer[n]}

LastMade(n) ==
    \A i, k \in Calls :
        /\ call[n] = i \/ Announces(n, i)
        /\ parties[i].from = n
        /\ parties[k].from = n \/ (parties[k].to = n /\ k \in accepted)
        => k <= i

\* What the callee has was announced, and it is the last it accepted of that caller.
LastTaken(n) ==
    \A i \in Calls :
        call[n] = i /\ parties[i].to = n =>
            /\ \A m \in Nodes : ~Announces(m, i)
            /\ \A k \in Calls : k \in accepted /\ parties[k] = parties[i] => k <= i

\* Invitations follow each other in the order of their calls.
WireOrder(w) ==
    \A a, b \in Nodes : \A i, j \in Calls : \A k, l \in 1 .. Len(w[a][b]) :
        InviteAt(w, i, a, b, k) /\ InviteAt(w, j, a, b, l) /\ k < l => i < j

\* The callee has call i, or has had it.
Taken(i) ==
    \/ i \in accepted
    \/ \E m \in Nodes : parties[i].to = m /\ (call[m] = i \/ Answers(m, i))

\* What is still on its way is later than what the callee has taken of the same caller.
WireIsLater ==
    \A i, k \in Calls : OnWire(net, i) /\ Taken(k) /\ parties[k] = parties[i] => k < i

RaceInv ==
    /\ NumberedInOrder
    /\ \A n \in Nodes : HasPeer(n) /\ LastMade(n) /\ LastTaken(n)
    /\ WireOrder(net)
    /\ WireIsLater

LEMMA SendOrder ==
    ASSUME NEW w \in Networks, WireOrder(w), NEW n \in Nodes, NEW m \in Nodes,
           NEW t \in {"INVITE", "ACCEPT", "REJECT", "END"}, NEW j \in Calls,
           t = "INVITE" => \A i \in Calls : \A k \in 1 .. Len(w[n][m]) :
                              InviteAt(w, i, n, m, k) => i < j
    PROVE  WireOrder(Send(w, n, m, t, j))
<1> DEFINE f == [type |-> t, call |-> j]
           v == Send(w, n, m, t, j)
<1> SUFFICES ASSUME NEW a \in Nodes, NEW b \in Nodes, NEW i \in Calls, NEW h \in Calls,
                    NEW k \in 1 .. Len(v[a][b]), NEW l \in 1 .. Len(v[a][b]),
                    InviteAt(v, i, a, b, k), InviteAt(v, h, a, b, l), k < l
             PROVE  i < h
  BY DEF WireOrder
<1>1. v[a][b] = IF a = n /\ b = m THEN Append(w[n][m], f) ELSE w[a][b]
  BY DEF Send, Networks
<1>2. CASE a = n /\ b = m
  <2>1. w[n][m] \in Seq(Signals) /\ f \in Signals
    BY DEF Networks, Signals
  <2>2. v[a][b] = Append(w[n][m], f)
    BY <1>1, <1>2
  <2>3. Len(v[a][b]) = Len(w[n][m]) + 1 /\ Len(w[n][m]) \in Nat
    BY <2>1, <2>2
  <2>4. k \in 1 .. Len(w[n][m]) /\ v[a][b][k] = w[n][m][k]
    BY <2>1, <2>2, <2>3
  <2>5. InviteAt(w, i, n, m, k)
    BY <2>4 DEF InviteAt
  <2>6. CASE l = Len(w[n][m]) + 1
    <3>1. v[a][b][l] = f
      BY <2>1, <2>2, <2>6
    <3>2. t = "INVITE" /\ h = j
      BY <3>1 DEF InviteAt
    <3> QED
      BY <2>4, <2>5, <3>2
  <2>7. CASE l \in 1 .. Len(w[n][m])
    <3>1. v[a][b][l] = w[n][m][l]
      BY <2>1, <2>2, <2>7
    <3>2. InviteAt(w, h, n, m, l)
      BY <2>7, <3>1 DEF InviteAt
    <3> QED
      BY <2>4, <2>5, <2>7, <3>2 DEF WireOrder
  <2> QED
    BY <2>3, <2>6, <2>7
<1>3. CASE ~(a = n /\ b = m)
  <2>1. v[a][b] = w[a][b]
    BY <1>1, <1>3
  <2>2. InviteAt(w, i, a, b, k) /\ InviteAt(w, h, a, b, l)
    BY <2>1 DEF InviteAt
  <2> QED
    BY <2>1, <2>2 DEF WireOrder
<1> QED
  BY <1>2, <1>3

LEMMA RestOrder ==
    ASSUME net \in Networks, WireOrder(net), NEW m \in Nodes, NEW n \in Nodes, net[m][n] # <<>>
    PROVE  /\ WireOrder(Rest(m, n))
           /\ \A i, j \in Calls : \A k \in 1 .. Len(Rest(m, n)[m][n]) :
                 /\ Head(net[m][n]) = [type |-> "INVITE", call |-> i]
                 /\ InviteAt(Rest(m, n), j, m, n, k)
                 => i < j
<1> DEFINE s == net[m][n]
           v == Rest(m, n)
<1>1. s \in Seq(Signals) /\ s # <<>>
  BY DEF Networks
<1>2. v[m][n] = Tail(s) /\ \A a, b \in Nodes : ~(a = m /\ b = n) => v[a][b] = net[a][b]
  BY DEF Rest, Networks
<1>3. ASSUME NEW k \in 1 .. Len(v[m][n])
      PROVE  v[m][n][k] = s[k + 1] /\ k + 1 \in 1 .. Len(s)
  BY <1>1, <1>2
<1>4. ASSUME NEW a \in Nodes, NEW b \in Nodes, NEW i \in Calls, NEW h \in Calls,
             NEW k \in 1 .. Len(v[a][b]), NEW l \in 1 .. Len(v[a][b]),
             InviteAt(v, i, a, b, k), InviteAt(v, h, a, b, l), k < l
      PROVE  i < h
  <2>1. CASE a = m /\ b = n
    <3>1. InviteAt(net, i, m, n, k + 1) /\ k + 1 \in 1 .. Len(s)
      BY <1>3, <1>4, <2>1 DEF InviteAt
    <3>2. InviteAt(net, h, m, n, l + 1) /\ l + 1 \in 1 .. Len(s)
      BY <1>3, <1>4, <2>1 DEF InviteAt
    <3>3. k + 1 < l + 1
      BY <1>4
    <3> QED
      BY <3>1, <3>2, <3>3 DEF WireOrder
  <2>2. CASE ~(a = m /\ b = n)
    <3>1. v[a][b] = net[a][b]
      BY <1>2, <2>2
    <3>2. InviteAt(net, i, a, b, k) /\ InviteAt(net, h, a, b, l)
      BY <1>4, <3>1 DEF InviteAt
    <3> QED
      BY <1>4, <3>1, <3>2 DEF WireOrder
  <2> QED
    BY <2>1, <2>2
<1>5. ASSUME NEW i \in Calls, NEW j \in Calls, NEW k \in 1 .. Len(v[m][n]),
             Head(s) = [type |-> "INVITE", call |-> i], InviteAt(v, j, m, n, k)
      PROVE  i < j
  <2>1. Head(s) = s[1] /\ 1 \in 1 .. Len(s)
    BY <1>1
  <2>2. /\ InviteAt(net, i, m, n, 1) /\ InviteAt(net, j, m, n, k + 1)
        /\ k + 1 \in 1 .. Len(s) /\ 1 < k + 1
    BY <1>3, <1>5, <2>1 DEF InviteAt
  <2> QED
    BY <2>1, <2>2 DEF WireOrder
<1>6. WireOrder(v)
  BY <1>4 DEF WireOrder
<1> HIDE DEF v
<1> QED
  BY <1>5, <1>6 DEF v

\* What n has is what it had, and it announces and answers no other call than before.
NothingTaken(n) ==
    /\ \/ call'[n] = call[n] /\ peer'[n] = peer[n]
       \/ call'[n] = NoCall /\ peer'[n] = NoNode
    /\ \A i \in Calls : /\ Announces(n, i)' => Announces(n, i)
                        /\ Answers(n, i)' => Answers(n, i) \/ (call[n] = i /\ parties[i].to = n)

LEMMA NothingTakenStep ==
    ASSUME RaceInv, UNCHANGED <<parties, accepted>>, WireOrder(net'),
           \A i \in Calls : OnWire(net', i) => OnWire(net, i),
           \A n \in Nodes : NothingTaken(n)
    PROVE  RaceInv'
<1>1. \A i \in Calls : 0 # i
  BY DEF Calls
<1>2. NumberedInOrder'
  BY DEF RaceInv, NumberedInOrder, Made
<1>3. ASSUME NEW n \in Nodes PROVE HasPeer(n)' /\ LastMade(n)' /\ LastTaken(n)'
  <2>1. HasPeer(n) /\ LastMade(n) /\ LastTaken(n)
    BY DEF RaceInv
  <2>2. HasPeer(n)'
    BY <2>1 DEF NothingTaken, HasPeer
  <2>3. LastMade(n)'
    BY <1>1, <2>1 DEF NothingTaken, LastMade, NoCall
  <2>4. LastTaken(n)'
    <3> SUFFICES ASSUME NEW i \in Calls, call'[n] = i, parties[i].to = n
                 PROVE  /\ \A m \in Nodes : ~Announces(m, i)'
                        /\ \A k \in Calls : k \in accepted /\ parties[k] = parties[i] => k <= i
      BY DEF LastTaken
    <3>1. call[n] = i
      BY <1>1 DEF NothingTaken, NoCall
    <3> QED
      BY <2>1, <3>1 DEF NothingTaken, LastTaken
  <2> QED
    BY <2>2, <2>3, <2>4
<1>4. \A i \in Calls : Taken(i)' => Taken(i)
  BY <1>1 DEF Taken, NothingTaken, NoCall
<1>5. \A i \in Calls : OnWire(net, i)' => OnWire(net, i)
  BY DEF OnWire, InviteAt
<1>6. WireIsLater'
  BY <1>4, <1>5 DEF RaceInv, WireIsLater
<1>7. WireOrder(net)'
  BY DEF WireOrder, InviteAt
<1> QED
  BY <1>2, <1>3, <1>6, <1>7 DEF RaceInv

\* A step of one node that takes no call.
LEMMA OneTakesNothing ==
    ASSUME RaceInv, NEW n \in Nodes, UNCHANGED <<parties, accepted>>, WireOrder(net'),
           \A i \in Calls : OnWire(net', i) => OnWire(net, i), NothingTaken(n),
           \A p \in Nodes \ {n} : call'[p] = call[p] /\ peer'[p] = peer[p] /\ ui'[p] = ui[p]
    PROVE  RaceInv'
<1>1. \A p \in Nodes : NothingTaken(p)
  BY DEF NothingTaken, Announces, Answers
<1> QED
  BY <1>1, NothingTakenStep

LEMMA InitiateCallRace ==
    ASSUME IInv, OnceInv, RaceInv, NEW n \in Nodes, NEW p \in Nodes, InitiateCall(n, p)
    PROVE  RaceInv'
<1>1. PICK j \in Calls :
         /\ parties[j] = Nobody
         /\ \A i \in 1 .. j - 1 : parties[i] # Nobody
         /\ parties' = [parties EXCEPT ![j] = [from |-> n, to |-> p]]
         /\ call' = [call EXCEPT ![n] = j]
         /\ peer' = [peer EXCEPT ![n] = p]
         /\ ui' = [ui EXCEPT ![n] = Left("invite", j, p)]
  BY DEF InitiateCall
<1>2. ui[n].op = "done" /\ p # n /\ UNCHANGED <<accepted, net>>
  BY DEF InitiateCall, UiFree
<1>t. TypeOK /\ NoNode \notin Nodes
  BY CallAssumption DEF IInv
<1>3. /\ ui'[n] = [op |-> "invite", call |-> j, peer |-> p] /\ call'[n] = j /\ peer'[n] = p
      /\ \A m \in Nodes \ {n} : ui'[m] = ui[m] /\ call'[m] = call[m] /\ peer'[m] = peer[m]
      /\ parties'[j] = [from |-> n, to |-> p]
      /\ \A i \in Calls \ {j} : parties'[i] = parties[i]
  BY <1>1, <1>t DEF TypeOK, Left
<1>4. /\ \A i \in Calls : Made(i) => i < j
      /\ \A i \in Calls : i < j => Made(i)
  <2>1. ASSUME NEW i \in Calls, Made(i) PROVE i < j
    <3>1. i # j
      BY <1>1, <2>1 DEF Made
    <3>2. ~(j < i)
      BY <1>1, <2>1 DEF RaceInv, NumberedInOrder, Made
    <3> QED
      BY <3>1, <3>2 DEF Calls
  <2>2. ASSUME NEW i \in Calls, i < j PROVE Made(i)
    BY <1>1, <2>2 DEF Made, Calls
  <2> QED
    BY <2>1, <2>2
<1>5. j \notin accepted /\ ~OnWire(net, j)
  <2>1. CallInv(j)
    BY DEF OnceInv
  <2>2. j \notin accepted
    BY <1>1, <2>1 DEF CallInv
  <2>3. ~OnWire(net, j)
    BY <1>1, <1>t DEF OnceInv, WireInv, OnWire, Nobody
  <2> QED
    BY <2>2, <2>3
<1>6. \A m \in Nodes : /\ call[m] # j /\ ~Announces(m, j)
                       /\ ~(ui[m].op \in {"media", "talk"} /\ ui[m].call = j)
  <2> TAKE m \in Nodes
  <2>1. parties[j].from = NoNode /\ parties[j].to = NoNode
    BY <1>1 DEF Nobody
  <2>2. j # 0
    BY DEF Calls
  <2>3. call[m] # j
    <3>1. call[m] = j => m \in {parties[j].from, parties[j].to}
      BY <2>2 DEF RaceInv, HasPeer, NoCall
    <3> QED
      BY <1>t, <2>1, <3>1
  <2>4. ~Announces(m, j) /\ ~(ui[m].op \in {"media", "talk"} /\ ui[m].call = j)
    <3>1. NodeInv(m)
      BY DEF IInv
    <3> QED
      BY <1>t, <2>1, <3>1 DEF NodeInv, UiOfTheCall, Announces
  <2> QED
    BY <2>3, <2>4
<1>7. /\ \A i \in Calls : Made(i)' <=> Made(i) \/ i = j
      /\ NumberedInOrder'
  <2>1. \A i \in Calls : Made(i)' <=> Made(i) \/ i = j
    BY <1>3, <1>t DEF Made, Nobody
  <2>2. ASSUME NEW i \in Calls, NEW h \in Calls, i < h, Made(h)' PROVE Made(i)'
    BY <1>4, <2>1, <2>2 DEF RaceInv, NumberedInOrder, Calls
  <2> QED
    BY <2>1, <2>2 DEF NumberedInOrder
<1>8. ASSUME NEW i \in Calls, parties[i].from \in Nodes \/ parties[i].to \in Nodes
      PROVE  Made(i) /\ i < j
  <2>1. Made(i)
    BY <1>8, <1>t DEF Made, Nobody
  <2> QED
    BY <1>4, <2>1
<1>9. ASSUME NEW m \in Nodes PROVE HasPeer(m)'
  <2>1. CASE m = n
    <3>1. j # 0 /\ p # NoNode
      BY <1>t DEF Calls
    <3>2. call'[m] = j /\ peer'[m] = p /\ parties'[j].from = m /\ parties'[j].to = p
      BY <1>3, <2>1
    <3> QED
      BY <3>1, <3>2 DEF HasPeer, NoCall
  <2>2. CASE m # n
    <3>1. HasPeer(m) /\ call'[m] = call[m] /\ peer'[m] = peer[m] /\ call[m] # j
      BY <1>3, <1>6, <2>2 DEF RaceInv
    <3>2. call[m] # NoCall => parties'[call[m]] = parties[call[m]]
      BY <1>3, <1>t, <3>1 DEF TypeOK
    <3> QED
      BY <3>1, <3>2 DEF HasPeer
  <2> QED
    BY <2>1, <2>2
<1>10. ASSUME NEW m \in Nodes PROVE LastMade(m)'
  <2> SUFFICES ASSUME NEW i \in Calls, NEW k \in Calls,
                      call'[m] = i \/ Announces(m, i)', parties'[i].from = m,
                      parties'[k].from = m \/ (parties'[k].to = m /\ k \in accepted)
               PROVE  k <= i
    BY <1>2 DEF LastMade
  <2>1. CASE m = n
    <3>1. i = j
      BY <1>3, <2>1 DEF Announces
    <3>2. k = j \/ k < j
      BY <1>3, <1>8
    <3> QED
      BY <3>1, <3>2 DEF Calls
  <2>2. CASE m # n
    <3>1. /\ call[m] = i \/ Announces(m, i)
          /\ i # j /\ parties[i].from = m
      BY <1>3, <1>6, <2>2 DEF Announces
    <3>2. k # j
      BY <1>3, <1>5, <2>2
    <3>3. parties[k].from = m \/ (parties[k].to = m /\ k \in accepted)
      BY <1>3, <3>2
    <3> QED
      BY <3>1, <3>3 DEF RaceInv, LastMade
  <2> QED
    BY <2>1, <2>2
<1>11. ASSUME NEW m \in Nodes PROVE LastTaken(m)'
  <2> SUFFICES ASSUME NEW i \in Calls, call'[m] = i, parties'[i].to = m
               PROVE  /\ \A q \in Nodes : ~Announces(q, i)'
                      /\ \A k \in Calls : k \in accepted /\ parties'[k] = parties'[i] => k <= i
    BY <1>2 DEF LastTaken
  <2>1. m # n
    BY <1>2, <1>3
  <2>2. call[m] = i /\ i # j /\ parties[i].to = m
    BY <1>3, <1>6, <2>1
  <2>3. \A q \in Nodes : ~Announces(q, i)'
    BY <1>3, <2>2 DEF RaceInv, LastTaken, Announces
  <2>4. \A k \in Calls : k \in accepted /\ parties'[k] = parties'[i] => parties[k] = parties[i]
    BY <1>3, <1>5, <2>2
  <2> QED
    BY <2>2, <2>3, <2>4 DEF RaceInv, LastTaken
<1>12. WireOrder(net)' /\ \A i \in Calls : OnWire(net, i)' => OnWire(net, i)
  BY <1>2 DEF RaceInv, WireOrder, OnWire, InviteAt
<1>13. ASSUME NEW i \in Calls PROVE Taken(i)' => Taken(i) /\ i # j
  <2> SUFFICES ASSUME Taken(i)' PROVE Taken(i) /\ i # j
    OBVIOUS
  <2>1. CASE i \in accepted'
    BY <1>2, <1>5, <2>1 DEF Taken
  <2>2. CASE i \notin accepted'
    <3>1. PICK m \in Nodes : parties'[i].to = m /\ (call'[m] = i \/ Answers(m, i)')
      BY <2>2 DEF Taken
    <3>2. m # n
      BY <1>2, <1>3, <3>1 DEF Answers
    <3>3. i # j
      BY <1>3, <1>6, <3>1, <3>2 DEF Answers
    <3> QED
      BY <1>3, <3>1, <3>2, <3>3 DEF Taken, Answers
  <2> QED
    BY <2>1, <2>2
<1>14. WireIsLater'
  BY <1>3, <1>5, <1>12, <1>13 DEF RaceInv, WireIsLater
<1> QED
  BY <1>7, <1>9, <1>10, <1>11, <1>12, <1>14 DEF RaceInv

LEMMA SendInviteRace ==
    ASSUME IInv, OnceInv, RaceInv, NEW n \in Nodes, SendInvite(n)
    PROVE  RaceInv'
<1>1. PICK j \in Calls, q \in Nodes :
      /\ Announces(n, j) /\ ui[n].peer = q
      /\ net' = Send(net, n, q, "INVITE", j)
      /\ UNCHANGED <<call, peer, parties, accepted>>
      /\ net \in Networks
  BY UiType DEF SendInvite, IInv, Announces
<1>2. ui'[n].op = "done" /\ \A m \in Nodes \ {n} : ui'[m] = ui[m]
  BY DEF SendInvite, Done, IInv, TypeOK
<1>3. /\ parties[j] = [from |-> n, to |-> q] /\ j \notin accepted /\ ~OnWire(net, j)
      /\ \A m \in Nodes : ~RingsFor(m, j) /\ ~Answers(m, j)
  BY <1>1 DEF OnceInv, CallInv
<1>a. parties[j].from = n /\ parties[j].to = q
  BY <1>3
<1>4. \A i \in Calls : parties[i].from = n => i <= j
  BY <1>1, <1>a DEF RaceInv, LastMade
<1>5. ~Taken(j)
  <2>1. ASSUME NEW m \in Nodes, parties[j].to = m PROVE call[m] # j
    BY <1>1, <2>1 DEF RaceInv, LastTaken
  <2> QED
    BY <1>3, <2>1 DEF Taken
<1>6. \A m \in Nodes, i \in Calls : /\ Announces(m, i)' => Announces(m, i)
                                    /\ Answers(m, i)' => Answers(m, i)
  BY <1>1, <1>2 DEF Announces, Answers
<1>7. WireOrder(net')
  <2>1. ASSUME NEW i \in Calls, NEW k \in 1 .. Len(net[n][q]), InviteAt(net, i, n, q, k)
        PROVE  i < j
    <3>1. parties[i].from = n /\ OnWire(net, i)
      BY <2>1 DEF OnceInv, WireInv, OnWire
    <3>2. i <= j /\ i # j
      BY <1>3, <1>4, <3>1
    <3> QED
      BY <3>2 DEF Calls
  <2> QED
    BY <1>1, <2>1, SendOrder DEF RaceInv
<1>8. \A i \in Calls : OnWire(net', i) => OnWire(net, i) \/ i = j
  BY <1>1, <1>a, <1>3, SendWire DEF OnceInv
<1>9. ASSUME NEW m \in Nodes PROVE HasPeer(m)' /\ LastMade(m)' /\ LastTaken(m)'
  BY <1>1, <1>6 DEF RaceInv, HasPeer, LastMade, LastTaken
<1>10. WireIsLater'
  <2> SUFFICES ASSUME NEW i \in Calls, NEW k \in Calls, OnWire(net', i), Taken(k)',
                      parties[k] = parties[i]
               PROVE  k < i
    BY <1>1 DEF WireIsLater, OnWire, InviteAt
  <2>1. Taken(k)
    BY <1>1, <1>6 DEF Taken
  <2>2. CASE OnWire(net, i)
    BY <2>1, <2>2 DEF RaceInv, WireIsLater
  <2>3. CASE i = j
    <3>1. k <= j /\ k # j
      BY <1>4, <1>5, <1>a, <2>1, <2>3
    <3> QED
      BY <2>3, <3>1 DEF Calls
  <2> QED
    BY <1>8, <2>2, <2>3
<1>11. NumberedInOrder' /\ WireOrder(net)'
  BY <1>1, <1>7 DEF RaceInv, NumberedInOrder, Made, WireOrder, InviteAt
<1> QED
  BY <1>9, <1>10, <1>11 DEF RaceInv

LEMMA OnInviteRace ==
    ASSUME IInv, OnceInv, RaceInv, NEW m \in Nodes, NEW n \in Nodes, OnInvite(m, n)
    PROVE  RaceInv'
<1>1. /\ net[m][n] # <<>> /\ net \in Networks /\ ui[n].op = "done"
      /\ UNCHANGED <<ui, parties, accepted>>
  BY UiType DEF OnInvite, Arrives, UiFree, IInv
<1>2. PICK j \in Calls : Head(net[m][n]) = [type |-> "INVITE", call |-> j]
  <2>1. Head(net[m][n]) \in Signals
    BY <1>1, RestType
  <2> QED
    BY <2>1 DEF OnInvite, Arrives, Signals
<1>3. /\ parties[j].from = m /\ parties[j].to = n /\ OnWire(net, j) /\ ~OnWire(Rest(m, n), j)
      /\ WireInv(Rest(m, n), parties)
      /\ \A i \in Calls : OnWire(Rest(m, n), i) => OnWire(net, i)
  BY <1>1, <1>2, RestWire DEF OnceInv
<1>4. WireOrder(Rest(m, n))
  BY <1>1, RestOrder DEF RaceInv
<1>5. Rest(m, n) \in Networks
  BY <1>1, RestType
<1>6. CASE net' = Send(Rest(m, n), n, m, "REJECT", Named(m, n)) /\ UNCHANGED <<call, peer>>
  <2>1. Named(m, n) = j
    BY <1>2 DEF Named
  <2>2. WireOrder(net') /\ \A i \in Calls : OnWire(net', i) => OnWire(net, i)
    BY <1>3, <1>4, <1>5, <1>6, <2>1, SendOrder, SendWire
  <2>3. NothingTaken(n)
    BY <1>1, <1>6 DEF NothingTaken, Announces, Answers
  <2> QED
    BY <1>1, <1>6, <2>2, <2>3, OneTakesNothing
<1>7. CASE /\ state[n] = "Idle" /\ net' = Rest(m, n)
           /\ call' = [call EXCEPT ![n] = Named(m, n)]
           /\ peer' = [peer EXCEPT ![n] = m]
  <2>1. /\ call'[n] = j /\ peer'[n] = m
        /\ \A p \in Nodes \ {n} : call'[p] = call[p] /\ peer'[p] = peer[p]
    BY <1>2, <1>7 DEF IInv, TypeOK, Named
  <2>2. j \notin accepted /\ m # n /\ \A p \in Nodes : ~Announces(p, j)
    <3>1. CallInv(j)
      BY DEF OnceInv
    <3>2. \A p \in Nodes : ~Announces(p, j)
      BY <1>3, <3>1 DEF CallInv
    <3>3. m # n
      BY <1>3, <3>1, CallAssumption DEF CallInv, Nobody
    <3> QED
      BY <1>3, <3>1, <3>2, <3>3 DEF CallInv
  <2>3. ASSUME NEW p \in Nodes PROVE HasPeer(p)'
    <3>1. CASE p = n
      <4>1. j # 0 /\ m # NoNode
        BY CallAssumption DEF Calls
      <4>2. {parties'[j].from, parties'[j].to} = {n, m}
        BY <1>1, <1>3
      <4> QED
        BY <2>1, <3>1, <4>1, <4>2 DEF HasPeer, NoCall
    <3>2. CASE p # n
      BY <1>1, <2>1, <3>2 DEF RaceInv, HasPeer
    <3> QED
      BY <3>1, <3>2
  <2>4. ASSUME NEW p \in Nodes PROVE LastMade(p)'
    <3> SUFFICES ASSUME NEW i \in Calls, NEW k \in Calls,
                        call'[p] = i \/ Announces(p, i), parties[i].from = p,
                        parties[k].from = p \/ (parties[k].to = p /\ k \in accepted)
                 PROVE  k <= i
      BY <1>1 DEF LastMade, Announces
    <3>1. CASE p = n
      <4>1. ~Announces(n, i)
        BY <1>1 DEF Announces
      <4>2. i = j
        BY <2>1, <3>1, <4>1
      <4> QED
        BY <1>3, <2>2, <3>1, <4>2
    <3>2. CASE p # n
      BY <2>1, <3>2 DEF RaceInv, LastMade
    <3> QED
      BY <3>1, <3>2
  <2>5. ASSUME NEW p \in Nodes PROVE LastTaken(p)'
    <3> SUFFICES ASSUME NEW i \in Calls, call'[p] = i, parties[i].to = p
                 PROVE  /\ \A q \in Nodes : ~Announces(q, i)
                        /\ \A k \in Calls : k \in accepted /\ parties[k] = parties[i] => k <= i
      BY <1>1 DEF LastTaken, Announces
    <3>1. CASE p = n
      <4>1. i = j
        BY <2>1, <3>1
      <4>2. \A k \in Calls : k \in accepted /\ parties[k] = parties[j] => k < j
        BY <1>3 DEF RaceInv, WireIsLater, Taken
      <4> QED
        BY <2>2, <4>1, <4>2 DEF Calls
    <3>2. CASE p # n
      BY <2>1, <3>2 DEF RaceInv, LastTaken
    <3> QED
      BY <3>1, <3>2
  <2>6. ASSUME NEW i \in Calls PROVE Taken(i)' => Taken(i) \/ i = j
    <3> SUFFICES ASSUME Taken(i)', i # j PROVE Taken(i)
      OBVIOUS
    <3>1. CASE i \in accepted'
      BY <1>1, <3>1 DEF Taken
    <3>2. CASE i \notin accepted'
      <4>1. PICK p \in Nodes : parties[i].to = p /\ (call'[p] = i \/ Answers(p, i))
        BY <1>1, <3>2 DEF Taken, Answers
      <4>2. call'[p] = i => call[p] = i
        BY <2>1
      <4> QED
        BY <4>1, <4>2 DEF Taken
    <3> QED
      BY <3>1, <3>2
  <2>7. WireIsLater'
    <3> SUFFICES ASSUME NEW i \in Calls, NEW k \in Calls, OnWire(net', i), Taken(k)',
                        parties[k] = parties[i]
                 PROVE  k < i
      BY <1>1 DEF WireIsLater, OnWire, InviteAt
    <3>1. OnWire(net, i)
      BY <1>3, <1>7
    <3>2. CASE Taken(k)
      BY <3>1, <3>2 DEF RaceInv, WireIsLater
    <3>3. CASE k = j
      <4>1. PICK a \in Nodes, b \in Nodes :
               \E l \in 1 .. Len(net'[a][b]) : InviteAt(net', i, a, b, l)
        BY DEF OnWire
      <4>2. a = m /\ b = n
        BY <1>3, <1>7, <3>3, <4>1 DEF WireInv
      <4> QED
        BY <1>1, <1>2, <1>7, <3>3, <4>1, <4>2, RestOrder DEF RaceInv
    <3> QED
      BY <2>6, <3>2, <3>3
  <2>8. NumberedInOrder' /\ WireOrder(net)'
    BY <1>1, <1>4, <1>7 DEF RaceInv, NumberedInOrder, Made, WireOrder, InviteAt
  <2> QED
    BY <2>3, <2>4, <2>5, <2>7, <2>8 DEF RaceInv
<1> QED
  BY <1>6, <1>7 DEF OnInvite

LEMMA TalkRace ==
    ASSUME IInv, OnceInv, RaceInv, NEW n \in Nodes, Talk(n)
    PROVE  RaceInv'
<1>1. PICK j \in Calls : /\ ui[n].op = "talk" /\ ui[n].call = j /\ ui[n].peer \in Nodes
                         /\ net \in Networks
  BY UiType DEF Talk, IInv
<1>2. /\ UNCHANGED <<call, peer, parties>> /\ ui'[n].op = "done"
      /\ \A p \in Nodes \ {n} : ui'[p] = ui[p]
  BY DEF Talk, IInv, TypeOK, Done
<1>n. NothingTaken(n)
  BY <1>2 DEF NothingTaken, Announces, Answers
<1>3. CASE parties[j].from = n /\ UNCHANGED <<accepted, net>>
  <2>1. WireOrder(net') /\ \A i \in Calls : OnWire(net', i) => OnWire(net, i)
    BY <1>3 DEF RaceInv
  <2> QED
    BY <1>2, <1>3, <1>n, <2>1, OneTakesNothing
<1>4. CASE /\ parties[j].to = n
           /\ accepted' = accepted \cup {j}
           /\ net' = Send(net, n, ui[n].peer, "ACCEPT", j)
  <2>1. /\ WireOrder(net')
        /\ \A i \in Calls : OnWire(net', i) => OnWire(net, i)
    BY <1>1, <1>4, SendOrder, SendWire DEF OnceInv, RaceInv
  <2>2. \A p \in Nodes, i \in Calls : /\ Announces(p, i)' => Announces(p, i)
                                      /\ Answers(p, i)' => Answers(p, i)
    BY <1>2 DEF Announces, Answers
  <2>3. call[n] = NoCall \/ call[n] = j
    BY <1>1 DEF IInv, NodeInv, UiOfTheCall
  <2>4. parties[j].from # n /\ 0 \notin Calls
    BY <1>4, CallAssumption DEF OnceInv, CallInv, Nobody, Calls
  <2>5. ASSUME NEW p \in Nodes PROVE LastMade(p)'
    <3> SUFFICES ASSUME NEW i \in Calls, NEW k \in Calls,
                        call[p] = i \/ Announces(p, i), parties[i].from = p,
                        parties[k].from = p \/ (parties[k].to = p /\ k \in accepted \cup {j})
                 PROVE  k <= i
      BY <1>2, <1>4, <2>2 DEF LastMade
    <3>1. CASE k # j \/ p # n
      BY <1>4, <3>1 DEF RaceInv, LastMade
    <3>2. CASE k = j /\ p = n
      <4>1. ~Announces(n, i)
        BY <1>1 DEF Announces
      <4>2. i = j
        BY <2>3, <2>4, <3>2, <4>1 DEF NoCall
      <4> QED
        BY <2>4, <3>2, <4>2
    <3> QED
      BY <3>1, <3>2
  <2>6. ASSUME NEW p \in Nodes PROVE HasPeer(p)' /\ LastTaken(p)'
    <3>1. HasPeer(p) /\ LastTaken(p)
      BY DEF RaceInv
    <3>2. HasPeer(p)'
      BY <1>2, <3>1 DEF HasPeer
    <3>3. ASSUME NEW i \in Calls, call[p] = i, parties[i].to = p
          PROVE  /\ \A q \in Nodes : ~Announces(q, i)'
                 /\ \A k \in Calls : k \in accepted \cup {j} /\ parties[k] = parties[i] => k <= i
      <4>1. \A q \in Nodes : ~Announces(q, i)'
        BY <2>2, <3>1, <3>3 DEF LastTaken
      <4>2. parties[j] = parties[i] => i = j
        BY <1>4, <2>3, <2>4, <3>3 DEF NoCall
      <4> QED
        BY <3>1, <3>3, <4>1, <4>2 DEF LastTaken, Calls
    <3>4. LastTaken(p)'
      BY <1>2, <1>4, <3>3 DEF LastTaken
    <3> QED
      BY <3>2, <3>4
  <2>7. \A i \in Calls : Taken(i)' => Taken(i)
    <3>1. Taken(j)
      BY <1>1, <1>4 DEF Taken, Answers
    <3> QED
      BY <1>2, <1>4, <2>2, <3>1 DEF Taken
  <2>8. WireIsLater'
    <3>1. \A i \in Calls : OnWire(net, i)' => OnWire(net, i)
      BY <2>1 DEF OnWire, InviteAt
    <3> QED
      BY <1>2, <2>7, <3>1 DEF RaceInv, WireIsLater
  <2>9. NumberedInOrder' /\ WireOrder(net)'
    BY <1>2, <2>1 DEF RaceInv, NumberedInOrder, Made, WireOrder, InviteAt
  <2> QED
    BY <2>5, <2>6, <2>8, <2>9 DEF RaceInv
<1> QED
  BY <1>1, <1>3, <1>4 DEF Talk

\* The remaining steps take no call.
LEMMA OtherRace ==
    ASSUME IInv, OnceInv, RaceInv, NEW m \in Nodes, NEW n \in Nodes,
           \/ AcceptCall(n) \/ RejectCall(n) \/ EndCall(n) \/ ArmEndedTimer(n)
           \/ MediaDoesNotStart(n) \/ MediaStarts(n) \/ TimerExpires(n) \/ TimerResets(n)
           \/ OnAccept(m, n) \/ OnReject(m, n) \/ OnEnd(m, n) \/ Ignore(m, n)
    PROVE  RaceInv'
<1>1. /\ UNCHANGED <<parties, accepted>> /\ net \in Networks
      /\ \A p \in Nodes \ {n} : call'[p] = call[p] /\ peer'[p] = peer[p] /\ ui'[p] = ui[p]
  <2>1. CASE \/ AcceptCall(n) \/ RejectCall(n) \/ EndCall(n) \/ ArmEndedTimer(n)
             \/ MediaDoesNotStart(n) \/ MediaStarts(n)
    BY <2>1, UiType DEF AcceptCall, RejectCall, EndCall, Ended, ArmEndedTimer, MediaDoesNotStart,
       MediaStarts, ResetState, Forget, IInv, TypeOK
  <2>2. CASE TimerExpires(n) \/ TimerResets(n)
    <3>1. net \in Networks
      BY UiType DEF IInv
    <3>2. CASE TimerExpires(n)
      BY <3>1, <3>2 DEF TimerExpires
    <3>3. CASE TimerResets(n)
      BY <3>1, <3>3 DEF TimerResets, Forget, IInv, TypeOK
    <3> QED
      BY <2>2, <3>2, <3>3
  <2>3. CASE OnAccept(m, n) \/ OnReject(m, n) \/ OnEnd(m, n) \/ Ignore(m, n)
    BY <2>3, UiType DEF OnAccept, OnReject, OnEnd, Ended, Ignore, ResetState, Forget, nodeVars,
       IInv, TypeOK
  <2> QED
    BY <2>1, <2>2, <2>3
<1>2. \/ call'[n] = call[n] /\ peer'[n] = peer[n]
      \/ call'[n] = NoCall /\ peer'[n] = NoNode
  <2>1. CASE \/ AcceptCall(n) \/ RejectCall(n) \/ EndCall(n) \/ ArmEndedTimer(n)
             \/ MediaDoesNotStart(n) \/ MediaStarts(n)
    BY <2>1 DEF AcceptCall, RejectCall, EndCall, Ended, ArmEndedTimer, MediaDoesNotStart,
       MediaStarts, ResetState, Forget, IInv, TypeOK
  <2>2. CASE TimerExpires(n) \/ TimerResets(n)
    BY <2>2 DEF TimerExpires, TimerResets, Forget, IInv, TypeOK
  <2>3. CASE OnAccept(m, n) \/ OnReject(m, n) \/ OnEnd(m, n) \/ Ignore(m, n)
    BY <2>3 DEF OnAccept, OnReject, OnEnd, Ended, Ignore, ResetState, Forget, nodeVars,
       IInv, TypeOK
  <2> QED
    BY <2>1, <2>2, <2>3
<1>3. ASSUME NEW i \in Calls
      PROVE  /\ Announces(n, i)' => Announces(n, i)
             /\ Answers(n, i)' => Answers(n, i) \/ (call[n] = i /\ parties[i].to = n)
  <2>1. CASE ui'[n].op \in {"done", "end"} \/ ui'[n] = ui[n]
    BY <1>1, <2>1 DEF Announces, Answers
  <2>2. CASE AcceptCall(n) \/ OnAccept(m, n)
    <3>1. ui'[n].op = "media" /\ ui'[n].call = call[n]
      BY <2>2 DEF AcceptCall, OnAccept, Left, IInv, TypeOK
    <3> QED
      BY <1>1, <3>1 DEF Announces, Answers
  <2>3. CASE MediaDoesNotStart(n) \/ MediaStarts(n)
    <3>1. ui[n].op = "media" /\ (ui'[n].op = "done" \/ ui'[n] = [ui[n] EXCEPT !.op = "talk"])
      <4>1. CASE MediaStarts(n)
        BY <4>1 DEF MediaStarts, IInv, TypeOK
      <4>2. CASE MediaDoesNotStart(n) /\ media[n] = NoCall
        BY <4>2 DEF MediaDoesNotStart, Done, IInv, TypeOK
      <4>3. CASE MediaDoesNotStart(n) /\ media[n] # NoCall
        BY <4>3 DEF MediaDoesNotStart, IInv, TypeOK
      <4> QED
        BY <2>3, <4>1, <4>2, <4>3
    <3>2. ui[n] \in Uis
      BY DEF IInv, TypeOK, Uis
    <3>3. ui'[n].op = "done" \/ (ui'[n].op = "talk" /\ ui'[n].call = ui[n].call)
      BY <3>1, <3>2 DEF Uis
    <3> QED
      BY <1>1, <3>1, <3>3 DEF Announces, Answers
  <2>4. CASE RejectCall(n) \/ EndCall(n) \/ ArmEndedTimer(n) \/ TimerExpires(n) \/ TimerResets(n)
             \/ OnReject(m, n) \/ OnEnd(m, n) \/ Ignore(m, n)
    BY <2>1, <2>4 DEF RejectCall, EndCall, Ended, Left, Done, ArmEndedTimer, TimerExpires,
       TimerResets, OnReject, OnEnd, Ignore, nodeVars, IInv, TypeOK
  <2> QED
    BY <2>2, <2>3, <2>4
<1>4. NothingTaken(n)
  BY <1>2, <1>3 DEF NothingTaken
<1>5. /\ WireOrder(net')
      /\ \A i \in Calls : OnWire(net', i) => OnWire(net, i)
  <2>1. CASE net' = net
    BY <2>1 DEF RaceInv
  <2>2. CASE RejectCall(n)
    <3>1. /\ net' = Send(net, n, peer[n], "REJECT", call[n])
          /\ peer[n] \in Nodes /\ call[n] \in Calls
      BY <2>2 DEF RejectCall, IInv, NodeInv, RingsForAnother
    <3> QED
      BY <1>1, <3>1, SendWire, SendOrder DEF OnceInv, RaceInv
  <2>3. CASE EndCall(n) /\ net' # net
    <3>1. /\ net' = Send(net, n, peer[n], "END", call[n])
          /\ peer[n] \in Nodes /\ call[n] \in Calls
      BY <2>3, CallAssumption DEF EndCall, IInv, TypeOK
    <3> QED
      BY <1>1, <3>1, SendWire, SendOrder DEF OnceInv, RaceInv
  <2>4. CASE OnAccept(m, n) \/ OnReject(m, n) \/ OnEnd(m, n) \/ Ignore(m, n)
    <3>1. net[m][n] # <<>> /\ net' = Rest(m, n)
      BY <2>4 DEF OnAccept, OnReject, OnEnd, Ignore, Arrives
    <3> QED
      BY <1>1, <3>1, RestWire, RestOrder DEF OnceInv, RaceInv
  <2> QED
    BY <2>1, <2>2, <2>3, <2>4 DEF AcceptCall, ArmEndedTimer, MediaDoesNotStart, MediaStarts,
       TimerExpires, TimerResets
<1> QED
  BY <1>1, <1>4, <1>5, OneTakesNothing

LEMMA LoseLinkRace ==
    ASSUME IInv, OnceInv, RaceInv, NEW m \in Nodes, NEW n \in Nodes, LoseLink(n, m)
    PROVE  RaceInv'
<1>1. \A a, b \in Nodes : net'[a][b] = <<>> \/ net'[a][b] = net[a][b]
  <2>1. net \in [Nodes -> [Nodes -> Seq(Signals)]]
    BY DEF IInv, TypeOK
  <2> QED
    BY <2>1 DEF LoseLink
<1>2. WireOrder(net')
  <2> SUFFICES ASSUME NEW a \in Nodes, NEW b \in Nodes, NEW i \in Calls, NEW h \in Calls,
                      NEW k \in 1 .. Len(net'[a][b]), NEW l \in 1 .. Len(net'[a][b]),
                      InviteAt(net', i, a, b, k), InviteAt(net', h, a, b, l), k < l
               PROVE  i < h
    BY DEF WireOrder
  <2>1. net'[a][b] = net[a][b]
    BY <1>1
  <2>2. InviteAt(net, i, a, b, k) /\ InviteAt(net, h, a, b, l)
    BY <2>1 DEF InviteAt
  <2> QED
    BY <2>1, <2>2 DEF RaceInv, WireOrder
<1>3. ASSUME NEW i \in Calls, OnWire(net', i) PROVE OnWire(net, i)
  <2>1. PICK a \in Nodes, b \in Nodes : \E k \in 1 .. Len(net'[a][b]) : InviteAt(net', i, a, b, k)
    BY <1>3 DEF OnWire
  <2>2. net'[a][b] = net[a][b]
    BY <1>1, <2>1
  <2> QED
    BY <2>1, <2>2 DEF OnWire, InviteAt
<1>4. UNCHANGED <<call, peer, ui, parties, accepted>>
  BY DEF LoseLink, nodeVars
<1>5. \A p \in Nodes : NothingTaken(p)
  BY <1>4 DEF NothingTaken, Announces, Answers
<1> QED
  BY <1>2, <1>3, <1>4, <1>5, NothingTakenStep

-----------------------------------------------------------------------------

LEMMA RaceInit == Init => RaceInv
<1> SUFFICES ASSUME Init PROVE RaceInv
  OBVIOUS
<1>1. \A a, b \in Nodes : net[a][b] = <<>>
  BY DEF Init
<1>2. WireOrder(net) /\ \A i \in Calls : ~OnWire(net, i)
  BY <1>1 DEF WireOrder, OnWire, InviteAt
<1>3. /\ \A n \in Nodes : call[n] = NoCall /\ peer[n] = NoNode /\ ui[n].op = "done"
      /\ \A i \in Calls : parties[i] = Nobody
      /\ 0 \notin Calls
  BY DEF Init, Done, Calls
<1> QED
  BY <1>2, <1>3 DEF RaceInv, NumberedInOrder, Made, HasPeer, LastMade, LastTaken, WireIsLater,
     Announces, NoCall

LEMMA RaceNext ==
    ASSUME IInv, OnceInv, RaceInv, [Next]_vars
    PROVE  RaceInv'
<1>1. ASSUME NEW n \in Nodes, User(n) PROVE RaceInv'
  BY <1>1, InitiateCallRace, OtherRace DEF User
<1>2. ASSUME NEW n \in Nodes, Continue(n) PROVE RaceInv'
  BY <1>2, SendInviteRace, TalkRace, OtherRace DEF Continue
<1>3. ASSUME NEW n \in Nodes, TimerExpires(n) \/ TimerResets(n) PROVE RaceInv'
  BY <1>3, OtherRace
<1>4. ASSUME NEW m \in Nodes, NEW n \in Nodes, Signaling(m, n) PROVE RaceInv'
  BY <1>4, OnInviteRace, OtherRace DEF Signaling
<1>5. ASSUME NEW m \in Nodes, NEW n \in Nodes, LoseLink(m, n) PROVE RaceInv'
  BY <1>5, LoseLinkRace
<1>6. CASE UNCHANGED vars
  <2>1. UNCHANGED <<call, peer, ui, parties, accepted, net>>
    BY <1>6 DEF vars, nodeVars
  <2>2. \A p \in Nodes : NothingTaken(p)
    BY <2>1 DEF NothingTaken, Announces, Answers
  <2> QED
    BY <2>1, <2>2, NothingTakenStep DEF RaceInv
<1> QED
  BY <1>1, <1>2, <1>3, <1>4, <1>5, <1>6 DEF Next

LEMMA SharedCall == IInv /\ OnceInv /\ RaceInv => CallerSharesTheCall
<1> SUFFICES ASSUME IInv, OnceInv, RaceInv, NEW n \in Nodes, NEW m \in Nodes,
                    state[n] = "InCall", peer[n] = m, call[n] # NoCall,
                    parties[call[n]].from = n, state[m] = "InCall", peer[m] = n
             PROVE  call[n] = call[m]
  BY DEF CallerSharesTheCall
<1> DEFINE i == call[n]
           j == call[m]
<1>t. TypeOK /\ NoNode \notin Nodes
  BY CallAssumption DEF IInv
<1>1. i \in Calls /\ j \in Calls /\ i # NoCall /\ j # NoCall
  BY <1>t DEF TypeOK, RaceInv, HasPeer
<1>2. /\ {parties[i].from, parties[i].to} = {n, m} /\ {parties[j].from, parties[j].to} = {m, n}
      /\ parties[i].from # parties[i].to /\ parties[j].from # parties[j].to
  <2>1. {parties[i].from, parties[i].to} = {n, m} /\ {parties[j].from, parties[j].to} = {m, n}
    BY <1>1 DEF RaceInv, HasPeer
  <2>2. \A c \in {i, j} : parties[c].from # parties[c].to
    <3> TAKE c \in {i, j}
    <3>1. CallInv(c) /\ parties[c].from \in Nodes
      BY <1>1, <2>1 DEF OnceInv
    <3> QED
      BY <1>t, <3>1 DEF CallInv, Nobody
  <2> QED
    BY <2>1, <2>2
<1>3. n # m /\ parties[i].to = m
  BY <1>2
<1>4. i \in accepted /\ (parties[j].from = m => j \in accepted)
  BY <1>1 DEF IInv, NodeInv, TalksAccepted
<1>5. CASE parties[j].from = m
  <2>1. parties[j].to = n
    BY <1>2, <1>3, <1>5
  <2>2. i <= j
    BY <1>1, <1>3, <1>4, <1>5 DEF RaceInv, LastMade
  <2>3. j <= i
    BY <1>1, <1>4, <1>5, <2>1 DEF RaceInv, LastMade
  <2> QED
    BY <1>1, <2>2, <2>3 DEF Calls
<1>6. CASE parties[j].from = n
  <2>1. parties[j].to = m
    BY <1>2, <1>3, <1>6
  <2>2. j <= i
    BY <1>1, <1>6 DEF RaceInv, LastMade
  <2>3. parties[i] = parties[j]
    <3>1. \A c \in Calls : parties[c] = [from |-> parties[c].from, to |-> parties[c].to]
      BY <1>t DEF TypeOK
    <3> QED
      BY <1>1, <1>3, <1>6, <2>1, <3>1
  <2>4. i <= j
    BY <1>1, <1>4, <2>1, <2>3 DEF RaceInv, LastTaken
  <2> QED
    BY <1>1, <2>2, <2>4 DEF Calls
<1> QED
  BY <1>2, <1>3, <1>5, <1>6

\* handleSignaling through glare and calls given up, redialled and answered late, with the
\* timers racing the handlers: a caller in a call with a callee that is in a call with it
\* is in the same call, so that both have the same media key.
THEOREM CallerAndCalleeAgree == Spec => []CallerSharesTheCall
<1>1. Init => IInv /\ OnceInv /\ RaceInv
  BY InitInv, OnceInit, RaceInit
<1>2. IInv /\ OnceInv /\ RaceInv /\ [Next]_vars => (IInv /\ OnceInv /\ RaceInv)'
  BY NextInv, OnceNext, RaceNext
<1> QED
  BY <1>1, <1>2, SharedCall, PTL DEF Spec
=============================================================================
