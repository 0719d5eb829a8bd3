--------------------------- MODULE SettingsProofs ---------------------------
(***************************************************************************)
(* Proofs about DevicePairing, for any number of devices, codes and        *)
(* connections: what a code links, what a secondary device is known to,    *)
(* how often a code is guessed, and the types; and about SessionManager,   *)
(* for any threads, setters and ends of the program: what survives of the  *)
(* settings, and the types.                                                *)
(***************************************************************************)
EXTENDS MCSettings, FiniteSetTheorems, TLAPS

-----------------------------------------------------------------------------
(* Types, as far as the arguments need them. *)

CodeType == s_code \in [Devices -> [code : Nat, late : BOOLEAN]]
ListType == linked \in [Devices -> [Devices -> {NoLink, "primary", "secondary"}]]

Kinds == {"ACK", "PAIR_ACCEPT", "PAIR_REJECT", "PAIR_REQUEST"}
Signals == [type : Kinds] \cup [type : Kinds, code : Nat]
WireType == wire \in [Devices -> [Devices -> Seq(Signals)]]
ConnType ==
    conn \in [Devices -> [Devices -> [state : {"closed", "asked", "up"}, pendingPairCode : Nat]]]

BanType ==
    /\ failures \in [Devices -> [Devices -> [count : Nat, banned : BOOLEAN]]]
    /\ guesses \in [Devices -> [Devices -> Nat]]
UseType == made \in Nat /\ usedBy \in [Codes -> SUBSET Devices]

Types == CodeType /\ ListType /\ WireType /\ ConnType /\ BanType /\ UseType

LEMMA TypeInit == Init => Types
BY DEF Init, Types, CodeType, ListType, WireType, ConnType, BanType, UseType, Pairs, Cleared,
       Closed, NoCode, NoLink

LEMMA SignalType ==
    /\ \A t \in Kinds : [type |-> t] \in Signals /\ [type |-> t].type = t
    /\ \A n \in Nat : /\ [type |-> "PAIR_REQUEST", code |-> n] \in Signals
                      /\ [type |-> "PAIR_REQUEST", code |-> n].type = "PAIR_REQUEST"
BY DEF Signals, Kinds

\* Steps that send or take frames between two devices.
LEMMA SendType ==
    ASSUME NEW w \in [Devices -> [Devices -> Seq(Signals)]],
           NEW d \in Devices, NEW e \in Devices, NEW f \in Signals
    PROVE  /\ Send(w, d, e, f) \in [Devices -> [Devices -> Seq(Signals)]]
           /\ Send(w, d, e, f)[d][e] = Append(w[d][e], f)
           /\ \A x, y \in Devices :
                  <<x, y>> # <<d, e>> => Send(w, d, e, f)[x][y] = w[x][y]
<1>1. Append(w[d][e], f) \in Seq(Signals)
  OBVIOUS
<1> QED
  BY <1>1 DEF Send

LEMMA RestType ==
    ASSUME WireType, NEW d \in Devices, NEW e \in Devices, wire[d][e] # <<>>
    PROVE  /\ Rest(d, e) \in [Devices -> [Devices -> Seq(Signals)]]
           /\ Rest(d, e)[d][e] = Tail(wire[d][e])
           /\ \A x, y \in Devices : <<x, y>> # <<d, e>> => Rest(d, e)[x][y] = wire[x][y]
<1> DEFINE rest == Tail(wire[d][e])
<1>1. wire[d][e] \in Seq(Signals)
  BY DEF WireType
<1>2. rest \in Seq(Signals)
  BY <1>1
<1> HIDE DEF rest
<1>3. Rest(d, e) = [wire EXCEPT ![d][e] = rest]
  BY DEF Rest, rest
<1>4. Rest(d, e)[d][e] = rest
  BY <1>3 DEF WireType
<1> QED
  BY <1>2, <1>3, <1>4 DEF WireType, rest

LEMMA CloseType ==
    ASSUME WireType, ConnType, NEW s \in Devices, NEW p \in Devices, Close(s, p)
    PROVE  /\ WireType' /\ ConnType'
           /\ \A x, y \in Devices : wire'[x][y] \in {<<>>, wire[x][y]}
<1>1. /\ wire' = [wire EXCEPT ![s][p] = <<>>, ![p][s] = <<>>]
      /\ conn' = [conn EXCEPT ![s][p] = Closed]
  BY DEF Close
<1>2. Closed \in [state : {"closed", "asked", "up"}, pendingPairCode : Nat]
  BY DEF Closed, NoCode
<1>3. ConnType'
  BY <1>1, <1>2 DEF ConnType
<1> DEFINE w == [wire EXCEPT ![s][p] = <<>>]
<1>4. /\ w \in [Devices -> [Devices -> Seq(Signals)]]
      /\ \A x, y \in Devices : w[x][y] \in {<<>>, wire[x][y]}
  BY DEF WireType
<1>5. wire' = [w EXCEPT ![p][s] = <<>>]
  BY <1>1
<1> HIDE DEF w
<1>6. WireType' /\ \A x, y \in Devices : wire'[x][y] \in {<<>>, w[x][y]}
  BY <1>4, <1>5 DEF WireType
<1> QED
  BY <1>3, <1>4, <1>6

LEMMA FailedType ==
    ASSUME BanType, NEW p \in Devices, NEW s \in Devices, RecordUuidFailure(p, s)
    PROVE  /\ failures' \in [Devices -> [Devices -> [count : Nat, banned : BOOLEAN]]]
           /\ failures'[p][s].count = failures[p][s].count + 1
           /\ failures'[p][s].banned <=> failures[p][s].count + 1 >= kMaxUuidFailures
           /\ \A x, y \in Devices : <<x, y>> # <<p, s>> => failures'[x][y] = failures[x][y]
<1> DEFINE c == failures[p][s].count + 1
           b == c >= kMaxUuidFailures
           r == [count |-> c, banned |-> b]
<1>1. c \in Nat /\ b \in BOOLEAN
  BY PairingAssumption DEF BanType
<1>2. failures' = [failures EXCEPT ![p][s] = r]
  BY DEF RecordUuidFailure, FailedAgain
<1> HIDE DEF c, b
<1>3. r \in [count : Nat, banned : BOOLEAN] /\ r.count = c /\ r.banned = b
  BY <1>1
<1> HIDE DEF r
<1>4. /\ failures' \in [Devices -> [Devices -> [count : Nat, banned : BOOLEAN]]]
      /\ failures'[p][s] = r
      /\ \A x, y \in Devices : <<x, y>> # <<p, s>> => failures'[x][y] = failures[x][y]
  BY <1>2, <1>3 DEF BanType
<1> QED
  BY <1>3, <1>4 DEF c, b

LEMMA ConnStep ==
    ASSUME ConnType, NEW s \in Devices, NEW p \in Devices,
           \/ conn' = [conn EXCEPT ![s][p].state = "up"]
           \/ conn' = [conn EXCEPT ![s][p].pendingPairCode = NoCode]
    PROVE  ConnType'
<1> DEFINE Records == [state : {"closed", "asked", "up"}, pendingPairCode : Nat]
<1>1. conn[s][p] \in Records
  BY DEF ConnType
<1>2. PICK r \in Records : conn' = [conn EXCEPT ![s][p] = r]
  <2>1. [conn[s][p] EXCEPT !.state = "up"] \in Records
        /\ [conn[s][p] EXCEPT !.pendingPairCode = NoCode] \in Records
    BY <1>1 DEF NoCode
  <2> QED
    BY <2>1
<1> HIDE DEF Records
<1> QED
  BY <1>2 DEF ConnType, Records

\* What the steps of a connection do to the types.
LEMMA TypeStep ==
    ASSUME Types, [Next]_vars
    PROVE  Types'
<1> USE DEF Types
<1>1. Cleared \in [code : Nat, late : BOOLEAN] /\ NoCode \in Nat
  BY DEF Cleared, NoCode
<1>2. ASSUME NEW d \in Devices, GenerateCode(d) PROVE Types'
  BY <1>2, PairingAssumption
     DEF GenerateCode, bounds, CodeType, ListType, WireType, ConnType, BanType, UseType
<1>3. ASSUME NEW d \in Devices, Expire(d) \/ ClearCode(d) PROVE Types'
  <2>1. [s_code[d] EXCEPT !.late = TRUE] \in [code : Nat, late : BOOLEAN]
    BY DEF CodeType
  <2>2. PICK r \in [code : Nat, late : BOOLEAN] : s_code' = [s_code EXCEPT ![d] = r]
    BY <1>1, <1>3, <2>1 DEF Expire, ClearCode
  <2>3. CodeType'
    BY <2>2 DEF CodeType
  <2> QED
    BY <1>3, <2>3 DEF Expire, ClearCode, ListType, WireType, ConnType, BanType, UseType
<1>4. ASSUME NEW d \in Devices, Restart(d) PROVE Types'
  <2>1. CodeType' /\ ListType' /\ UseType'
    BY <1>1, <1>4 DEF Restart, CodeType, ListType, UseType
  <2>2. BanType'
    BY <1>4 DEF Restart, BanType
  <2>3. Closed \in [state : {"closed", "asked", "up"}, pendingPairCode : Nat]
    BY <1>1 DEF Closed
  <2>4. ConnType'
    BY <1>4, <2>3 DEF Restart, ConnType
  <2>5. WireType'
    <3>1. \A x, y \in Devices :
              (IF d \in {x, y} THEN <<>> ELSE wire[x][y]) \in Seq(Signals)
      BY DEF WireType
    <3>2. wire' = [x \in Devices |-> [y \in Devices |->
                      IF d \in {x, y} THEN <<>> ELSE wire[x][y]]]
      BY <1>4 DEF Restart
    <3> QED
      BY <3>1, <3>2 DEF WireType
  <2> QED
    BY <2>1, <2>2, <2>4, <2>5
<1>5. ASSUME NEW s \in Devices, NEW p \in Devices, NEW c \in 1 .. MaxCodes + 1,
             ConnectToDevice(s, p, c)
      PROVE  Types'
  <2>1. ConnType'
    BY <1>5, PairingAssumption DEF ConnectToDevice, ConnType
  <2> QED
    BY <1>5, <2>1
       DEF ConnectToDevice, pairing, CodeType, ListType, WireType, BanType, UseType
<1>6. ASSUME NEW s \in Devices, NEW p \in Devices, AcceptIncoming(p, s) PROVE Types'
  <2>1. WireType'
    BY <1>6, SignalType, SendType DEF AcceptIncoming, Msg, Kinds, WireType
  <2>2. ConnType'
    BY <1>6, ConnStep DEF AcceptIncoming
  <2> QED
    BY <1>6, <2>1, <2>2 DEF AcceptIncoming, pairing, CodeType, ListType, BanType, UseType
<1>7. ASSUME NEW s \in Devices, NEW p \in Devices, Close(s, p), UNCHANGED linked,
             UNCHANGED <<s_code, made, usedBy, failures, guesses>>
      PROVE  Types'
  BY <1>7, CloseType DEF CodeType, ListType, BanType, UseType
<1>8. ASSUME NEW s \in Devices, NEW p \in Devices,
             ConnectionEnds(s, p) \/ OnPairReject(p, s)
      PROVE  Types'
  BY <1>7, <1>8 DEF ConnectionEnds, OnPairReject, pairing
<1>9. ASSUME NEW s \in Devices, NEW p \in Devices, OnAck(p, s) PROVE Types'
  <2>1. CASE Close(s, p)
    BY <1>7, <1>9, <2>1 DEF OnAck, pairing
  <2> DEFINE f == [type |-> "PAIR_REQUEST", code |-> conn[s][p].pendingPairCode]
  <2>2. CASE /\ wire' = Send(Rest(p, s), s, p, f)
             /\ conn' = [conn EXCEPT ![s][p].pendingPairCode = NoCode]
    <3>1. f \in Signals
      BY SignalType DEF ConnType
    <3>2. Rest(p, s) \in [Devices -> [Devices -> Seq(Signals)]]
      BY <1>9, RestType DEF OnAck, FrameIs
    <3> HIDE DEF f
    <3>3. WireType'
      BY <2>2, <3>1, <3>2, SendType DEF WireType
    <3>4. ConnType'
      BY <2>2, ConnStep
    <3> QED
      BY <1>9, <3>3, <3>4 DEF OnAck, pairing, CodeType, ListType, BanType, UseType
  <2> QED
    BY <1>9, <2>1, <2>2 DEF OnAck
<1>10. ASSUME NEW s \in Devices, NEW p \in Devices, OnPairRequest(s, p) PROVE Types'
  <2> DEFINE c == Head(wire[s][p]).code
  <2>1. CASE Close(s, p) /\ UNCHANGED <<s_code, linked, usedBy, failures, guesses>>
    BY <1>7, <1>10, <2>1 DEF OnPairRequest
  <2>2. Rest(s, p) \in [Devices -> [Devices -> Seq(Signals)]]
    BY <1>10, RestType DEF OnPairRequest, FrameIs
  <2>3. ASSUME NEW t \in Kinds, wire' = Send(Rest(s, p), p, s, Msg(t)) PROVE WireType'
    BY <2>2, <2>3, SignalType, SendType DEF Msg, WireType
  <2>4. CASE RequestAccepted(s, p, c)
    <3>1. WireType'
      BY <2>3, <2>4 DEF RequestAccepted, Kinds
    <3>2. CodeType' /\ ListType'
      BY <1>1, <2>4 DEF RequestAccepted, Consumed, AddSecondary, AddLinkedDevice, CodeType,
                        ListType
    <3>3. UseType'
      BY <1>10, <2>4 DEF OnPairRequest, RequestAccepted, UseType
    <3> QED
      BY <1>10, <2>4, <3>1, <3>2, <3>3 DEF RequestAccepted, BanType, ConnType
  <2>5. CASE RequestRefused(s, p, c)
    <3>1. WireType'
      BY <2>3, <2>5 DEF RequestRefused, Kinds
    <3>2. CodeType' /\ ListType' /\ ConnType' /\ UseType'
      BY <1>1, <1>10, <2>5
         DEF OnPairRequest, RequestRefused, CodeType, ListType, ConnType, UseType
    <3>3. BanType'
      <4>1. CASE RecordUuidFailure(p, s) /\ guesses' = [guesses EXCEPT ![p][s] = @ + 1]
        BY <4>1, FailedType DEF BanType
      <4>2. CASE UNCHANGED <<failures, guesses>>
        BY <4>2 DEF BanType
      <4> QED
        BY <2>5, <4>1, <4>2 DEF RequestRefused
    <3> QED
      BY <3>1, <3>2, <3>3
  <2> QED
    BY <1>10, <2>1, <2>4, <2>5 DEF OnPairRequest
<1>11. ASSUME NEW s \in Devices, NEW p \in Devices, OnPairAccept(p, s) PROVE Types'
  <2>1. CASE Close(s, p) /\ UNCHANGED linked
    BY <1>7, <1>11, <2>1 DEF OnPairAccept
  <2>2. CASE AddLinkedDevice(s, p, "primary") /\ wire' = Rest(p, s) /\ UNCHANGED conn
    <3>1. WireType'
      BY <1>11, <2>2, RestType DEF OnPairAccept, FrameIs, WireType
    <3>2. ListType'
      BY <2>2 DEF AddLinkedDevice, ListType
    <3> QED
      BY <1>11, <2>2, <3>1, <3>2 DEF OnPairAccept, CodeType, ConnType, BanType, UseType
  <2> QED
    BY <1>11, <2>1, <2>2 DEF OnPairAccept
<1>12. ASSUME NEW s \in Devices, NEW p \in Devices, BanEnds(p, s) PROVE Types'
  <2>1. BanType'
    BY <1>12 DEF BanEnds, BanType
  <2> QED
    BY <1>12, <2>1 DEF BanEnds, pairing, CodeType, ListType, WireType, ConnType, UseType
<1>13. ASSUME NEW s \in Devices, NEW p \in Devices, RemoveLinkedDevice(s, p) PROVE Types'
  <2>1. ListType'
    BY <1>13 DEF RemoveLinkedDevice, ListType
  <2> QED
    BY <1>13, <2>1 DEF RemoveLinkedDevice, CodeType, WireType, ConnType, BanType, UseType
<1>14. CASE UNCHANGED vars
  BY <1>14 DEF vars, CodeType, ListType, WireType, ConnType, BanType, UseType
<1> QED
  BY <1>2, <1>3, <1>4, <1>5, <1>6, <1>8, <1>9, <1>10, <1>11, <1>12, <1>13, <1>14 DEF Next

-----------------------------------------------------------------------------
(* A code links one device: codes are never given out twice, and the one that has linked a  *)
(* device is no device's code any more.                                                     *)

CodesMade == \A d \in Devices : s_code[d].code <= made
CodesDiffer ==
    \A d, e \in Devices : s_code[d].code # NoCode /\ s_code[d].code = s_code[e].code => d = e
UsedUp ==
    \A c \in Codes :
        /\ c > made => usedBy[c] = {}
        /\ usedBy[c] # {} => \A d \in Devices : s_code[d].code # c
        /\ Cardinality(usedBy[c]) <= 1

CodeInv == CodesMade /\ CodesDiffer /\ UsedUp

LEMMA CodeInit == Init => CodeInv
<1>1. Cardinality({}) = 0
  BY FS_EmptySet
<1> QED
  BY <1>1 DEF Init, CodeInv, CodesMade, CodesDiffer, UsedUp, Cleared, NoCode

LEMMA CodeStep ==
    ASSUME Types, CodeInv, [Next]_vars
    PROVE  CodeInv'
<1> USE DEF CodeInv
<1>1. CodeType /\ UseType
  BY DEF Types
<1>2. CASE UNCHANGED <<s_code, made, usedBy>>
  BY <1>2 DEF CodesMade, CodesDiffer, UsedUp
<1>3. ASSUME NEW d \in Devices, s_code' = [s_code EXCEPT ![d] = Cleared],
             UNCHANGED <<made, usedBy>>
      PROVE  CodeInv'
  <2>1. \A e \in Devices : s_code'[e].code = IF e = d THEN NoCode ELSE s_code[e].code
    BY <1>1, <1>3 DEF CodeType, Cleared
  <2> QED
    BY <1>1, <1>3, <2>1 DEF CodesMade, CodesDiffer, UsedUp, UseType, NoCode, Codes
<1>4. ASSUME NEW d \in Devices, GenerateCode(d) PROVE CodeInv'
  <2>1. \A e \in Devices : s_code'[e].code = IF e = d THEN made + 1 ELSE s_code[e].code
    BY <1>1, <1>4 DEF GenerateCode, CodeType
  <2>2. made' = made + 1 /\ UNCHANGED usedBy /\ made \in Nat
    BY <1>1, <1>4 DEF GenerateCode, UseType
  <2>3. \A e \in Devices : s_code[e].code \in Nat /\ s_code[e].code <= made
    BY <1>1 DEF CodeType, CodesMade
  <2>4. CodesMade' /\ CodesDiffer'
    BY <2>1, <2>2, <2>3 DEF CodesMade, CodesDiffer
  <2>5. UsedUp'
    BY <2>1, <2>2, <2>3 DEF UsedUp, Codes
  <2> QED
    BY <2>4, <2>5
<1>5. ASSUME NEW d \in Devices, Expire(d) PROVE CodeInv'
  <2>1. \A e \in Devices : s_code'[e].code = s_code[e].code
    BY <1>1, <1>5 DEF Expire, CodeType
  <2> QED
    BY <1>5, <2>1 DEF Expire, CodesMade, CodesDiffer, UsedUp
<1>6. ASSUME NEW d \in Devices, ClearCode(d) \/ Restart(d) PROVE CodeInv'
  BY <1>3, <1>6 DEF ClearCode, Restart
<1>7. ASSUME NEW s \in Devices, NEW p \in Devices, OnPairRequest(s, p) PROVE CodeInv'
  <2> DEFINE c == Head(wire[s][p]).code
  <2>1. CASE RequestAccepted(s, p, c)
    <3> HIDE DEF c
    <3>1. s_code[p].code = c /\ s_code' = [s_code EXCEPT ![p] = Cleared]
          /\ usedBy' = [usedBy EXCEPT ![c] = @ \cup {s}] /\ UNCHANGED made
      BY <1>7, <2>1 DEF OnPairRequest, RequestAccepted, Valid, Consumed
    <3>2. \A e \in Devices : s_code'[e].code = IF e = p THEN NoCode ELSE s_code[e].code
      BY <1>1, <3>1 DEF CodeType, Cleared
    <3>3. CodesMade' /\ CodesDiffer'
      BY <1>1, <3>1, <3>2 DEF CodesMade, CodesDiffer, UseType, NoCode
    <3>4. ASSUME NEW k \in Codes, k # c
          PROVE  /\ k > made' => usedBy'[k] = {}
                 /\ usedBy'[k] # {} => \A d \in Devices : s_code'[d].code # k
                 /\ Cardinality(usedBy'[k]) <= 1
      <4>1. usedBy'[k] = usedBy[k] /\ k # NoCode
        BY <1>1, <3>1, <3>4, PairingAssumption DEF UseType, Codes, NoCode
      <4> QED
        BY <3>1, <3>2, <3>4, <4>1 DEF UsedUp
    <3>5. ASSUME c \in Codes
          PROVE  /\ c > made' => usedBy'[c] = {}
                 /\ usedBy'[c] # {} => \A d \in Devices : s_code'[d].code # c
                 /\ Cardinality(usedBy'[c]) <= 1
      <4>1. usedBy[c] = {} /\ usedBy'[c] = {s}
        BY <1>1, <3>1, <3>5 DEF UsedUp, UseType
      <4>2. ~(c > made') /\ c # NoCode
        BY <1>1, <3>1, <3>5, PairingAssumption DEF CodesMade, CodeType, UseType, Codes, NoCode
      <4>3. \A d \in Devices : s_code'[d].code # c
        BY <3>1, <3>2, <4>2 DEF CodesDiffer
      <4>4. Cardinality({s}) = 1
        BY FS_Singleton
      <4> QED
        BY <4>1, <4>2, <4>3, <4>4
    <3> QED
      BY <3>3, <3>4, <3>5 DEF UsedUp
  <2>2. CASE RequestRefused(s, p, c)
    BY <1>2, <1>3, <1>7, <2>2 DEF OnPairRequest, RequestRefused
  <2> QED
    BY <1>2, <1>7, <2>1, <2>2 DEF OnPairRequest
<1>8. ASSUME NEW s \in Devices, NEW p \in Devices,
             \/ AcceptIncoming(p, s) \/ ConnectionEnds(s, p) \/ OnAck(p, s)
             \/ OnPairAccept(p, s) \/ OnPairReject(p, s) \/ BanEnds(p, s)
             \/ RemoveLinkedDevice(s, p)
      PROVE  CodeInv'
  BY <1>2, <1>8 DEF AcceptIncoming, ConnectionEnds, OnAck, OnPairAccept, OnPairReject, BanEnds,
                    RemoveLinkedDevice, pairing
<1>9. ASSUME NEW s \in Devices, NEW p \in Devices, NEW c \in 1 .. MaxCodes + 1,
             ConnectToDevice(s, p, c)
      PROVE  CodeInv'
  BY <1>2, <1>9 DEF ConnectToDevice, pairing
<1> QED
  BY <1>2, <1>4, <1>5, <1>6, <1>7, <1>8, <1>9 DEF Next, vars

\* A code links one device at most, however many devices send it at once, over whatever
\* connections, and whichever of them are lost (validateAndConsume).
THEOREM OneDevicePerCode == Spec => []CodeLinksOne
<1>1. Types /\ CodeInv /\ [Next]_vars => (Types /\ CodeInv)'
  BY TypeStep, CodeStep
<1>2. CodeInv => CodeLinksOne
  BY DEF CodeInv, UsedUp, CodeLinksOne
<1> QED
  BY TypeInit, CodeInit, <1>1, <1>2, PTL DEF Spec

-----------------------------------------------------------------------------
(* A secondary is known to its primary: an acceptance on its way says so too. *)

HasAccept(w) == \E i \in DOMAIN w : w[i].type = "PAIR_ACCEPT"
AcceptsAreTrue ==
    removals = 0 => \A p, s \in Devices : HasAccept(wire[p][s]) => linked[p][s] # NoLink

ListInv == removals \in Nat /\ AcceptsAreTrue /\ PrimaryKnowsSecondary

LEMMA ListInit == Init => ListInv
BY DEF Init, ListInv, AcceptsAreTrue, HasAccept, PrimaryKnowsSecondary, Pairs, NoLink

\* Steps that take no one off a list, put no acceptance on a wire and add no primary.
LEMMA ListKept ==
    ASSUME Types, ListInv, UNCHANGED <<linked, removals>>,
           \A p, s \in Devices : HasAccept(wire'[p][s]) => HasAccept(wire[p][s])
    PROVE  ListInv'
BY DEF ListInv, AcceptsAreTrue, PrimaryKnowsSecondary

\* Which acceptances are on their way after a frame was sent or taken.
LEMMA AcceptAfterAppend ==
    ASSUME NEW q \in Seq(Signals), NEW f \in Signals, HasAccept(Append(q, f))
    PROVE  HasAccept(q) \/ f.type = "PAIR_ACCEPT"
<1>1. PICK i \in DOMAIN Append(q, f) : Append(q, f)[i].type = "PAIR_ACCEPT"
  BY DEF HasAccept
<1>2. /\ DOMAIN Append(q, f) = 1 .. Len(q) + 1 /\ DOMAIN q = 1 .. Len(q) /\ Len(q) \in Nat
      /\ Append(q, f)[Len(q) + 1] = f
      /\ \A j \in 1 .. Len(q) : Append(q, f)[j] = q[j]
  OBVIOUS
<1>3. i \in 1 .. Len(q) \/ i = Len(q) + 1
  BY <1>1, <1>2
<1> QED
  BY <1>1, <1>2, <1>3 DEF HasAccept

LEMMA AcceptAfterTail ==
    ASSUME NEW q \in Seq(Signals), q # <<>>, HasAccept(Tail(q))
    PROVE  HasAccept(q)
<1>1. PICK i \in DOMAIN Tail(q) : Tail(q)[i].type = "PAIR_ACCEPT"
  BY DEF HasAccept
<1>2. i + 1 \in DOMAIN q /\ Tail(q)[i] = q[i + 1]
  BY <1>1
<1> QED
  BY <1>1, <1>2 DEF HasAccept

LEMMA FramesAfterSend ==
    ASSUME NEW w \in [Devices -> [Devices -> Seq(Signals)]],
           NEW d \in Devices, NEW e \in Devices, NEW f \in Signals
    PROVE  /\ f.type # "PAIR_ACCEPT" =>
                  \A x, y \in Devices : HasAccept(Send(w, d, e, f)[x][y]) => HasAccept(w[x][y])
           /\ \A x, y \in Devices : x # d \/ y # e =>
                  (HasAccept(Send(w, d, e, f)[x][y]) => HasAccept(w[x][y]))
<1> DEFINE v == [w EXCEPT ![d][e] = Append(w[d][e], f)]
           q == w[d][e]
<1>1. Send(w, d, e, f) = v
  BY DEF Send
<1>2. q \in Seq(Signals)
  OBVIOUS
<1>3. v[d][e] = Append(q, f)
      /\ \A x, y \in Devices : <<x, y>> # <<d, e>> => v[x][y] = w[x][y]
  OBVIOUS
<1> HIDE DEF v
<1>4. ASSUME NEW x \in Devices, NEW y \in Devices, HasAccept(v[x][y])
      PROVE  HasAccept(w[x][y]) \/ (x = d /\ y = e /\ f.type = "PAIR_ACCEPT")
  <2>1. CASE <<x, y>> # <<d, e>>
    BY <1>3, <1>4, <2>1
  <2>2. CASE x = d /\ y = e
    BY <1>2, <1>3, <1>4, <2>2, AcceptAfterAppend
  <2> QED
    BY <2>1, <2>2
<1> QED
  BY <1>1, <1>4

LEMMA FramesAfterRest ==
    ASSUME WireType, NEW d \in Devices, NEW e \in Devices, wire[d][e] # <<>>
    PROVE  \A x, y \in Devices : HasAccept(Rest(d, e)[x][y]) => HasAccept(wire[x][y])
<1> DEFINE v == Rest(d, e)
           q == wire[d][e]
<1>1. /\ v[d][e] = Tail(q) /\ q \in Seq(Signals) /\ q # <<>>
      /\ \A a, b \in Devices : <<a, b>> # <<d, e>> => v[a][b] = wire[a][b]
  BY RestType DEF WireType
<1> HIDE DEF v, q
<1>2. ASSUME NEW x \in Devices, NEW y \in Devices, HasAccept(v[x][y])
      PROVE  HasAccept(wire[x][y])
  <2>1. CASE <<x, y>> # <<d, e>>
    BY <1>1, <1>2, <2>1
  <2>2. CASE x = d /\ y = e
    BY <1>1, <1>2, <2>2, AcceptAfterTail DEF q
  <2> QED
    BY <2>1, <2>2
<1> QED
  BY <1>2 DEF v

LEMMA ListStep ==
    ASSUME Types, ListInv, [Next]_vars
    PROVE  ListInv'
<1>1. ListType /\ WireType /\ ConnType
  BY DEF Types
<1>2. CASE UNCHANGED <<linked, removals, wire>>
  BY <1>2, ListKept
<1>3. ASSUME NEW s \in Devices, NEW p \in Devices, Close(s, p), UNCHANGED <<linked, removals>>
      PROVE  ListInv'
  <2>1. \A x, y \in Devices : wire'[x][y] \in {<<>>, wire[x][y]}
    BY <1>1, <1>3, CloseType
  <2> QED
    BY <1>3, <2>1, ListKept DEF HasAccept
<1>4. ASSUME NEW d \in Devices, NEW e \in Devices, NEW f \in Signals, f.type # "PAIR_ACCEPT",
             wire' = Send(wire, d, e, f), UNCHANGED <<linked, removals>>
      PROVE  ListInv'
  <2>1. wire \in [Devices -> [Devices -> Seq(Signals)]]
    BY <1>1 DEF WireType
  <2>2. \A x, y \in Devices : HasAccept(Send(wire, d, e, f)[x][y]) => HasAccept(wire[x][y])
    BY <1>4, <2>1, FramesAfterSend
  <2>3. \A x, y \in Devices : HasAccept(wire'[x][y]) => HasAccept(wire[x][y])
    BY <1>4, <2>2
  <2> QED
    BY <1>4, <2>3, ListKept
\* A frame is taken and another sent.
<1>5. ASSUME NEW d \in Devices, NEW e \in Devices, wire[d][e] # <<>>,
             NEW a \in Devices, NEW b \in Devices, NEW f \in Signals,
             wire' = Send(Rest(d, e), a, b, f)
      PROVE  /\ f.type # "PAIR_ACCEPT" =>
                    \A x, y \in Devices : HasAccept(wire'[x][y]) => HasAccept(wire[x][y])
             /\ \A x, y \in Devices : x # a \/ y # b =>
                    (HasAccept(wire'[x][y]) => HasAccept(wire[x][y]))
  <2> DEFINE w == Rest(d, e)
  <2>1. w \in [Devices -> [Devices -> Seq(Signals)]]
    BY <1>1, <1>5, RestType
  <2>2. \A x, y \in Devices : HasAccept(w[x][y]) => HasAccept(wire[x][y])
    BY <1>1, <1>5, FramesAfterRest
  <2>3. wire' = Send(w, a, b, f)
    BY <1>5
  <2> HIDE DEF w
  <2> QED
    BY <1>5, <2>1, <2>2, <2>3, FramesAfterSend
<1>6. ASSUME NEW d \in Devices, GenerateCode(d) \/ Expire(d) \/ ClearCode(d) PROVE ListInv'
  BY <1>2, <1>6 DEF GenerateCode, Expire, ClearCode, bounds
<1>7. ASSUME NEW d \in Devices, Restart(d) PROVE ListInv'
  <2>1. \A x, y \in Devices : wire'[x][y] \in {<<>>, wire[x][y]}
    BY <1>7 DEF Restart
  <2> QED
    BY <1>7, <2>1, ListKept DEF Restart, HasAccept
<1>8. ASSUME NEW s \in Devices, NEW p \in Devices, NEW c \in 1 .. MaxCodes + 1,
             ConnectToDevice(s, p, c)
      PROVE  ListInv'
  BY <1>2, <1>8 DEF ConnectToDevice, pairing
<1>9. ASSUME NEW s \in Devices, NEW p \in Devices, AcceptIncoming(p, s) PROVE ListInv'
  BY <1>4, <1>9, SignalType DEF AcceptIncoming, Msg, Kinds, pairing, bounds
<1>10. ASSUME NEW s \in Devices, NEW p \in Devices,
              ConnectionEnds(s, p) \/ OnPairReject(p, s) \/ BanEnds(p, s)
       PROVE  ListInv'
  BY <1>2, <1>3, <1>10 DEF ConnectionEnds, OnPairReject, BanEnds, pairing, bounds
<1>11. ASSUME NEW s \in Devices, NEW p \in Devices, OnAck(p, s) PROVE ListInv'
  <2>1. UNCHANGED <<linked, removals>> /\ wire[p][s] # <<>>
    BY <1>11 DEF OnAck, FrameIs, pairing, bounds
  <2> DEFINE f == [type |-> "PAIR_REQUEST", code |-> conn[s][p].pendingPairCode]
  <2>2. CASE wire' = Send(Rest(p, s), s, p, f)
    <3>1. f \in Signals /\ f.type # "PAIR_ACCEPT"
      BY <1>1, SignalType DEF ConnType
    <3> HIDE DEF f
    <3> QED
      BY <1>5, <2>1, <2>2, <3>1, ListKept
  <2> QED
    BY <1>3, <1>11, <2>1, <2>2 DEF OnAck
<1>12. ASSUME NEW s \in Devices, NEW p \in Devices, OnPairRequest(s, p) PROVE ListInv'
  <2> DEFINE c == Head(wire[s][p]).code
  <2>1. UNCHANGED removals /\ wire[s][p] # <<>>
    BY <1>12 DEF OnPairRequest, FrameIs, bounds
  <2>2. CASE Close(s, p) /\ UNCHANGED linked
    BY <1>3, <2>1, <2>2
  <2>3. CASE RequestAccepted(s, p, c)
    <3>1. linked' = [linked EXCEPT ![p][s] = "secondary"]
          /\ wire' = Send(Rest(s, p), p, s, Msg("PAIR_ACCEPT"))
      BY <2>3 DEF RequestAccepted, AddSecondary, AddLinkedDevice
    <3>2. Msg("PAIR_ACCEPT") \in Signals
      BY SignalType DEF Msg, Kinds
    <3>3. /\ linked'[p][s] = "secondary" /\ "secondary" # NoLink
          /\ \A x, y \in Devices : <<x, y>> # <<p, s>> => linked'[x][y] = linked[x][y]
      BY <1>1, <3>1 DEF ListType, NoLink
    <3>4. AcceptsAreTrue'
      BY <1>5, <2>1, <3>1, <3>2, <3>3 DEF ListInv, AcceptsAreTrue
    <3>5. PrimaryKnowsSecondary'
      BY <2>1, <3>3 DEF ListInv, PrimaryKnowsSecondary
    <3> QED
      BY <2>1, <3>4, <3>5 DEF ListInv
  <2>4. CASE RequestRefused(s, p, c)
    <3>1. wire' = Send(Rest(s, p), p, s, Msg("PAIR_REJECT")) /\ UNCHANGED linked
      BY <2>4 DEF RequestRefused
    <3>2. Msg("PAIR_REJECT") \in Signals /\ Msg("PAIR_REJECT").type # "PAIR_ACCEPT"
      BY SignalType DEF Msg, Kinds
    <3> QED
      BY <1>5, <2>1, <3>1, <3>2, ListKept
  <2> QED
    BY <1>12, <2>2, <2>3, <2>4 DEF OnPairRequest
<1>13. ASSUME NEW s \in Devices, NEW p \in Devices, OnPairAccept(p, s) PROVE ListInv'
  <2>1. UNCHANGED removals /\ wire[p][s] # <<>> /\ Head(wire[p][s]).type = "PAIR_ACCEPT"
    BY <1>13 DEF OnPairAccept, FrameIs, bounds
  <2>2. CASE Close(s, p) /\ UNCHANGED linked
    BY <1>3, <2>1, <2>2
  <2>3. CASE AddLinkedDevice(s, p, "primary") /\ wire' = Rest(p, s)
    <3>1. removals = 0 => linked[p][s] # NoLink
      <4> DEFINE q == wire[p][s]
      <4>1. q \in Seq(Signals) /\ q # <<>>
        BY <1>1, <2>1 DEF WireType
      <4> HIDE DEF q
      <4>2. 1 \in DOMAIN q /\ Head(q) = q[1]
        BY <4>1
      <4>3. HasAccept(q)
        BY <2>1, <4>2 DEF HasAccept, q
      <4> QED
        BY <4>3 DEF ListInv, AcceptsAreTrue, q
    <3>2. /\ linked'[s][p] = "primary" /\ "primary" # NoLink
          /\ \A x, y \in Devices : <<x, y>> # <<s, p>> => linked'[x][y] = linked[x][y]
      BY <1>1, <2>3 DEF AddLinkedDevice, ListType, NoLink
    <3>3. AcceptsAreTrue'
      BY <1>1, <2>1, <2>3, <3>2, FramesAfterRest DEF ListInv, AcceptsAreTrue
    <3>4. PrimaryKnowsSecondary'
      BY <2>1, <3>1, <3>2 DEF ListInv, PrimaryKnowsSecondary
    <3> QED
      BY <2>1, <3>3, <3>4 DEF ListInv
  <2> QED
    BY <1>13, <2>2, <2>3 DEF OnPairAccept
<1>14. ASSUME NEW s \in Devices, NEW p \in Devices, RemoveLinkedDevice(s, p)
       PROVE  ListInv'
  BY <1>14 DEF RemoveLinkedDevice, ListInv, AcceptsAreTrue, PrimaryKnowsSecondary
<1> QED
  BY <1>2, <1>6, <1>7, <1>8, <1>9, <1>10, <1>11, <1>12, <1>13, <1>14 DEF Next, vars

\* A device that takes another for its primary is on that one's list, whatever was lost or
\* restarted in between, as long as nobody took a device off a list by hand: the primary
\* saves the secondary before it answers, and the secondary saves the primary on the answer.
THEOREM SecondaryIsKnown == Spec => []PrimaryKnowsSecondary
<1>1. Types /\ ListInv /\ [Next]_vars => (Types /\ ListInv)'
  BY TypeStep, ListStep
<1> QED
  BY TypeInit, ListInit, <1>1, PTL DEF Spec, ListInv

-----------------------------------------------------------------------------
(* Guesses: while a code is good, the count of failures has all of them. *)

Live(p) == s_code[p].code # NoCode /\ ~s_code[p].late

GuessInv ==
    \A p, s \in Devices :
        /\ failures[p][s].banned <=> failures[p][s].count >= kMaxUuidFailures
        /\ failures[p][s].count <= kMaxUuidFailures
        /\ guesses[p][s] <= kMaxUuidFailures
        /\ Live(p) => guesses[p][s] <= failures[p][s].count

LEMMA GuessInit == Init => GuessInv
BY PairingAssumption DEF Init, GuessInv, Live, Pairs, Cleared

LEMMA GuessStep ==
    ASSUME Types, GuessInv, [Next]_vars
    PROVE  GuessInv'
<1>1. CodeType /\ BanType /\ UseType
  BY DEF Types
<1>2. ASSUME UNCHANGED <<failures, guesses>>, \A d \in Devices : Live(d)' => Live(d)
      PROVE  GuessInv'
  BY <1>2 DEF GuessInv
<1>3. CASE UNCHANGED <<s_code, failures, guesses>>
  BY <1>2, <1>3 DEF Live
<1>4. ASSUME NEW d \in Devices, s_code' = [s_code EXCEPT ![d] = Cleared]
      PROVE  ~Live(d)' /\ \A e \in Devices : Live(e)' => Live(e)
  BY <1>1, <1>4 DEF Live, Cleared, CodeType
<1>5. ASSUME NEW d \in Devices, GenerateCode(d) PROVE GuessInv'
  <2>1. guesses'[d] = [e \in Devices |-> 0]
        /\ \A e \in Devices : e # d => guesses'[e] = guesses[e]
    BY <1>1, <1>5 DEF GenerateCode, BanType
  <2>2. \A e \in Devices : e # d => s_code'[e] = s_code[e]
    BY <1>1, <1>5 DEF GenerateCode, CodeType
  <2>3. UNCHANGED failures /\ \A s \in Devices : failures[d][s].count \in Nat
    BY <1>1, <1>5 DEF GenerateCode, BanType
  <2> QED
    BY <2>1, <2>2, <2>3, PairingAssumption DEF GuessInv, Live
<1>6. ASSUME NEW d \in Devices, Expire(d) PROVE GuessInv'
  <2>1. \A e \in Devices : Live(e)' => Live(e)
    BY <1>1, <1>6 DEF Expire, Live, CodeType
  <2> QED
    BY <1>2, <1>6, <2>1 DEF Expire
<1>7. ASSUME NEW d \in Devices, ClearCode(d) PROVE GuessInv'
  BY <1>2, <1>4, <1>7 DEF ClearCode
<1>8. ASSUME NEW d \in Devices, Restart(d) PROVE GuessInv'
  <2>1. UNCHANGED guesses /\ ~Live(d)' /\ \A e \in Devices : Live(e)' => Live(e)
    BY <1>4, <1>8 DEF Restart
  <2> DEFINE r == [count |-> 0, banned |-> FALSE]
  <2>2. r.count = 0 /\ r.banned = FALSE
    OBVIOUS
  <2>3. /\ \A s \in Devices : failures'[d][s] = r
        /\ \A e \in Devices : e # d => failures'[e] = failures[e]
    BY <1>1, <1>8 DEF Restart, BanType
  <2> HIDE DEF r
  <2> QED
    BY <2>1, <2>2, <2>3, PairingAssumption DEF GuessInv
<1>9. ASSUME NEW s \in Devices, NEW p \in Devices, BanEnds(p, s) PROVE GuessInv'
  <2> DEFINE r == [count |-> 0, banned |-> FALSE]
  <2>1. r.count = 0 /\ r.banned = FALSE
    OBVIOUS
  <2>2. /\ failures'[p][s] = r
        /\ \A x, y \in Devices : <<x, y>> # <<p, s>> => failures'[x][y] = failures[x][y]
    BY <1>1, <1>9 DEF BanEnds, BanType
  <2>3. UNCHANGED <<guesses, s_code>> /\ (Live(p) => guesses[p][s] = 0)
    BY <1>9 DEF BanEnds, Outlived, Live, pairing
  <2> HIDE DEF r
  <2> QED
    BY <2>1, <2>2, <2>3, PairingAssumption DEF GuessInv, Live
<1>10. ASSUME NEW s \in Devices, NEW p \in Devices, OnPairRequest(s, p) PROVE GuessInv'
  <2> DEFINE c == Head(wire[s][p]).code
  <2>1. CASE UNCHANGED <<s_code, failures, guesses>>
    BY <1>3, <2>1
  <2>2. CASE RequestAccepted(s, p, c)
    BY <1>2, <1>4, <2>2 DEF RequestAccepted, Consumed
  <2>3. CASE RequestRefused(s, p, c) /\ ~Banned(p, s)
    <3>1. CASE Live(p)
      <4>1. RecordUuidFailure(p, s) /\ guesses' = [guesses EXCEPT ![p][s] = @ + 1]
            /\ UNCHANGED s_code
        BY <2>3, <3>1 DEF RequestRefused, Live
      <4>2. /\ failures[p][s].count < kMaxUuidFailures
            /\ failures[p][s].count \in Nat /\ guesses[p][s] \in Nat
            /\ guesses[p][s] <= failures[p][s].count
        BY <1>1, <2>3, <3>1, PairingAssumption DEF GuessInv, BanType, Banned
      <4>3. /\ guesses'[p][s] = guesses[p][s] + 1
            /\ \A x, y \in Devices : <<x, y>> # <<p, s>> => guesses'[x][y] = guesses[x][y]
        BY <1>1, <4>1 DEF BanType
      <4>4. /\ failures'[p][s].count = failures[p][s].count + 1
            /\ failures'[p][s].banned <=> failures[p][s].count + 1 >= kMaxUuidFailures
            /\ \A x, y \in Devices : <<x, y>> # <<p, s>> => failures'[x][y] = failures[x][y]
        BY <1>1, <4>1, FailedType
      <4>5. ASSUME NEW x \in Devices, NEW y \in Devices
            PROVE  /\ failures'[x][y].banned <=> failures'[x][y].count >= kMaxUuidFailures
                   /\ failures'[x][y].count <= kMaxUuidFailures
                   /\ guesses'[x][y] <= kMaxUuidFailures
                   /\ Live(x)' => guesses'[x][y] <= failures'[x][y].count
        <5>1. CASE x = p /\ y = s
          BY <4>2, <4>3, <4>4, <5>1, PairingAssumption
        <5>2. CASE <<x, y>> # <<p, s>>
          BY <4>1, <4>3, <4>4, <5>2 DEF GuessInv, Live
        <5> QED
          BY <5>1, <5>2
      <4> QED
        BY <4>5 DEF GuessInv
    <3>2. CASE ~Live(p)
      BY <1>2, <1>4, <2>3, <3>2 DEF RequestRefused, Live
    <3> QED
      BY <3>1, <3>2
  <2> QED
    BY <1>10, <2>1, <2>2, <2>3 DEF OnPairRequest
<1>11. ASSUME NEW s \in Devices, NEW p \in Devices,
              \/ AcceptIncoming(p, s) \/ ConnectionEnds(s, p) \/ OnAck(p, s)
              \/ OnPairAccept(p, s) \/ OnPairReject(p, s) \/ RemoveLinkedDevice(s, p)
       PROVE  GuessInv'
  BY <1>3, <1>11 DEF AcceptIncoming, ConnectionEnds, OnAck, OnPairAccept, OnPairReject,
                     RemoveLinkedDevice, pairing
<1>12. ASSUME NEW s \in Devices, NEW p \in Devices, NEW c \in 1 .. MaxCodes + 1,
              ConnectToDevice(s, p, c)
       PROVE  GuessInv'
  BY <1>3, <1>12 DEF ConnectToDevice, pairing
<1> QED
  BY <1>3, <1>5, <1>6, <1>7, <1>8, <1>9, <1>10, <1>11, <1>12 DEF Next, vars

\* A good code is tried with at most kMaxUuidFailures wrong guesses from an address, over
\* however many connections: the count of failures keeps all of them as long as the code is
\* good, and the ban that it leads to ends later than the code.
THEOREM GuessesAreBounded == Spec => []GuessesBounded
<1>1. Types /\ GuessInv /\ [Next]_vars => (Types /\ GuessInv)'
  BY TypeStep, GuessStep
<1>2. GuessInv => GuessesBounded
  BY DEF GuessInv, GuessesBounded
<1> QED
  BY TypeInit, GuessInit, <1>1, <1>2, PTL DEF Spec

-----------------------------------------------------------------------------
(* Types of every variable of DevicePairing.  The code of a request is the one its connection *)
(* was opened with, since a connection is accepted once, and the acceptance sends the code.   *)

NoAck(q) == \A i \in DOMAIN q : q[i].type # "ACK"
OneAck(q) == \A i, j \in DOMAIN q : q[i].type = "ACK" /\ q[j].type = "ACK" => i = j
Framed(q) == \A i \in DOMAIN q : q[i] \in Frames
HasCode(c) == c.state = "up" /\ c.pendingPairCode # NoCode

CodesWait ==
    \A s, p \in Devices :
        /\ conn[s][p].pendingPairCode \in 0 .. MaxCodes + 1
        /\ conn[s][p].state = "asked" => conn[s][p].pendingPairCode # NoCode
AcksFirst ==
    \A s, p \in Devices :
        /\ Framed(wire[p][s]) /\ OneAck(wire[p][s])
        /\ NoAck(wire[p][s]) \/ HasCode(conn[s][p])
Bounded ==
    /\ made \in 0 .. MaxCodes /\ dials \in 0 .. MaxDials
    /\ restarts \in 0 .. MaxRestarts /\ removals \in 0 .. MaxRemovals

PairInv == CodesWait /\ AcksFirst /\ Bounded

LEMMA PairInit == Init => PairInv
<1>1. Init => CodesWait /\ AcksFirst
  BY PairingAssumption
     DEF Init, CodesWait, AcksFirst, Framed, OneAck, NoAck, Pairs, Closed, NoCode
<1>2. Init => Bounded
  BY PairingAssumption DEF Init, Bounded
<1> QED
  BY <1>1, <1>2 DEF PairInv

LEMMA FrameSet ==
    /\ \A t \in {"ACK", "PAIR_ACCEPT", "PAIR_REJECT"} : Msg(t) \in Frames /\ Msg(t).type = t
    /\ \A n \in 1 .. MaxCodes + 1 :
          /\ [type |-> "PAIR_REQUEST", code |-> n] \in Frames
          /\ [type |-> "PAIR_REQUEST", code |-> n].type = "PAIR_REQUEST"
    /\ Frames \subseteq Signals
<1>1. \A n \in 1 .. MaxCodes + 1 : n \in Nat
  BY PairingAssumption
<1> QED
  BY <1>1 DEF Frames, Signals, Kinds, Msg

LEMMA AckAfterAppend ==
    ASSUME NEW q \in Seq(Signals), NEW f \in Frames, Framed(q), OneAck(q)
    PROVE  /\ Framed(Append(q, f))
           /\ NoAck(q) \/ f.type # "ACK" => OneAck(Append(q, f))
           /\ NoAck(q) /\ f.type # "ACK" => NoAck(Append(q, f))
<1>1. /\ DOMAIN Append(q, f) = 1 .. Len(q) + 1 /\ DOMAIN q = 1 .. Len(q) /\ Len(q) \in Nat
      /\ Append(q, f)[Len(q) + 1] = f
      /\ \A j \in 1 .. Len(q) : Append(q, f)[j] = q[j]
  BY FrameSet
<1> DEFINE r == Append(q, f)
<1> HIDE DEF r
<1>2. \A i \in DOMAIN r : \/ i \in DOMAIN q /\ r[i] = q[i]
                          \/ i = Len(q) + 1 /\ r[i] = f
  BY <1>1 DEF r
<1>3. Framed(r)
  BY <1>2 DEF Framed
<1>4. NoAck(q) \/ f.type # "ACK" => OneAck(r)
  BY <1>2 DEF OneAck, NoAck
<1>5. NoAck(q) /\ f.type # "ACK" => NoAck(r)
  BY <1>2 DEF NoAck
<1> QED
  BY <1>3, <1>4, <1>5 DEF r

LEMMA AckAfterTail ==
    ASSUME NEW q \in Seq(Signals), q # <<>>, Framed(q), OneAck(q)
    PROVE  /\ Framed(Tail(q)) /\ OneAck(Tail(q))
           /\ NoAck(q) => NoAck(Tail(q))
           /\ Head(q).type = "ACK" => NoAck(Tail(q))
<1> DEFINE r == Tail(q)
<1>1. /\ \A i \in DOMAIN r : i \in Nat /\ i + 1 \in DOMAIN q /\ r[i] = q[i + 1] /\ i + 1 # 1
      /\ 1 \in DOMAIN q /\ Head(q) = q[1]
  OBVIOUS
<1> HIDE DEF r
<1>2. Framed(r) /\ (NoAck(q) => NoAck(r))
  BY <1>1 DEF Framed, NoAck
<1>3. OneAck(r)
  <2> SUFFICES ASSUME NEW i \in DOMAIN r, NEW j \in DOMAIN r,
                      r[i].type = "ACK", r[j].type = "ACK"
               PROVE  i = j
    BY DEF OneAck
  <2>1. i + 1 = j + 1
    BY <1>1 DEF OneAck
  <2> QED
    BY <1>1, <2>1
<1>4. Head(q).type = "ACK" => NoAck(r)
  BY <1>1 DEF OneAck, NoAck
<1> QED
  BY <1>2, <1>3, <1>4 DEF r

\* What is on the wires after a frame was sent.
LEMMA AcksAfterSend ==
    ASSUME NEW w \in [Devices -> [Devices -> Seq(Signals)]],
           NEW d \in Devices, NEW e \in Devices, NEW f \in Frames,
           \A x, y \in Devices : Framed(w[x][y]) /\ OneAck(w[x][y]),
           NoAck(w[d][e]) \/ f.type # "ACK",
           wire' = Send(w, d, e, f)
    PROVE  \A x, y \in Devices :
               /\ Framed(wire'[x][y]) /\ OneAck(wire'[x][y])
               /\ NoAck(w[x][y]) /\ (<<x, y>> # <<d, e>> \/ f.type # "ACK") => NoAck(wire'[x][y])
<1>1. wire'[d][e] = Append(w[d][e], f)
      /\ \A x, y \in Devices : <<x, y>> # <<d, e>> => wire'[x][y] = w[x][y]
  <2> DEFINE q == Append(w[d][e], f)
  <2>1. wire' = [w EXCEPT ![d][e] = q]
    BY DEF Send
  <2> HIDE DEF q
  <2>2. wire'[d][e] = q /\ \A x, y \in Devices : <<x, y>> # <<d, e>> => wire'[x][y] = w[x][y]
    BY <2>1
  <2> QED
    BY <2>2 DEF q
<1>2. w[d][e] \in Seq(Signals)
  OBVIOUS
<1>3. /\ Framed(wire'[d][e]) /\ OneAck(wire'[d][e])
      /\ NoAck(w[d][e]) /\ f.type # "ACK" => NoAck(wire'[d][e])
  BY <1>1, <1>2, AckAfterAppend
<1> TAKE x, y \in Devices
<1>4. CASE <<x, y>> # <<d, e>>
  BY <1>1, <1>4
<1>5. CASE x = d /\ y = e
  BY <1>3, <1>5
<1> QED
  BY <1>4, <1>5

LEMMA AcksAfterRest ==
    ASSUME WireType, AcksFirst, NEW d \in Devices, NEW e \in Devices, wire[d][e] # <<>>
    PROVE  /\ \A x, y \in Devices :
                  /\ Framed(Rest(d, e)[x][y]) /\ OneAck(Rest(d, e)[x][y])
                  /\ NoAck(wire[x][y]) => NoAck(Rest(d, e)[x][y])
           /\ Head(wire[d][e]).type = "ACK" => NoAck(Rest(d, e)[d][e])
<1> DEFINE w == Rest(d, e)
           q == wire[d][e]
<1>1. w[d][e] = Tail(q) /\ \A x, y \in Devices : <<x, y>> # <<d, e>> => w[x][y] = wire[x][y]
  BY RestType
<1>2. \A x, y \in Devices : Framed(wire[x][y]) /\ OneAck(wire[x][y])
  BY DEF AcksFirst
<1>3. q \in Seq(Signals) /\ q # <<>> /\ Framed(q) /\ OneAck(q)
  BY <1>2 DEF WireType
<1>4. /\ Framed(w[d][e]) /\ OneAck(w[d][e]) /\ (NoAck(q) => NoAck(w[d][e]))
      /\ Head(q).type = "ACK" => NoAck(w[d][e])
  <2> HIDE DEF w, q
  <2> QED
    BY <1>1, <1>3, AckAfterTail
<1> HIDE DEF w
<1>5. ASSUME NEW x \in Devices, NEW y \in Devices
      PROVE  Framed(w[x][y]) /\ OneAck(w[x][y]) /\ (NoAck(wire[x][y]) => NoAck(w[x][y]))
  <2>1. CASE <<x, y>> # <<d, e>>
    BY <1>1, <1>2, <2>1
  <2>2. CASE x = d /\ y = e
    BY <1>4, <2>2
  <2> QED
    BY <2>1, <2>2
<1> QED
  BY <1>4, <1>5 DEF w

LEMMA PairKept ==
    ASSUME PairInv, UNCHANGED <<conn, wire>>, Bounded'
    PROVE  PairInv'
BY DEF PairInv, CodesWait, AcksFirst

LEMMA CloseKeeps ==
    ASSUME Types, PairInv, NEW s \in Devices, NEW p \in Devices, Close(s, p), Bounded'
    PROVE  PairInv'
<1>1. /\ wire' = [wire EXCEPT ![s][p] = <<>>, ![p][s] = <<>>]
      /\ conn' = [conn EXCEPT ![s][p] = Closed]
  BY DEF Close
<1>2. WireType /\ ConnType
  BY DEF Types
<1> DEFINE w == [wire EXCEPT ![s][p] = <<>>]
<1>3. /\ w[s][p] = <<>> /\ \A x, y \in Devices : <<x, y>> # <<s, p>> => w[x][y] = wire[x][y]
      /\ w \in [Devices -> [Devices -> Seq(Signals)]]
  BY <1>2 DEF WireType
<1>4. wire' = [w EXCEPT ![p][s] = <<>>]
  BY <1>1
<1> HIDE DEF w
<1>5. /\ wire'[s][p] = <<>> /\ wire'[p][s] = <<>>
      /\ \A x, y \in Devices : <<x, y>> # <<s, p>> /\ <<x, y>> # <<p, s>> =>
            wire'[x][y] = wire[x][y]
  BY <1>3, <1>4
<1>6. /\ conn'[s][p] = Closed
      /\ \A x, y \in Devices : <<x, y>> # <<s, p>> => conn'[x][y] = conn[x][y]
  BY <1>1, <1>2 DEF ConnType
<1>7. CodesWait'
  <2>1. Closed.pendingPairCode = 0 /\ Closed.state = "closed" /\ 0 \in 0 .. MaxCodes + 1
    BY PairingAssumption DEF Closed, NoCode
  <2> QED
    BY <1>6, <2>1 DEF PairInv, CodesWait
<1>8. AcksFirst'
  <2>1. Framed(<<>>) /\ OneAck(<<>>) /\ NoAck(<<>>)
    BY DEF Framed, OneAck, NoAck
  <2>2. ASSUME NEW x \in Devices, NEW y \in Devices
        PROVE  /\ Framed(wire'[y][x]) /\ OneAck(wire'[y][x])
               /\ NoAck(wire'[y][x]) \/ HasCode(conn'[x][y])
    <3>1. CASE <<y, x>> = <<s, p>> \/ <<y, x>> = <<p, s>>
      BY <1>5, <2>1, <3>1
    <3>2. CASE <<y, x>> # <<s, p>> /\ <<y, x>> # <<p, s>>
      BY <1>5, <1>6, <3>2 DEF PairInv, AcksFirst
    <3> QED
      BY <3>1, <3>2
  <2> QED
    BY <2>2 DEF AcksFirst, HasCode
<1> QED
  BY <1>7, <1>8 DEF PairInv

\* A step that changes one connection and the frames.
LEMMA FramesKeep ==
    ASSUME ConnType, PairInv, NEW s \in Devices, NEW p \in Devices,
           NEW c \in [state : {"closed", "asked", "up"}, pendingPairCode : 0 .. MaxCodes + 1],
           conn' = [conn EXCEPT ![s][p] = c],
           c.state = "asked" => c.pendingPairCode # NoCode,
           \A x, y \in Devices : Framed(wire'[x][y]) /\ OneAck(wire'[x][y]),
           \A x, y \in Devices :
               <<x, y>> # <<p, s>> /\ NoAck(wire[x][y]) => NoAck(wire'[x][y]),
           NoAck(wire'[p][s]) \/ HasCode(c),
           Bounded'
    PROVE  PairInv'
<1>1. /\ conn'[s][p] = c
      /\ \A x, y \in Devices : <<x, y>> # <<s, p>> => conn'[x][y] = conn[x][y]
  BY DEF ConnType
<1>2. CodesWait'
  BY <1>1 DEF PairInv, CodesWait
<1>3. AcksFirst'
  BY <1>1 DEF PairInv, AcksFirst, HasCode
<1> QED
  BY <1>2, <1>3 DEF PairInv

\* A step that changes the frames only.
LEMMA FramesOnly ==
    ASSUME PairInv, UNCHANGED conn,
           \A x, y \in Devices : /\ Framed(wire'[x][y]) /\ OneAck(wire'[x][y])
                                 /\ NoAck(wire[x][y]) => NoAck(wire'[x][y]),
           Bounded'
    PROVE  PairInv'
BY DEF PairInv, CodesWait, AcksFirst

LEMMA BoundedNext ==
    ASSUME Bounded, [Next]_vars
    PROVE  Bounded'
<1> USE PairingAssumption DEF Bounded
<1>1. ASSUME NEW d \in Devices, GenerateCode(d) \/ Expire(d) \/ ClearCode(d) \/ Restart(d)
      PROVE  Bounded'
  BY <1>1 DEF GenerateCode, Expire, ClearCode, Restart, bounds
<1>2. ASSUME NEW s \in Devices, NEW p \in Devices, NEW c \in 1 .. MaxCodes + 1,
             ConnectToDevice(s, p, c)
      PROVE  Bounded'
  BY <1>2 DEF ConnectToDevice, pairing
<1>3. ASSUME NEW s \in Devices, NEW p \in Devices,
             \/ AcceptIncoming(p, s) \/ ConnectionEnds(s, p) \/ OnAck(p, s)
             \/ OnPairRequest(s, p) \/ OnPairAccept(p, s) \/ OnPairReject(p, s)
             \/ BanEnds(p, s) \/ RemoveLinkedDevice(s, p)
      PROVE  Bounded'
  BY <1>3 DEF AcceptIncoming, ConnectionEnds, OnAck, OnPairRequest, OnPairAccept, OnPairReject,
              BanEnds, RemoveLinkedDevice, pairing, bounds
<1> QED
  BY <1>1, <1>2, <1>3 DEF Next, vars

LEMMA PairStep ==
    ASSUME Types, PairInv, [Next]_vars
    PROVE  PairInv'
<1>1. WireType /\ ConnType /\ AcksFirst /\ CodesWait
  BY DEF Types, PairInv
<1>2. Bounded'
  BY BoundedNext DEF PairInv
<1> DEFINE Records == [state : {"closed", "asked", "up"}, pendingPairCode : 0 .. MaxCodes + 1]
<1>3. CASE UNCHANGED <<conn, wire>>
  BY <1>2, <1>3, PairKept
<1>4. ASSUME NEW s \in Devices, NEW p \in Devices, Close(s, p) PROVE PairInv'
  BY <1>2, <1>4, CloseKeeps
<1>5. ASSUME NEW d \in Devices, NEW e \in Devices PROVE conn[d][e] \in Records
  BY <1>1 DEF ConnType, CodesWait
<1>6. ASSUME NEW d \in Devices, GenerateCode(d) \/ Expire(d) \/ ClearCode(d) PROVE PairInv'
  BY <1>3, <1>6 DEF GenerateCode, Expire, ClearCode
<1>7. ASSUME NEW d \in Devices, Restart(d) PROVE PairInv'
  <2>1. \A x, y \in Devices : /\ conn'[x][y] = IF d \in {x, y} THEN Closed ELSE conn[x][y]
                              /\ wire'[x][y] = IF d \in {x, y} THEN <<>> ELSE wire[x][y]
    BY <1>7 DEF Restart
  <2>2. Closed.pendingPairCode = 0 /\ Closed.state = "closed" /\ 0 \in 0 .. MaxCodes + 1
    BY PairingAssumption DEF Closed, NoCode
  <2>3. Framed(<<>>) /\ OneAck(<<>>) /\ NoAck(<<>>)
    BY DEF Framed, OneAck, NoAck
  <2>4. CodesWait'
    BY <1>1, <2>1, <2>2 DEF CodesWait
  <2>5. ASSUME NEW x \in Devices, NEW y \in Devices
        PROVE  /\ Framed(wire'[y][x]) /\ OneAck(wire'[y][x])
               /\ NoAck(wire'[y][x]) \/ HasCode(conn'[x][y])
    <3>1. CASE d \in {x, y}
      BY <2>1, <2>3, <3>1
    <3>2. CASE d \notin {x, y}
      BY <1>1, <2>1, <3>2 DEF AcksFirst
    <3> QED
      BY <3>1, <3>2
  <2>6. AcksFirst'
    BY <2>5 DEF AcksFirst, HasCode
  <2> QED
    BY <1>2, <2>4, <2>6 DEF PairInv
<1>8. ASSUME NEW s \in Devices, NEW p \in Devices, NEW c \in 1 .. MaxCodes + 1,
             ConnectToDevice(s, p, c)
      PROVE  PairInv'
  <2>1. PICK r \in Records : r = [state |-> "asked", pendingPairCode |-> c]
    <3>1. c \in 0 .. MaxCodes + 1
      BY PairingAssumption
    <3> QED
      BY <3>1
  <2>2. conn' = [conn EXCEPT ![s][p] = r] /\ UNCHANGED wire /\ conn[s][p] = Closed
    BY <1>8, <2>1 DEF ConnectToDevice
  <2>3. NoAck(wire[p][s])
    BY <1>1, <2>2 DEF AcksFirst, HasCode, Closed
  <2>4. r.pendingPairCode # NoCode
    BY <2>1, PairingAssumption DEF NoCode
  <2>5. \A x, y \in Devices : Framed(wire[x][y]) /\ OneAck(wire[x][y])
    BY <1>1 DEF AcksFirst
  <2> QED
    BY <1>1, <1>2, <2>2, <2>3, <2>4, <2>5, FramesKeep
<1>9. ASSUME NEW s \in Devices, NEW p \in Devices, AcceptIncoming(p, s) PROVE PairInv'
  <2>1. PICK r \in Records : r = [conn[s][p] EXCEPT !.state = "up"]
    BY <1>5
  <2>2. /\ conn' = [conn EXCEPT ![s][p] = r] /\ wire' = Send(wire, p, s, Msg("ACK"))
        /\ conn[s][p].state = "asked"
    BY <1>9, <2>1 DEF AcceptIncoming
  <2>3. HasCode(r)
    BY <1>1, <1>5, <2>1, <2>2 DEF CodesWait, HasCode
  <2>4. NoAck(wire[p][s])
    BY <1>1, <2>2 DEF AcksFirst, HasCode
  <2>5. \A x, y \in Devices : Framed(wire[x][y]) /\ OneAck(wire[x][y])
    BY <1>1 DEF AcksFirst
  <2>6. PICK f \in Frames : f = Msg("ACK")
    BY FrameSet
  <2>7. wire \in [Devices -> [Devices -> Seq(Signals)]] /\ wire' = Send(wire, p, s, f)
    BY <1>1, <2>2, <2>6 DEF WireType
  <2>8. \A x, y \in Devices :
            /\ Framed(wire'[x][y]) /\ OneAck(wire'[x][y])
            /\ NoAck(wire[x][y]) /\ <<x, y>> # <<p, s>> => NoAck(wire'[x][y])
    BY <2>4, <2>5, <2>7, AcksAfterSend
  <2> QED
    BY <1>1, <1>2, <2>2, <2>3, <2>8, FramesKeep DEF HasCode
<1>10. ASSUME NEW s \in Devices, NEW p \in Devices,
              ConnectionEnds(s, p) \/ OnPairReject(p, s) \/ BanEnds(p, s)
                 \/ RemoveLinkedDevice(s, p)
       PROVE  PairInv'
  BY <1>3, <1>4, <1>10 DEF ConnectionEnds, OnPairReject, BanEnds, RemoveLinkedDevice
\* A frame is taken and another, which is no acknowledgement, sent.
<1>11. ASSUME NEW d \in Devices, NEW e \in Devices, wire[d][e] # <<>>,
              NEW a \in Devices, NEW b \in Devices, NEW f \in Frames, f.type # "ACK",
              wire' = Send(Rest(d, e), a, b, f)
       PROVE  /\ \A x, y \in Devices :
                     /\ Framed(wire'[x][y]) /\ OneAck(wire'[x][y])
                     /\ NoAck(wire[x][y]) => NoAck(wire'[x][y])
              /\ Head(wire[d][e]).type = "ACK" => NoAck(wire'[d][e])
  <2> DEFINE w == Rest(d, e)
  <2>1. w \in [Devices -> [Devices -> Seq(Signals)]]
    BY <1>1, <1>11, RestType
  <2>2. /\ \A x, y \in Devices : /\ Framed(w[x][y]) /\ OneAck(w[x][y])
                                 /\ NoAck(wire[x][y]) => NoAck(w[x][y])
        /\ Head(wire[d][e]).type = "ACK" => NoAck(w[d][e])
    BY <1>1, <1>11, AcksAfterRest
  <2>3. wire' = Send(w, a, b, f)
    BY <1>11
  <2> HIDE DEF w
  <2>4. \A x, y \in Devices : /\ Framed(wire'[x][y]) /\ OneAck(wire'[x][y])
                              /\ NoAck(w[x][y]) => NoAck(wire'[x][y])
    <3>1. \A x, y \in Devices : Framed(w[x][y]) /\ OneAck(w[x][y])
      BY <2>2
    <3>2. f.type # "ACK"
      BY <1>11
    <3>3. \A x, y \in Devices :
              /\ Framed(wire'[x][y]) /\ OneAck(wire'[x][y])
              /\ NoAck(w[x][y]) /\ (<<x, y>> # <<a, b>> \/ f.type # "ACK") => NoAck(wire'[x][y])
      BY <2>1, <2>3, <3>1, <3>2, AcksAfterSend
    <3> QED
      BY <3>2, <3>3
  <2>5. \A x, y \in Devices : /\ Framed(wire'[x][y]) /\ OneAck(wire'[x][y])
                              /\ NoAck(wire[x][y]) => NoAck(wire'[x][y])
    BY <2>2, <2>4
  <2>6. Head(wire[d][e]).type = "ACK" => NoAck(wire'[d][e])
    BY <2>2, <2>4
  <2> QED
    BY <2>5, <2>6
<1>12. ASSUME NEW s \in Devices, NEW p \in Devices, OnAck(p, s) PROVE PairInv'
  <2>1. wire[p][s] # <<>> /\ Head(wire[p][s]).type = "ACK"
    BY <1>12 DEF OnAck, FrameIs
  <2> DEFINE code == conn[s][p].pendingPairCode
             request == [type |-> "PAIR_REQUEST", code |-> code]
  <2>2. CASE /\ wire' = Send(Rest(p, s), s, p, request)
             /\ conn' = [conn EXCEPT ![s][p].pendingPairCode = NoCode]
    <3>1. HasCode(conn[s][p])
      <4>1. wire[p][s] \in Seq(Signals)
        BY <1>1 DEF WireType
      <4>2. 1 \in DOMAIN wire[p][s] /\ Head(wire[p][s]) = wire[p][s][1]
        BY <2>1, <4>1
      <4>3. ~NoAck(wire[p][s])
        BY <2>1, <4>2 DEF NoAck
      <4> QED
        BY <1>1, <4>3 DEF AcksFirst
    <3>2. code \in 1 .. MaxCodes + 1
      BY <1>1, <3>1, PairingAssumption DEF CodesWait, HasCode, NoCode
    <3>3. PICK f \in Frames : f = request /\ f.type # "ACK"
      <4> HIDE DEF code
      <4> QED
        BY <3>2, FrameSet
    <3>4. PICK r \in Records : r = [conn[s][p] EXCEPT !.pendingPairCode = NoCode]
      <4>1. NoCode \in 0 .. MaxCodes + 1
        BY PairingAssumption DEF NoCode
      <4>2. conn[s][p] \in Records
        BY <1>5
      <4> QED
        BY <4>1, <4>2
    <3>5. conn' = [conn EXCEPT ![s][p] = r] /\ wire' = Send(Rest(p, s), s, p, f)
      BY <2>2, <3>3, <3>4
    <3>6. r.state # "asked"
      BY <1>5, <3>1, <3>4 DEF HasCode
    <3>7. /\ \A x, y \in Devices :
                 /\ Framed(wire'[x][y]) /\ OneAck(wire'[x][y])
                 /\ NoAck(wire[x][y]) => NoAck(wire'[x][y])
          /\ NoAck(wire'[p][s])
      BY <1>11, <2>1, <3>3, <3>5
    <3> QED
      BY <1>1, <1>2, <3>5, <3>6, <3>7, FramesKeep
  <2> QED
    BY <1>4, <1>12, <2>2 DEF OnAck
<1>13. ASSUME NEW s \in Devices, NEW p \in Devices, OnPairRequest(s, p) PROVE PairInv'
  <2> DEFINE c == Head(wire[s][p]).code
  <2>1. wire[s][p] # <<>>
    BY <1>13 DEF OnPairRequest, FrameIs
  <2>2. ASSUME NEW t \in {"PAIR_ACCEPT", "PAIR_REJECT"},
               wire' = Send(Rest(s, p), p, s, Msg(t)), UNCHANGED conn
        PROVE  PairInv'
    <3>1. PICK f \in Frames : f = Msg(t) /\ f.type # "ACK"
      BY FrameSet
    <3>2. wire' = Send(Rest(s, p), p, s, f)
      BY <2>2, <3>1
    <3>3. \A x, y \in Devices : /\ Framed(wire'[x][y]) /\ OneAck(wire'[x][y])
                                /\ NoAck(wire[x][y]) => NoAck(wire'[x][y])
      BY <1>11, <2>1, <3>1, <3>2
    <3> QED
      BY <1>2, <2>2, <3>3, FramesOnly
  <2>3. CASE Close(s, p)
    BY <1>4, <2>3
  <2>4. CASE RequestAccepted(s, p, c)
    BY <2>2, <2>4 DEF RequestAccepted
  <2>5. CASE RequestRefused(s, p, c)
    BY <2>2, <2>5 DEF RequestRefused
  <2> QED
    BY <1>13, <2>3, <2>4, <2>5 DEF OnPairRequest
<1>14. ASSUME NEW s \in Devices, NEW p \in Devices, OnPairAccept(p, s) PROVE PairInv'
  <2>1. CASE wire' = Rest(p, s) /\ UNCHANGED conn
    <3>1. \A x, y \in Devices : /\ Framed(wire'[x][y]) /\ OneAck(wire'[x][y])
                                /\ NoAck(wire[x][y]) => NoAck(wire'[x][y])
      BY <1>1, <1>14, <2>1, AcksAfterRest DEF OnPairAccept, FrameIs
    <3> QED
      BY <1>2, <2>1, <3>1, FramesOnly
  <2> QED
    BY <1>4, <1>14, <2>1 DEF OnPairAccept
<1> QED
  BY <1>3, <1>6, <1>7, <1>8, <1>9, <1>10, <1>12, <1>13, <1>14 DEF Next, vars

LEMMA FramesOfWire ==
    ASSUME NEW q \in Seq(Signals), Framed(q)
    PROVE  q \in Seq(Frames)
BY DEF Framed

\* Codes, lists, connections, frames and bans are always well typed: a request is never sent
\* without a code (connectToDevice, HANDSHAKE_ACK), and no address is counted beyond the ban.
THEOREM PairingIsTyped == Spec => []TypeOK
<1> DEFINE Inv == Types /\ CodeInv /\ GuessInv /\ PairInv
<1>1. Init => Inv
  BY TypeInit, CodeInit, GuessInit, PairInit
<1>2. Inv /\ [Next]_vars => Inv'
  BY TypeStep, CodeStep, GuessStep, PairStep
<1>3. Inv => TypeOK
  <2> SUFFICES ASSUME Inv PROVE TypeOK
    OBVIOUS
  <2>1. s_code \in [Devices -> [code : Codes \cup {NoCode}, late : BOOLEAN]]
    <3>1. \A d \in Devices : s_code[d].code \in Codes \cup {NoCode}
      BY PairingAssumption
         DEF Types, CodeType, CodeInv, CodesMade, PairInv, Bounded, Codes, NoCode
    <3> QED
      BY <3>1 DEF Types, CodeType
  <2>2. conn \in [Devices -> [Devices -> [state : {"closed", "asked", "up"},
                                         pendingPairCode : 0 .. MaxCodes + 1]]]
    BY DEF Types, ConnType, PairInv, CodesWait
  <2>3. wire \in [Devices -> [Devices -> Seq(Frames)]]
    <3>1. \A x, y \in Devices : wire[x][y] \in Seq(Signals) /\ Framed(wire[x][y])
      BY DEF Types, WireType, PairInv, AcksFirst
    <3>2. \A x, y \in Devices : wire[x][y] \in Seq(Frames)
      BY <3>1, FramesOfWire
    <3> QED
      BY <3>2 DEF Types, WireType
  <2>4. failures \in [Devices -> [Devices -> [count : 0 .. kMaxUuidFailures, banned : BOOLEAN]]]
    <3>1. \A x, y \in Devices :
              failures[x][y] \in [count : 0 .. kMaxUuidFailures, banned : BOOLEAN]
      BY PairingAssumption DEF Types, BanType, GuessInv
    <3> QED
      BY <3>1 DEF Types, BanType
  <2> QED
    BY <2>1, <2>2, <2>3, <2>4
       DEF Types, ListType, BanType, UseType, PairInv, Bounded, TypeOK
<1> QED
  BY <1>1, <1>2, <1>3, PTL DEF Spec

-----------------------------------------------------------------------------
(* The settings.  What is not surely on the disk is unsure, and a save that no other one   *)
(* crosses has all of memory.                                                              *)

Roots == [uuid : Nat, changes : SUBSET Nat]
InFile(t) == saver[t].at \in {"open", "write"}

SettingsTypes ==
    /\ mem \in Roots
    /\ file.kind \in {"missing", "malformed", "object"}
    /\ file.kind = "object" => file.root \in Roots
    /\ saver \in [Threads -> [at : {"idle"}] \cup [at : {"set"}, change : Nat]
                                 \cup [at : {"open", "write"}, change : Nat, root : Roots]]
    /\ up \in {"down", "loading", "up"}
    /\ uuids \in Nat /\ sets \in Nat /\ identity \in Nat
    /\ acked \subseteq 1 .. sets

\* The program that does not run saves nothing, and what was unsure is lost.
DownInv == up = "down" => unsure = {} /\ \A t \in Threads : saver[t].at = "idle"

\* The file holds all that is not unsure and not lost.
FileInv ==
    /\ file.kind = "object" => file.root.uuid # 0
    /\ 0 \notin lost \cup unsure => file.kind = "object" /\ file.root.uuid = identity
    /\ \A c \in acked \ (lost \cup unsure) : file.kind = "object" /\ c \in file.root.changes

\* Memory has all that was saved.
MemInv == up # "down" =>
    mem.uuid # 0 /\ mem.uuid = identity /\ 0 \notin lost /\ acked \ lost \subseteq mem.changes

\* So has the document of a save that no other crosses; while the file is empty all is
\* unsure.
SaveInv ==
    \A t \in Threads :
        /\ saver[t].at # "idle" => saver[t].change \in mem.changes \cup {0} /\ saver[t].change <= sets
        /\ InFile(t) => saver[t].root.uuid = mem.uuid
        /\ InFile(t) /\ t \notin crossed =>
              /\ saver[t].change \in saver[t].root.changes \cup {0}
              /\ acked \ lost \subseteq saver[t].root.changes
              /\ saver[t].at = "write" => file.kind # "object"
              /\ \A u \in Threads : InFile(u) => u = t
        /\ saver[t].at = "write" => 0 \in unsure /\ saver[t].change \in unsure /\ acked \subseteq unsure

SettingsInv == SettingsTypes /\ DownInv /\ FileInv /\ MemInv /\ SaveInv

Saving == [at : {"open", "write"}, change : Nat, root : Roots]

LEMMA SaverKinds ==
    ASSUME SettingsTypes, NEW t \in Threads
    PROVE  /\ saver[t].at = "set" => saver[t].change \in Nat
           /\ InFile(t) => saver[t] \in Saving
           /\ saver[t].at \in {"idle", "set", "open", "write"}
BY DEF SettingsTypes, InFile, Saving

LEMMA SettingsInit == Settings!Init => SettingsInv
<1> SUFFICES ASSUME Settings!Init PROVE SettingsInv
  OBVIOUS
<1>1. /\ mem = [uuid |-> 0, changes |-> {}] /\ file = [kind |-> "missing"] /\ up = "down"
      /\ uuids = 0 /\ sets = 0 /\ identity = 0 /\ acked = {} /\ unsure = {} /\ lost = {0}
      /\ saver = [t \in Threads |-> [at |-> "idle"]]
  BY DEF Settings!Init, Settings!Defaults, Settings!Missing, Settings!Idle, Settings!NoUuid,
     Settings!Identity
<1>2. SettingsTypes
  BY <1>1 DEF SettingsTypes, Roots
<1>3. \A t \in Threads : saver[t].at = "idle"
  BY <1>1
<1> QED
  BY <1>1, <1>2, <1>3 DEF SettingsInv, DownInv, FileInv, MemInv, SaveInv, InFile

\* What load does with what it took the file to hold.
LEMMA LoadsStep ==
    ASSUME SettingsInv, NEW f, NEW gone, Settings!Loads(f, gone), UNCHANGED file,
           \/ f = file /\ gone = lost
           \/ f.kind = "missing" /\ gone = lost \cup (0 .. sets)
    PROVE  SettingsInv'
<1> USE DEF SettingsInv
<1>0. up = "down" /\ UNCHANGED <<file, sets, acked>> /\ lost' = gone \ {0}
      /\ identity' = IF 0 \in gone THEN mem'.uuid ELSE identity
  BY DEF Settings!Loads, Settings!Identity
<1>1. unsure = {} /\ \A t \in Threads : saver[t].at = "idle"
  BY <1>0 DEF DownInv
<1>2. CASE f.kind = "object"
  <2>0. f = file /\ gone = lost
    BY <1>2
  <2>1. saver' = saver /\ up' = "up" /\ unsure' = unsure
    BY <1>2 DEF Settings!Loads
  <2>2. mem' = file.root
    BY <1>2, <2>0 DEF Settings!Loads, Settings!WithIdentity, Settings!NoUuid, FileInv
  <2>3. SettingsTypes'
    BY <1>0, <1>2, <2>0, <2>1, <2>2 DEF SettingsTypes, Settings!Loads, Roots
  <2>4. mem'.uuid = identity'
    BY <1>0, <1>1, <1>2, <2>0, <2>2 DEF FileInv
  <2>5. \A c \in acked : c # 0
    BY DEF SettingsTypes
  <2>6. \A c \in acked \ (lost' \cup unsure') : c \in file.root.changes
    <3> SUFFICES ASSUME NEW c \in acked, c \notin lost' PROVE c \in file.root.changes
      OBVIOUS
    <3>1. c \notin lost /\ c \notin unsure
      BY <1>0, <1>1, <2>0, <2>5
    <3> QED
      BY <3>1 DEF FileInv
  <2>7. FileInv'
    BY <1>0, <1>2, <2>0, <2>2, <2>4, <2>6 DEF FileInv
  <2>8. MemInv'
    <3>1. acked' \ lost' \subseteq mem'.changes
      BY <1>0, <1>1, <2>1, <2>2, <2>6
    <3>2. mem'.uuid # 0
      BY <1>2, <2>0, <2>2 DEF FileInv
    <3> QED
      BY <1>0, <2>4, <3>1, <3>2 DEF MemInv
  <2> QED
    BY <1>1, <2>1, <2>3, <2>7, <2>8 DEF DownInv, SaveInv, InFile
<1>3. CASE f.kind # "object"
  <2> DEFINE s == [at |-> "set", change |-> 0]
  <2>1. saver' = [saver EXCEPT ![Main] = s] /\ up' = "loading" /\ unsure' = {0}
    BY <1>3 DEF Settings!Loads, Settings!Goes, Settings!Identity
  <2>2. mem' = [uuid |-> uuids + 1, changes |-> {}]
    BY <1>3 DEF Settings!Loads, Settings!WithIdentity, Settings!NoUuid, Settings!Defaults
  <2>3. mem' \in Roots /\ mem'.uuid \in Nat /\ mem'.uuid # 0
    BY <2>2 DEF SettingsTypes, Roots
  <2>4. 0 \in gone /\ acked \subseteq gone
    BY <1>1, <1>3 DEF FileInv, SettingsTypes
  <2>5. SettingsTypes'
    BY <1>0, <2>1, <2>3, <2>4, SessionAssumption DEF SettingsTypes, Settings!Loads
  <2>6. \A t \in Threads : /\ saver'[t].at \in {"idle", "set"}
                           /\ saver'[t].at = "set" => saver'[t].change = 0
    BY <1>1, <2>1 DEF SettingsTypes
  <2>7. acked' \ lost' = {}
    BY <1>0, <2>4 DEF SettingsTypes
  <2>8. FileInv' /\ MemInv' /\ SaveInv'
    BY <1>0, <2>1, <2>3, <2>4, <2>6, <2>7 DEF FileInv, MemInv, SaveInv, InFile, SettingsTypes
  <2> QED
    BY <2>1, <2>5, <2>8 DEF DownInv
<1> QED
  BY <1>2, <1>3

LEMMA LoadStep == SettingsInv /\ (Settings!Load \/ Settings!LoadFails) => SettingsInv'
<1> SUFFICES ASSUME SettingsInv, Settings!Load \/ Settings!LoadFails PROVE SettingsInv'
  OBVIOUS
<1>1. CASE Settings!Load
  <2>1. Settings!Loads(file, lost) /\ UNCHANGED file
    BY <1>1 DEF Settings!Load, Settings!Loads
  <2> QED
    BY <2>1, LoadsStep
<1>2. CASE Settings!LoadFails
  <2>1. Settings!Loads(Settings!Missing, lost \cup (0 .. sets)) /\ UNCHANGED file
    BY <1>2 DEF Settings!LoadFails, Settings!Loads, Settings!Everything
  <2>2. Settings!Missing.kind = "missing"
    BY DEF Settings!Missing
  <2> QED
    BY <2>1, <2>2, LoadsStep
<1> QED
  BY <1>1, <1>2

LEMMA SetStep == ASSUME NEW t \in Threads, SettingsInv, Settings!Set(t) PROVE SettingsInv'
<1> USE DEF SettingsInv
<1> DEFINE n == sets + 1
           s == [at |-> "set", change |-> n]
           c == mem.changes \cup {n}
<1>1. /\ up = "up" /\ saver[t].at = "idle" /\ saver' = [saver EXCEPT ![t] = s]
      /\ mem' = [mem EXCEPT !.changes = c]
      /\ UNCHANGED <<file, up, uuids, acked, identity, crossed, unsure, lost>> /\ sets' = n
  BY DEF Settings!Set, Settings!At, Settings!Goes, Settings!history
<1>2. n \in Nat /\ sets <= n
  BY DEF SettingsTypes
<1>3. mem' \in Roots /\ mem'.uuid = mem.uuid /\ mem'.changes = c
  BY <1>1, <1>2 DEF SettingsTypes, Roots
<1>4. n \in c /\ mem.changes \subseteq c
  OBVIOUS
<1>5. acked \subseteq 1 .. n /\ \A k \in Nat : k <= sets => k <= n
  BY <1>2 DEF SettingsTypes
<1> HIDE DEF n, c
<1>6. SettingsTypes'
  BY <1>1, <1>2, <1>3, <1>5 DEF SettingsTypes
<1>7. /\ saver'[t] = s /\ s.at = "set" /\ s.change = n
      /\ \A u \in Threads \ {t} : saver'[u] = saver[u]
      /\ \A u \in Threads : saver[u].at # "idle" => saver[u].change \in Nat
  BY <1>1 DEF SettingsTypes
<1> HIDE DEF s
<1>8. DownInv' /\ FileInv' /\ MemInv'
  BY <1>1, <1>3, <1>4, <1>7 DEF DownInv, FileInv, MemInv
<1>9. SaveInv'
  BY <1>1, <1>2, <1>3, <1>4, <1>5, <1>7 DEF SaveInv, InFile
<1> QED
  BY <1>6, <1>8, <1>9

LEMMA ComposeStep == ASSUME NEW t \in Threads, SettingsInv, Settings!Compose(t) PROVE SettingsInv'
<1> USE DEF SettingsInv
<1> DEFINE s == [at |-> "open", change |-> saver[t].change, root |-> mem]
<1>1. /\ saver[t].at = "set" /\ saver' = [saver EXCEPT ![t] = s]
      /\ UNCHANGED <<mem, file, up, uuids, sets, acked, identity, unsure, lost>>
  BY DEF Settings!Compose, Settings!At, Settings!Goes, Settings!Root
<1>2. /\ crossed \subseteq crossed'
      /\ \A u \in Threads \ {t} : InFile(u) => t \in crossed' /\ u \in crossed'
  BY DEF Settings!Compose, Settings!Others, Settings!At, Settings!InFile, InFile
<1>3. saver[t].change \in Nat /\ mem \in Roots
  BY <1>1, SaverKinds DEF SettingsTypes
<1>4. SettingsTypes'
  BY <1>1, <1>3 DEF SettingsTypes
<1>5. /\ saver'[t] = s /\ s.at = "open" /\ s.change = saver[t].change /\ s.root = mem
      /\ \A u \in Threads \ {t} : saver'[u] = saver[u]
  BY <1>1 DEF SettingsTypes
<1>6. up # "down"
  BY <1>1 DEF DownInv
<1> HIDE DEF s
<1>7. DownInv' /\ FileInv' /\ MemInv'
  BY <1>1, <1>5, <1>6 DEF DownInv, FileInv, MemInv
<1>8. SaveInv'
  BY <1>1, <1>2, <1>5, <1>6 DEF SaveInv, MemInv, InFile
<1> QED
  BY <1>4, <1>7, <1>8

LEMMA TruncateStep == ASSUME NEW t \in Threads, SettingsInv, Settings!Truncate(t) PROVE SettingsInv'
<1> USE DEF SettingsInv
<1> DEFINE s == [saver[t] EXCEPT !.at = "write"]
<1>1. /\ saver[t].at = "open" /\ saver' = [saver EXCEPT ![t] = s] /\ file' = [kind |-> "malformed"]
      /\ unsure' = 0 .. sets
      /\ UNCHANGED <<mem, up, uuids, sets, acked, identity, crossed, lost>>
  BY DEF Settings!Truncate, Settings!At, Settings!Goes, Settings!Malformed, Settings!Everything
<1>2. saver[t] \in Saving
  BY <1>1, SaverKinds DEF InFile
<1>3. s \in Saving /\ s.at = "write" /\ s.change = saver[t].change /\ s.root = saver[t].root
  BY <1>2 DEF Saving
<1> HIDE DEF s
<1>4. SettingsTypes'
  BY <1>1, <1>3 DEF SettingsTypes, Saving
<1>5. saver'[t] = s /\ \A u \in Threads \ {t} : saver'[u] = saver[u]
  BY <1>1 DEF SettingsTypes
<1>6. up # "down"
  BY <1>1 DEF DownInv
<1>7. /\ 0 \in unsure' /\ acked \subseteq unsure'
      /\ \A u \in Threads : saver[u].at # "idle" => saver[u].change \in unsure'
  BY <1>1 DEF SettingsTypes, SaveInv
<1>8. DownInv' /\ FileInv' /\ MemInv'
  BY <1>1, <1>6, <1>7 DEF DownInv, FileInv, MemInv
<1>9. SaveInv'
  BY <1>1, <1>3, <1>5, <1>7 DEF SaveInv, InFile
<1> QED
  BY <1>4, <1>8, <1>9

\* The end of a save, whatever became of it.
LEMMA ReturnStep ==
    ASSUME NEW t \in Threads, SettingsInv, InFile(t), Settings!Returns(t),
           file'.kind \in {"missing", "malformed", "object"},
           file'.kind = "object" => file'.root \in Roots,
           FileInv',
           \/ unsure \subseteq unsure' /\ saver[t].change \in unsure'
           \/ t \notin crossed
    PROVE  SettingsInv'
<1> USE DEF SettingsInv
<1> DEFINE c == saver[t].change
           s == [at |-> "idle"]
<1>1. /\ saver' = [saver EXCEPT ![t] = s]
      /\ crossed' = crossed \ {t}
      /\ UNCHANGED <<mem, uuids, sets, identity, lost>>
      /\ up' = IF up = "loading" THEN "up" ELSE up
      /\ acked' = IF c = 0 THEN acked ELSE acked \cup {c}
  BY DEF Settings!Returns, Settings!Goes, Settings!Idle, Settings!Identity
<1>2. c \in Nat /\ c <= sets /\ c \in mem.changes \cup {0}
  BY SaverKinds DEF Saving, SaveInv, InFile
<1>3. saver'[t].at = "idle" /\ \A u \in Threads \ {t} : saver'[u] = saver[u]
  BY <1>1 DEF SettingsTypes
<1>4. up # "down" /\ up' # "down"
  <2>1. saver[t].at # "idle"
    BY DEF InFile
  <2> QED
    BY <1>1, <2>1 DEF DownInv
<1> HIDE DEF c
<1>5. acked' \subseteq 1 .. sets
  <2>1. sets \in Nat /\ acked \subseteq 1 .. sets
    BY DEF SettingsTypes
  <2>2. c # 0 => c \in 1 .. sets
    BY <1>2, <2>1
  <2> QED
    BY <1>1, <2>1, <2>2
<1>6. SettingsTypes'
  BY <1>1, <1>5 DEF SettingsTypes
<1>7. DownInv' /\ MemInv'
  BY <1>1, <1>2, <1>4 DEF DownInv, MemInv
<1>8. \A u \in Threads \ {t} :
         InFile(u) => u \in crossed /\ unsure \subseteq unsure' /\ c \in unsure'
  BY DEF SaveInv, c
<1>9. SaveInv'
  <2>1. \A u \in Threads \ {t} : (u \in crossed' <=> u \in crossed) /\ (InFile(u)' <=> InFile(u))
    BY <1>1, <1>3 DEF InFile
  <2>2. acked' \subseteq acked \cup {c}
    BY <1>1
  <2> QED
    BY <1>1, <1>3, <1>8, <2>1, <2>2 DEF SaveInv, InFile
<1> QED
  BY <1>6, <1>7, <1>9

LEMMA CannotOpenStep ==
    ASSUME NEW t \in Threads, SettingsInv, Settings!CannotOpen(t)
    PROVE  SettingsInv'
<1>1. /\ InFile(t) /\ Settings!Returns(t)
      /\ file' = file /\ unsure' = unsure \cup {saver[t].change}
      /\ acked' \subseteq acked \cup {saver[t].change} /\ UNCHANGED <<identity, lost>>
  BY DEF Settings!CannotOpen, Settings!Returns, Settings!At, InFile
<1>2. FileInv'
  BY <1>1 DEF SettingsInv, FileInv
<1> QED
  BY <1>1, <1>2, ReturnStep DEF SettingsInv, SettingsTypes

LEMMA WriteStep ==
    ASSUME NEW t \in Threads, SettingsInv, Settings!Write(t) \/ Settings!WriteFails(t)
    PROVE  SettingsInv'
<1> DEFINE r == saver[t].root
           c == saver[t].change
<1>1. /\ saver[t].at = "write" /\ InFile(t) /\ Settings!Returns(t)
      /\ file' \in {file, [kind |-> "malformed"], [kind |-> "object", root |-> r]}
      /\ \/ unsure' = unsure
         \/ t \notin crossed /\ unsure' = {} /\ file' \in Settings!Written(t)
      /\ acked' = IF c = 0 THEN acked ELSE acked \cup {c}
      /\ UNCHANGED <<identity, lost>>
  BY DEF Settings!Write, Settings!WriteFails, Settings!Returns, Settings!At, Settings!Malformed,
     Settings!Written, Settings!Holds, Settings!Identity, InFile
<1>2. saver[t] \in Saving /\ r \in Roots
  BY <1>1, SaverKinds DEF Saving, SettingsInv
<1>3. mem.uuid # 0 /\ r.uuid = mem.uuid /\ identity = mem.uuid
  BY <1>1 DEF SettingsInv, SaveInv, MemInv, DownInv
<1>4. 0 \in unsure /\ c \in unsure /\ acked \subseteq unsure
  BY <1>1 DEF SettingsInv, SaveInv
<1>5. CASE unsure' = unsure
  <2>1. FileInv'
    BY <1>1, <1>3, <1>4, <1>5 DEF FileInv, SettingsInv
  <2> QED
    BY <1>1, <1>2, <1>4, <1>5, <2>1, ReturnStep DEF SettingsInv, SettingsTypes
<1>6. CASE t \notin crossed /\ unsure' = {} /\ file' \in Settings!Written(t)
  <2>1. c \in r.changes \cup {0} /\ acked \ lost \subseteq r.changes
    BY <1>1, <1>6 DEF SettingsInv, SaveInv
  <2>2. file' = [kind |-> "object", root |-> r]
    BY <1>1, <1>6 DEF SettingsInv, SaveInv, Settings!Written, Settings!Holds
  <2>3. FileInv'
    BY <1>1, <1>3, <1>6, <2>1, <2>2 DEF FileInv
  <2> QED
    BY <1>1, <1>2, <1>6, <2>2, <2>3, ReturnStep
<1> QED
  BY <1>1, <1>5, <1>6

LEMMA EndStep == SettingsInv /\ Settings!Crash => SettingsInv'
<1> SUFFICES ASSUME SettingsInv, Settings!Crash PROVE SettingsInv'
  OBVIOUS
<1> USE DEF SettingsInv
<1>1. /\ up' = "down" /\ mem' = [uuid |-> 0, changes |-> {}]
      /\ saver' = [t \in Threads |-> [at |-> "idle"]]
      /\ lost' = lost \cup unsure /\ unsure' = {}
      /\ UNCHANGED <<file, uuids, sets, acked, identity>>
  BY DEF Settings!Crash, Settings!Idle, Settings!Defaults, Settings!NoUuid
<1>2. SettingsTypes'
  BY <1>1 DEF SettingsTypes, Roots
<1>3. \A t \in Threads : saver'[t].at = "idle"
  BY <1>1
<1>4. FileInv'
  BY <1>1 DEF FileInv
<1> QED
  BY <1>1, <1>2, <1>3, <1>4 DEF DownInv, MemInv, SaveInv, InFile

\* sessionmanager: whatever number of setters on whatever threads, of files that cannot be
\* opened, written or read, and of ends of the program come in whatever order, a launch has
\* the identity and all that a setter changed which has returned, but for what no save that
\* had the file to itself had written when an earlier launch ended.
THEOREM SettingsAreKept == SettingsOrPairing => []SettingsSurvive
<1>1. Start => SettingsInv
  BY SettingsInit DEF Start
<1>2. SettingsInv /\ [Step]_<<about, vars, settings>> => SettingsInv'
  <2> SUFFICES ASSUME SettingsInv, [Step]_<<about, vars, settings>> PROVE SettingsInv'
    OBVIOUS
  <2>1. CASE UNCHANGED settings
    BY <2>1 DEF settings, SettingsInv, SettingsTypes, DownInv, FileInv, MemInv, SaveInv, InFile
  <2>2. CASE Settings!Next
    BY <2>2, LoadStep, EndStep, SetStep, ComposeStep, TruncateStep, CannotOpenStep, WriteStep
       DEF Settings!Next
  <2> QED
    BY <2>1, <2>2 DEF Step
<1>3. SettingsInv => SettingsSurvive
  BY DEF SettingsInv, MemInv, SettingsSurvive, Settings!SettingsSurvive
<1> QED
  BY <1>1, <1>2, <1>3, PTL DEF SettingsOrPairing

-----------------------------------------------------------------------------
(* Types of every variable of SessionManager. *)

\* Each launch generates one identity at most.
UuidsCounted ==
    /\ crashes \in 0 .. MaxCrashes
    /\ uuids \in Nat
    /\ uuids <= crashes + 1
    /\ up = "down" => uuids <= crashes

SessionInv == Settings!TypeOK /\ UuidsCounted

Docs == Settings!Settings
Ways == Settings!Savers

LEMMA SessionSets ==
    /\ Docs = [uuid : 0 .. MaxCrashes + 1, changes : SUBSET (1 .. MaxSets)]
    /\ Settings!Idle \in Ways /\ Settings!Idle = [at |-> "idle"]
    /\ \A k \in 0 .. MaxSets : [at |-> "set", change |-> k] \in Ways
    /\ \A k \in 0 .. MaxSets, r \in Docs, a \in {"open", "write"} :
          [at |-> a, change |-> k, root |-> r] \in Ways
    /\ \A s \in Ways :
          /\ s.at = "set" => s.change \in 0 .. MaxSets
          /\ s.at \in {"open", "write"} =>
                /\ s.change \in 0 .. MaxSets /\ s.root \in Docs
                /\ s = [at |-> s.at, change |-> s.change, root |-> s.root]
<1>1. /\ Settings!Uuids \cup {Settings!NoUuid} = 0 .. MaxCrashes + 1
      /\ Settings!Changes \cup {0} = 0 .. MaxSets /\ Settings!Changes = 1 .. MaxSets
  BY SessionAssumption DEF Settings!Uuids, Settings!NoUuid, Settings!Changes
<1>2. Docs = [uuid : 0 .. MaxCrashes + 1, changes : SUBSET (1 .. MaxSets)]
  BY <1>1 DEF Docs, Settings!Settings
<1>3. Ways = {[at |-> "idle"]} \cup [at : {"set"}, change : 0 .. MaxSets]
                \cup [at : {"open", "write"}, change : 0 .. MaxSets, root : Docs]
  BY <1>1 DEF Ways, Docs, Settings!Savers, Settings!Idle
<1>4. Settings!Idle = [at |-> "idle"]
  BY DEF Settings!Idle
<1> HIDE DEF Docs, Ways
<1>5. \A s \in Ways :
          /\ s.at = "set" => s.change \in 0 .. MaxSets
          /\ s.at \in {"open", "write"} =>
                /\ s.change \in 0 .. MaxSets /\ s.root \in Docs
                /\ s = [at |-> s.at, change |-> s.change, root |-> s.root]
  BY <1>3
<1>. QED BY <1>2, <1>3, <1>4, <1>5

LEMMA SessionInit == Settings!Init => SessionInv
<1> SUFFICES ASSUME Settings!Init PROVE SessionInv
  OBVIOUS
<1> USE SessionAssumption DEF Settings!Init
<1>1. mem \in Docs
  BY SessionSets DEF Settings!Defaults, Settings!NoUuid
<1>2. saver \in [Threads -> Ways]
  BY SessionSets
<1>3. file \in Settings!Files
  BY DEF Settings!Files
<1>4. crossed = {} /\ unsure = {} /\ lost = {0} /\ faults = 0
  BY DEF Settings!Identity
<1>5. /\ up = "down" /\ uuids = 0 /\ sets = 0 /\ crashes = 0
      /\ acked = {} /\ identity = Settings!NoUuid
  OBVIOUS
<1>. QED BY <1>1, <1>2, <1>3, <1>4, <1>5
         DEF SessionInv, UuidsCounted, Settings!TypeOK, Docs, Ways

LEMMA Within ==
    ASSUME NEW u \in Nat, NEW c \in 0 .. MaxCrashes, u <= c + 1
    PROVE  u \in 0 .. MaxCrashes + 1
BY SessionAssumption

HistoryTypes ==
    /\ crossed \subseteq Threads
    /\ unsure \subseteq 0 .. MaxSets /\ lost \subseteq 0 .. MaxSets
    /\ faults \in 0 .. MaxFaults

\* A step of SessionManager's, as far as they are concerned.
LEMMA HistoryStep ==
    ASSUME HistoryTypes, [Settings!Next]_settings, sets \in 0 .. MaxSets, saver \in [Threads -> Ways]
    PROVE  HistoryTypes'
<1> USE SessionAssumption DEF HistoryTypes
<1>0. \A n \in 0 .. MaxSets : 0 .. n \subseteq 0 .. MaxSets
  OBVIOUS
<1>1. ASSUME NEW f, NEW gone, Settings!Loads(f, gone), gone \subseteq 0 .. MaxSets
      PROVE  crossed' \subseteq Threads /\ unsure' \subseteq 0 .. MaxSets /\ lost' \subseteq 0 .. MaxSets
  <2>1. crossed' = crossed /\ lost' = gone \ {0} /\ (unsure' = unsure \/ unsure' = {0})
    BY <1>1 DEF Settings!Loads, Settings!Identity
  <2>2. 0 \in 0 .. MaxSets
    OBVIOUS
  <2> QED
    BY <1>1, <2>1, <2>2, Zenon
<1>2. CASE Settings!Load
  BY <1>1, <1>2 DEF Settings!Load
<1>3. CASE Settings!LoadFails
  <2>1. lost \cup (0 .. sets) \subseteq 0 .. MaxSets
    BY <1>0
  <2>2. faults' \in 0 .. MaxFaults
    BY <1>3 DEF Settings!LoadFails, Settings!Fault
  <2> QED
    BY <1>1, <1>3, <2>1, <2>2 DEF Settings!LoadFails, Settings!Everything
<1>4. CASE Settings!Crash
  BY <1>4 DEF Settings!Crash
<1>5. ASSUME NEW t \in Threads, Settings!Set(t) PROVE HistoryTypes'
  BY <1>5 DEF Settings!Set, Settings!history
<1>6. ASSUME NEW t \in Threads, Settings!Compose(t) PROVE HistoryTypes'
  BY <1>6 DEF Settings!Compose, Settings!Others
<1>7. ASSUME NEW t \in Threads, Settings!Truncate(t) PROVE HistoryTypes'
  BY <1>0, <1>7 DEF Settings!Truncate, Settings!Everything
<1>8. ASSUME NEW t \in Threads, Settings!CannotOpen(t) PROVE HistoryTypes'
  <2>1. saver[t].change \in 0 .. MaxSets
    BY <1>8, SessionSets DEF Settings!CannotOpen, Settings!At
  <2>2. /\ crossed' = crossed \ {t} /\ lost' = lost /\ unsure' = unsure \cup {saver[t].change}
        /\ faults < MaxFaults /\ faults' = faults + 1
    BY <1>8 DEF Settings!CannotOpen, Settings!Returns, Settings!Fault
  <2>3. faults' \in 0 .. MaxFaults
    BY <2>2
  <2>4. crossed' \subseteq Threads /\ unsure' \subseteq 0 .. MaxSets /\ lost' \subseteq 0 .. MaxSets
    BY <2>1, <2>2, Zenon
  <2> QED
    BY <2>3, <2>4, Zenon
<1>9. ASSUME NEW t \in Threads, Settings!Write(t) \/ Settings!WriteFails(t) PROVE HistoryTypes'
  <2>1. /\ crossed' = crossed \ {t} /\ lost' = lost /\ (unsure' = unsure \/ unsure' = {})
        /\ faults' = faults \/ (faults < MaxFaults /\ faults' = faults + 1)
    BY <1>9 DEF Settings!Write, Settings!WriteFails, Settings!Returns, Settings!Fault
  <2>2. faults' \in 0 .. MaxFaults
    BY <2>1
  <2>3. crossed' \subseteq Threads /\ unsure' \subseteq 0 .. MaxSets /\ lost' \subseteq 0 .. MaxSets
    BY <2>1, Zenon
  <2> QED
    BY <2>2, <2>3, Zenon
<1>10. CASE UNCHANGED settings
  BY <1>10 DEF settings
<1> QED
  BY <1>2, <1>3, <1>4, <1>5, <1>6, <1>7, <1>8, <1>9, <1>10 DEF Settings!Next

LEMMA SessionStep == SessionInv /\ [Settings!Next]_settings => SessionInv'
<1> SUFFICES ASSUME SessionInv, [Settings!Next]_settings PROVE SessionInv'
  OBVIOUS
<1> USE SessionAssumption
<1>1. /\ mem \in Docs /\ file \in Settings!Files /\ saver \in [Threads -> Ways]
      /\ up \in {"down", "loading", "up"} /\ uuids \in 0 .. MaxCrashes + 1
      /\ sets \in 0 .. MaxSets /\ acked \subseteq 1 .. MaxSets
      /\ identity \in 0 .. MaxCrashes + 1 /\ HistoryTypes
  BY SessionSets DEF SessionInv, Settings!TypeOK, Docs, Ways, Settings!Changes,
     Settings!Uuids, Settings!NoUuid, HistoryTypes
<1>2. /\ crashes \in 0 .. MaxCrashes /\ uuids <= crashes + 1
      /\ up = "down" => uuids <= crashes
  BY DEF SessionInv, UuidsCounted
<1>3. ASSUME /\ mem' \in Docs /\ file' \in Settings!Files /\ saver' \in [Threads -> Ways]
             /\ up' \in {"down", "loading", "up"} /\ uuids' \in Nat
             /\ sets' \in 0 .. MaxSets /\ acked' \subseteq 1 .. MaxSets
             /\ identity' \in 0 .. MaxCrashes + 1 /\ HistoryTypes'
             /\ crashes' \in 0 .. MaxCrashes
             /\ uuids' <= crashes' + 1
             /\ up' = "down" => uuids' <= crashes'
      PROVE  SessionInv'
  <2>1. uuids' \in 0 .. MaxCrashes + 1
    <3>1. PICK u \in Nat, c \in 0 .. MaxCrashes : u = uuids' /\ c = crashes' /\ u <= c + 1
      BY <1>3
    <3>2. u \in 0 .. MaxCrashes + 1
      BY <3>1, Within
    <3>. QED BY <3>1, <3>2
  <2>2. identity' \in Settings!Uuids \cup {Settings!NoUuid} /\ acked' \subseteq Settings!Changes
    BY <1>3 DEF Settings!Changes, Settings!Uuids, Settings!NoUuid
  <2>3. Settings!TypeOK'
    BY <1>3, <2>1, <2>2, Zenon DEF Settings!TypeOK, Docs, Ways, HistoryTypes
  <2>. QED BY <1>3, <2>3 DEF SessionInv, UuidsCounted
<1> HIDE DEF Docs, Ways
<1>4. \A f \in Settings!Files : f.kind = "object" => f.root \in Docs
  BY DEF Settings!Files, Settings!Missing, Settings!Malformed, Docs
<1>5. /\ Settings!Malformed \in Settings!Files /\ Settings!Missing \in Settings!Files
      /\ \A r \in Docs : Settings!Holds(r) \in Settings!Files
  BY DEF Settings!Files, Docs, Settings!Holds
<1>0. HistoryTypes'
  BY <1>1, HistoryStep
<1>6. CASE Settings!Load \/ Settings!LoadFails
  <2>a. PICK f \in Settings!Files : \E gone : Settings!Loads(f, gone) /\ file' = file
    BY <1>1, <1>5, <1>6 DEF Settings!Load, Settings!LoadFails, Settings!Loads
  <2>0. PICK gone : Settings!Loads(f, gone) /\ file' = file
    BY <2>a
  <2>1. PICK d \in Docs : d = IF f.kind = "object" THEN f.root ELSE Settings!Defaults
    <3>1. Settings!Defaults \in Docs
      BY SessionSets DEF Settings!Defaults, Settings!NoUuid
    <3>. QED BY <1>4, <3>1
  <2>2. mem' = IF d.uuid = 0 THEN [d EXCEPT !.uuid = uuids + 1] ELSE d
    BY <2>0, <2>1 DEF Settings!Loads, Settings!WithIdentity, Settings!NoUuid
  <2>3. up = "down" /\ uuids <= MaxCrashes
    BY <1>1, <1>2, <2>0 DEF Settings!Loads
  <2>4. mem' \in Docs
    BY <1>1, <2>1, <2>2, <2>3, SessionSets
  <2>5. uuids' \in Nat /\ uuids' <= uuids + 1
    BY <1>1, <2>0 DEF Settings!Loads
  <2>6. /\ saver' = saver \/ saver' = [saver EXCEPT ![Main] = [at |-> "set", change |-> 0]]
        /\ up' \in {"loading", "up"}
        /\ identity' \in {identity, mem'.uuid}
        /\ UNCHANGED <<file, sets, acked, crashes>>
    BY <2>0 DEF Settings!Loads, Settings!Goes, Settings!Identity
  <2>7. saver' \in [Threads -> Ways]
    BY <1>1, <2>6, SessionSets
  <2>8. identity' \in 0 .. MaxCrashes + 1
    BY <1>1, <2>4, <2>6, SessionSets
  <2>. QED BY <1>0, <1>1, <1>2, <1>3, <2>3, <2>4, <2>5, <2>6, <2>7, <2>8
<1>7. CASE Settings!Crash
  <2>1. /\ mem' \in Docs /\ saver' \in [Threads -> Ways]
        /\ up # "down" /\ up' = "down" /\ crashes < MaxCrashes /\ crashes' = crashes + 1
        /\ UNCHANGED <<file, uuids, sets, acked, identity>>
    BY <1>7, SessionSets DEF Settings!Crash, Settings!Defaults, Settings!NoUuid
  <2>. QED BY <1>0, <1>1, <1>2, <1>3, <2>1
<1>8. ASSUME NEW t \in Threads, Settings!Set(t) PROVE SessionInv'
  <2>1. /\ sets' = sets + 1 /\ sets' \in 1 .. MaxSets
        /\ mem' = [mem EXCEPT !.changes = mem.changes \cup {sets + 1}]
        /\ saver' = [saver EXCEPT ![t] = [at |-> "set", change |-> sets + 1]]
        /\ UNCHANGED <<file, up, uuids, acked, identity, crashes>>
    BY <1>1, <1>8 DEF Settings!Set, Settings!Goes, Settings!history
  <2>2. mem' \in Docs /\ saver' \in [Threads -> Ways]
    BY <1>1, <2>1, SessionSets
  <2>. QED BY <1>0, <1>1, <1>2, <1>3, <2>1, <2>2
<1>9. ASSUME NEW t \in Threads, Settings!Compose(t) PROVE SessionInv'
  <2>1. /\ saver[t].at = "set"
        /\ saver' = [saver EXCEPT ![t] = [at |-> "open", change |-> saver[t].change, root |-> mem]]
        /\ UNCHANGED <<mem, file, up, uuids, sets, acked, identity, crashes>>
    BY <1>9 DEF Settings!Compose, Settings!Goes, Settings!Root, Settings!At
  <2>2. saver' \in [Threads -> Ways]
    BY <1>1, <2>1, SessionSets
  <2>. QED BY <1>0, <1>1, <1>2, <1>3, <2>1, <2>2
<1>10. ASSUME NEW t \in Threads, Settings!Truncate(t) PROVE SessionInv'
  <2>1. /\ saver[t].at = "open" /\ file' = Settings!Malformed
        /\ saver' = [saver EXCEPT ![t] = [saver[t] EXCEPT !.at = "write"]]
        /\ UNCHANGED <<mem, up, uuids, sets, acked, identity, crashes>>
    BY <1>10 DEF Settings!Truncate, Settings!Goes, Settings!At
  <2>2. [saver[t] EXCEPT !.at = "write"]
           = [at |-> "write", change |-> saver[t].change, root |-> saver[t].root]
    BY <1>1, <2>1, SessionSets
  <2>3. PICK k \in 0 .. MaxSets, r \in Docs : k = saver[t].change /\ r = saver[t].root
    BY <1>1, <2>1, SessionSets
  <2>4. [at |-> "write", change |-> k, root |-> r] \in Ways
    BY SessionSets
  <2>5. saver' \in [Threads -> Ways]
    BY <1>1, <2>1, <2>2, <2>3, <2>4
  <2>. QED BY <1>0, <1>1, <1>2, <1>3, <1>5, <2>1, <2>5
<1>11. ASSUME NEW t \in Threads, Settings!CannotOpen(t) \/ Settings!Write(t) \/ Settings!WriteFails(t)
      PROVE  SessionInv'
  <2>1. /\ saver[t].at \in {"open", "write"}
        /\ file' \in Settings!Written(t) \cup {file, Settings!Malformed}
        /\ saver' = [saver EXCEPT ![t] = Settings!Idle]
        /\ up' = IF up = "loading" THEN "up" ELSE up
        /\ acked' \in {acked, acked \cup {saver[t].change}}
        /\ saver[t].change = 0 => acked' = acked
        /\ UNCHANGED <<mem, uuids, sets, identity, crashes>>
    BY <1>11 DEF Settings!CannotOpen, Settings!Write, Settings!WriteFails, Settings!Returns,
       Settings!Goes, Settings!At, Settings!Identity
  <2>2. saver[t].root \in Docs /\ saver[t].change \in 0 .. MaxSets
    BY <1>1, <2>1, SessionSets
  <2>3. file' \in Settings!Files
    BY <1>1, <1>5, <2>1, <2>2 DEF Settings!Written
  <2>4. saver' \in [Threads -> Ways]
    BY <1>1, <2>1, SessionSets
  <2>5. acked' \subseteq 1 .. MaxSets
    BY <1>1, <2>1, <2>2
  <2>. QED BY <1>0, <1>1, <1>2, <1>3, <2>1, <2>3, <2>4, <2>5
<1>12. CASE UNCHANGED settings
  BY <1>0, <1>1, <1>2, <1>3, <1>12 DEF settings
<1>. QED BY <1>6, <1>7, <1>8, <1>9, <1>10, <1>11, <1>12 DEF Settings!Next

\* The settings, the file and the threads in the middle of a setter are always well typed:
\* in particular there are no more identities than launches (SessionManager's load).
THEOREM SettingsAreTyped == SettingsOrPairing => []Settings!TypeOK
<1>1. Start => SessionInv
  BY SessionInit DEF Start
<1>2. SessionInv /\ [Step]_<<about, vars, settings>> => SessionInv'
  <2>1. [Step]_<<about, vars, settings>> => [Settings!Next]_settings
    BY DEF Step
  <2>. QED BY <2>1, SessionStep
<1>3. SessionInv => Settings!TypeOK
  BY DEF SessionInv
<1>. QED BY <1>1, <1>2, <1>3, PTL DEF SettingsOrPairing

=============================================================================
