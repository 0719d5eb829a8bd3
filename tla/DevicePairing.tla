---------------------------- MODULE DevicePairing ----------------------------
(***************************************************************************)
(* Pairing of a user's devices: the one-time code of a primary device      *)
(* (src/src/identity/device_pairing.cpp), connectToDevice on a secondary   *)
(* one, and the DEVICE_PAIR_* frames with the ban for wrong codes          *)
(* (src/src/net/network.cpp).                                              *)
(*                                                                         *)
(* A connection is taken up where PeerLink leaves it: at the request the   *)
(* primary's user is asked to accept.  The list of linked devices is saved *)
(* with each change, so memory and session.json are one here               *)
(* (SessionManager).  A code that was never made is a wrong guess.         *)
(***************************************************************************)
EXTENDS Naturals, Sequences, FiniteSets

CONSTANTS
    Devices,
    kMaxUuidFailures,
    MaxCodes,      \* bound: codes made in all
    MaxDials,      \* bound: connections opened in all
    MaxRestarts,   \* bound: ends of the program on any device
    MaxRemovals    \* bound: devices taken off a list by hand

ASSUME PairingAssumption ==
    /\ kMaxUuidFailures \in Nat \ {0}
    /\ MaxCodes \in Nat /\ MaxDials \in Nat /\ MaxRestarts \in Nat /\ MaxRemovals \in Nat

Codes == 1 .. MaxCodes
NoCode == 0

VARIABLES
    s_code,      \* [Devices -> the current code and whether s_expiry has passed]
    linked,      \* [Devices -> [Devices -> m_linkedDevices]]
    conn,        \* [secondary -> [primary -> their connection]]
    wire,        \* [Devices -> [Devices -> frames from the first to the second]]
    failures,    \* [Devices -> [Devices -> m_ipBanRecords, by the peer's address]]
    made, usedBy,   \* codes made; [Codes -> the devices linked by it]
    guesses,     \* [Devices -> [Devices -> wrong codes tried while a code was good]]
    dials, restarts, removals

vars == <<s_code, linked, conn, wire, failures, made, usedBy, guesses, dials, restarts, removals>>
pairing == <<s_code, linked, made, usedBy>>
bounds == <<dials, restarts, removals>>

NoLink == "none"
Closed == [state |-> "closed", pendingPairCode |-> NoCode]
Frames == [type : {"ACK", "PAIR_ACCEPT", "PAIR_REJECT"}]
              \cup [type : {"PAIR_REQUEST"}, code : 1 .. MaxCodes + 1]

Pairs(v) == [d \in Devices |-> [e \in Devices |-> v]]
Cleared == [code |-> NoCode, late |-> FALSE]

Init ==
    /\ s_code = [d \in Devices |-> Cleared]
    /\ linked = Pairs(NoLink)
    /\ conn = Pairs(Closed)
    /\ wire = Pairs(<<>>)
    /\ failures = Pairs([count |-> 0, banned |-> FALSE])
    /\ made = 0
    /\ usedBy = [c \in Codes |-> {}]
    /\ guesses = Pairs(0)
    /\ dials = 0 /\ restarts = 0 /\ removals = 0

-----------------------------------------------------------------------------
(* The code. *)

GenerateCode(d) ==
    /\ made < MaxCodes
    /\ made' = made + 1
    /\ s_code' = [s_code EXCEPT ![d] = [code |-> made + 1, late |-> FALSE]]
    /\ guesses' = [guesses EXCEPT ![d] = [e \in Devices |-> 0]]
    /\ UNCHANGED <<linked, conn, wire, failures, usedBy, bounds>>

\* kCodeTtlSecs pass.
Expire(d) ==
    /\ s_code[d].code # NoCode /\ ~s_code[d].late
    /\ s_code' = [s_code EXCEPT ![d].late = TRUE]
    /\ UNCHANGED <<linked, conn, wire, failures, made, usedBy, guesses, bounds>>

\* currentCode clears a code that is late; the user may also withdraw it.
ClearCode(d) ==
    /\ s_code[d].code # NoCode
    /\ s_code' = [s_code EXCEPT ![d] = Cleared]
    /\ UNCHANGED <<linked, conn, wire, failures, made, usedBy, guesses, bounds>>

-----------------------------------------------------------------------------
(* Connections. *)

\* Both ends of the connection are gone, with what is on it.
Close(s, p) ==
    /\ conn' = [conn EXCEPT ![s][p] = Closed]
    /\ wire' = [wire EXCEPT ![s][p] = <<>>, ![p][s] = <<>>]

Send(w, d, e, f) == [w EXCEPT ![d][e] = Append(@, f)]
Msg(t) == [type |-> t]

\* One connection between two devices at a time.  A user types the code another device
\* shows, or one that is wrong or past.
ConnectToDevice(s, p, c) ==
    /\ s # p /\ conn[s][p] = Closed /\ conn[p][s] = Closed /\ dials < MaxDials
    /\ dials' = dials + 1
    /\ conn' = [conn EXCEPT ![s][p] = [state |-> "asked", pendingPairCode |-> c]]
    /\ UNCHANGED <<pairing, wire, failures, guesses, restarts, removals>>

Banned(p, s) == failures[p][s].banned

\* The frames of a peer under a ban close the connection.
AcceptIncoming(p, s) ==
    /\ conn[s][p].state = "asked" /\ ~Banned(p, s)
    /\ conn' = [conn EXCEPT ![s][p].state = "up"]
    /\ wire' = Send(wire, p, s, Msg("ACK"))
    /\ UNCHANGED <<pairing, failures, guesses, bounds>>

ConnectionEnds(s, p) ==
    /\ conn[s][p] # Closed
    /\ Close(s, p)
    /\ UNCHANGED <<pairing, failures, guesses, bounds>>

-----------------------------------------------------------------------------
(* Frames. *)

FrameIs(d, e, t) == wire[d][e] # <<>> /\ Head(wire[d][e]).type = t
Rest(d, e) == [wire EXCEPT ![d][e] = Tail(@)]

\* HANDSHAKE_ACK: the secondary sends the code, once.
OnAck(p, s) ==
    /\ FrameIs(p, s, "ACK")
    /\ IF Banned(s, p) THEN Close(s, p)
       ELSE /\ wire' = Send(Rest(p, s), s, p,
                            [type |-> "PAIR_REQUEST", code |-> conn[s][p].pendingPairCode])
            /\ conn' = [conn EXCEPT ![s][p].pendingPairCode = NoCode]
    /\ UNCHANGED <<pairing, failures, guesses, bounds>>

\* recordUuidFailure: a ban that is over starts a new count.
FailedAgain(p, s, limit) ==
    failures' = [failures EXCEPT ![p][s] =
                    [count |-> @.count + 1, banned |-> @.count + 1 >= limit]]
Forgiving(p, s) == UNCHANGED failures
RecordUuidFailure(p, s) == FailedAgain(p, s, kMaxUuidFailures)

\* validateAndConsume, and the outcome.
Valid(p, c) == s_code[p].code = c /\ ~s_code[p].late
Kept(p) == UNCHANGED s_code
Consumed(p) == s_code' = [s_code EXCEPT ![p] = Cleared]

\* d's list takes e in, or what it says of e is replaced.
AddLinkedDevice(d, e, role) == linked' = [linked EXCEPT ![d][e] = role]

Unlisted(s, p) == UNCHANGED linked
AddSecondary(s, p) == AddLinkedDevice(p, s, "secondary")

RequestAccepted(s, p, c) ==
    /\ Valid(p, c)
    /\ Consumed(p)
    /\ AddSecondary(s, p)
    /\ usedBy' = [usedBy EXCEPT ![c] = @ \cup {s}]
    /\ wire' = Send(Rest(s, p), p, s, Msg("PAIR_ACCEPT"))
    /\ UNCHANGED <<conn, failures, guesses>>

RequestRefused(s, p, c) ==
    /\ ~Valid(p, c)
    /\ IF s_code[p].code # NoCode /\ ~s_code[p].late
       THEN /\ RecordUuidFailure(p, s)
            /\ guesses' = [guesses EXCEPT ![p][s] = @ + 1]
            /\ UNCHANGED s_code
       ELSE s_code' = [s_code EXCEPT ![p] = Cleared] /\ UNCHANGED <<failures, guesses>>
    /\ wire' = Send(Rest(s, p), p, s, Msg("PAIR_REJECT"))
    /\ UNCHANGED <<linked, conn, usedBy>>

OnPairRequest(s, p) ==
    /\ FrameIs(s, p, "PAIR_REQUEST")
    /\ LET c == Head(wire[s][p]).code IN
       \/ Banned(p, s) /\ Close(s, p) /\ UNCHANGED <<s_code, linked, usedBy, failures, guesses>>
       \/ ~Banned(p, s) /\ (RequestAccepted(s, p, c) \/ RequestRefused(s, p, c))
    /\ UNCHANGED <<made, bounds>>

OnPairAccept(p, s) ==
    /\ FrameIs(p, s, "PAIR_ACCEPT")
    /\ IF Banned(s, p) THEN Close(s, p) /\ UNCHANGED linked
       ELSE /\ AddLinkedDevice(s, p, "primary")
            /\ wire' = Rest(p, s)
            /\ UNCHANGED conn
    /\ UNCHANGED <<s_code, made, usedBy, failures, guesses, bounds>>

OnPairReject(p, s) ==
    /\ FrameIs(p, s, "PAIR_REJECT")
    /\ Close(s, p)
    /\ UNCHANGED <<pairing, failures, guesses, bounds>>

\* kBanDurationMs is longer than a code lives.
Outlived(p, s) == s_code[p].code = NoCode \/ s_code[p].late \/ guesses[p][s] = 0
BanEnds(p, s) ==
    /\ Banned(p, s) /\ Outlived(p, s)
    /\ failures' = [failures EXCEPT ![p][s] = [count |-> 0, banned |-> FALSE]]
    /\ UNCHANGED <<pairing, conn, wire, guesses, bounds>>

RemoveLinkedDevice(d, e) ==
    /\ removals < MaxRemovals /\ linked[d][e] # NoLink
    /\ removals' = removals + 1
    /\ linked' = [linked EXCEPT ![d][e] = NoLink]
    /\ UNCHANGED <<s_code, conn, wire, failures, made, usedBy, guesses, dials, restarts>>

\* The code, the bans and the connections are in memory only.
Restart(d) ==
    /\ restarts < MaxRestarts
    /\ restarts' = restarts + 1
    /\ s_code' = [s_code EXCEPT ![d] = Cleared]
    /\ failures' = [failures EXCEPT ![d] = [e \in Devices |-> [count |-> 0, banned |-> FALSE]]]
    /\ conn' = [s \in Devices |-> [p \in Devices |->
                   IF d \in {s, p} THEN Closed ELSE conn[s][p]]]
    /\ wire' = [s \in Devices |-> [p \in Devices |->
                   IF d \in {s, p} THEN <<>> ELSE wire[s][p]]]
    /\ UNCHANGED <<linked, made, usedBy, guesses, dials, removals>>

-----------------------------------------------------------------------------

Next ==
    \/ \E d \in Devices : GenerateCode(d) \/ Expire(d) \/ ClearCode(d) \/ Restart(d)
    \/ \E s, p \in Devices, c \in 1 .. MaxCodes + 1 : ConnectToDevice(s, p, c)
    \/ \E s, p \in Devices :
          \/ AcceptIncoming(p, s) \/ ConnectionEnds(s, p) \/ OnAck(p, s)
          \/ OnPairRequest(s, p) \/ OnPairAccept(p, s) \/ OnPairReject(p, s)
          \/ BanEnds(p, s) \/ RemoveLinkedDevice(s, p)

Spec == Init /\ [][Next]_vars

-----------------------------------------------------------------------------
(* Properties. *)

\* Types of every variable.
TypeOK ==
    /\ s_code \in [Devices -> [code : Codes \cup {NoCode}, late : BOOLEAN]]
    /\ linked \in [Devices -> [Devices -> {NoLink, "primary", "secondary"}]]
    /\ conn \in [Devices -> [Devices -> [state : {"closed", "asked", "up"},
                                         pendingPairCode : 0 .. MaxCodes + 1]]]
    /\ wire \in [Devices -> [Devices -> Seq(Frames)]]
    /\ failures \in [Devices -> [Devices -> [count : 0 .. kMaxUuidFailures, banned : BOOLEAN]]]
    /\ made \in 0 .. MaxCodes
    /\ usedBy \in [Codes -> SUBSET Devices]
    /\ guesses \in [Devices -> [Devices -> Nat]]
    /\ dials \in 0 .. MaxDials /\ restarts \in 0 .. MaxRestarts
    /\ removals \in 0 .. MaxRemovals

\* A code links one device at most, however many send it at once.
CodeLinksOne == \A c \in Codes : Cardinality(usedBy[c]) <= 1

\* A device that takes another for its primary is on that one's list, whatever was lost or
\* restarted since, as long as nobody took a device off a list.
PrimaryKnowsSecondary ==
    \A s, p \in Devices :
        removals = 0 /\ linked[s][p] = "primary" => linked[p][s] # NoLink

\* A code is tried with no more than kMaxUuidFailures wrong guesses from an address: the
\* ban outlasts the code, whatever connections are opened meanwhile.
GuessesBounded == \A p, s \in Devices : guesses[p][s] <= kMaxUuidFailures
=============================================================================
