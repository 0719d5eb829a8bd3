--------------------------- MODULE SessionManager ---------------------------
(***************************************************************************)
(* The settings in memory and session.json (src/src/storage/               *)
(* sessionmanager.cpp): setters on several threads that each save the      *)
(* whole file at once, loads, and ends of the program at any moment.       *)
(*                                                                         *)
(* A setting is what a call of a setter changes; there is no lock.  A file *)
(* that cannot be parsed, empty or garbled, is "malformed".  It may fail   *)
(* to be opened, written or read, which no caller learns of.               *)
(***************************************************************************)
EXTENDS Naturals, FiniteSets

CONSTANTS
    Threads,       \* those that call setters: the io_context's, the user's
    Main,          \* the one that calls load
    MaxSets,       \* bound: calls of setters in all
    MaxCrashes,    \* bound: ends of the program
    MaxFaults      \* bound: files that could not be opened, written or read

Changes == 1 .. MaxSets
Uuids == 1 .. MaxCrashes + 1
NoUuid == 0

VARIABLES
    mem,        \* m_uuid, and the changes the other members show
    file,       \* session.json
    saver,      \* [Threads -> how far the thread is in a setter]
    up,         \* is the program running, and has load returned?
    uuids,      \* how many identities have been generated
    sets,       \* how many setters have been called
    acked,      \* the changes whose setter has returned
    identity,   \* the uuid every launch should find
    crossed,    \* the threads whose save has overlapped with another one
    unsure,     \* the changes that may not be on the disk, until a save that does not
                \* overlap writes them
    lost,       \* those that were unsure when the program ended, or when nobody could read
    crashes, faults

history == <<identity, crossed, unsure, lost>>
vars == <<mem, file, saver, up, uuids, sets, acked, history, crashes, faults>>

Settings == [uuid : Uuids \cup {NoUuid}, changes : SUBSET Changes]
Defaults == [uuid |-> NoUuid, changes |-> {}]
Missing == [kind |-> "missing"]
Malformed == [kind |-> "malformed"]
Holds(root) == [kind |-> "object", root |-> root]
Files == {Missing, Malformed} \cup [kind : {"object"}, root : Settings]

\* change: the one being made; 0, the identity, for the save in load.
Identity == 0
Idle == [at |-> "idle"]
Savers == {Idle} \cup [at : {"set"}, change : Changes \cup {0}]
                 \cup [at : {"open", "write"}, change : Changes \cup {0}, root : Settings]

Init ==
    /\ mem = Defaults
    /\ file = Missing
    /\ saver = [t \in Threads |-> Idle]
    /\ up = "down"
    /\ uuids = 0 /\ sets = 0 /\ crashes = 0 /\ faults = 0
    /\ acked = {}
    /\ identity = NoUuid
    /\ crossed = {} /\ unsure = {} /\ lost = {Identity}

-----------------------------------------------------------------------------

At(t, pc) == saver[t].at = pc
Goes(t, s) == saver' = [saver EXCEPT ![t] = s]
InFile(t) == At(t, "open") \/ At(t, "write")
Fault == faults < MaxFaults /\ faults' = faults + 1
Everything == 0 .. sets

\* generateIdentityIfNeeded.
WithIdentity(s) == IF s.uuid = NoUuid THEN [s EXCEPT !.uuid = uuids + 1] ELSE s

\* load with what the file holds.  A missing or malformed one is replaced; the other
\* members keep their defaults.
Loads(content, gone) ==
    /\ up = "down"
    /\ mem' = WithIdentity(IF content.kind = "object" THEN content.root ELSE Defaults)
    /\ uuids' = IF mem'.uuid > uuids THEN uuids + 1 ELSE uuids
    /\ identity' = IF Identity \in gone THEN mem'.uuid ELSE identity
    /\ lost' = gone \ {Identity}
    /\ IF content.kind = "object"
       THEN up' = "up" /\ UNCHANGED <<saver, unsure>>
       ELSE up' = "loading" /\ Goes(Main, [at |-> "set", change |-> Identity]) /\ unsure' = {Identity}
    /\ UNCHANGED <<file, sets, acked, crossed, crashes>>

Load == Loads(file, lost) /\ UNCHANGED faults

\* It takes a file that it cannot open or read for none, and replaces it.
LoadFails == Fault /\ Loads(Missing, lost \cup Everything)

\* A setter: the member, then save.
Set(t) ==
    /\ up = "up" /\ At(t, "idle") /\ sets < MaxSets
    /\ sets' = sets + 1
    /\ mem' = [mem EXCEPT !.changes = @ \cup {sets + 1}]
    /\ Goes(t, [at |-> "set", change |-> sets + 1])
    /\ UNCHANGED <<file, up, uuids, acked, history, crashes, faults>>

\* save composes the whole document from the members,
StaleRoot(t) == [mem EXCEPT !.changes = @ \ {saver[t].change}]
Root(t) == mem
Others(t) == {s \in Threads \ {t} : InFile(s)}
Compose(t) ==
    /\ At(t, "set")
    /\ Goes(t, [at |-> "open", change |-> saver[t].change, root |-> Root(t)])
    /\ crossed' = IF Others(t) = {} THEN crossed ELSE crossed \cup Others(t) \cup {t}
    /\ UNCHANGED <<mem, file, up, uuids, sets, acked, identity, unsure, lost, crashes, faults>>

\* opens the file, which empties it,
Truncate(t) ==
    /\ At(t, "open")
    /\ file' = Malformed
    /\ unsure' = Everything
    /\ Goes(t, [saver[t] EXCEPT !.at = "write"])
    /\ UNCHANGED <<mem, up, uuids, sets, acked, identity, crossed, lost, crashes, faults>>

\* or cannot, which leaves it as it was; the setter, or load, returns all the same.
Returns(t) ==
    /\ Goes(t, Idle)
    /\ crossed' = crossed \ {t}
    /\ up' = IF up = "loading" THEN "up" ELSE up
    /\ acked' = IF saver[t].change = Identity THEN acked ELSE acked \cup {saver[t].change}
    /\ UNCHANGED <<mem, uuids, sets, identity, lost, crashes>>
CannotOpen(t) ==
    /\ At(t, "open")
    /\ Fault
    /\ unsure' = unsure \cup {saver[t].change}
    /\ Returns(t)
    /\ UNCHANGED file

\* It writes from the beginning.  Over a longer document of another thread the end of
\* that one remains.
Written(t) == {Holds(saver[t].root)} \cup (IF file.kind = "object" THEN {Malformed} ELSE {})
Write(t) ==
    /\ At(t, "write")
    /\ file' \in Written(t)
    /\ unsure' = IF t \in crossed THEN unsure ELSE {}
    /\ Returns(t)
    /\ UNCHANGED faults

\* Nobody looks at whether all of it, or any, was written.
WriteFails(t) ==
    /\ At(t, "write")
    /\ Fault
    /\ file' \in {file, Malformed}
    /\ Returns(t)
    /\ UNCHANGED unsure

Crash ==
    /\ up # "down" /\ crashes < MaxCrashes
    /\ crashes' = crashes + 1
    /\ up' = "down"
    /\ mem' = Defaults
    /\ saver' = [t \in Threads |-> Idle]
    /\ crossed' = {} /\ unsure' = {}
    /\ lost' = lost \cup unsure
    /\ UNCHANGED <<file, uuids, sets, acked, identity, faults>>

Next ==
    \/ Load \/ LoadFails \/ Crash
    \/ \E t \in Threads :
          Set(t) \/ Compose(t) \/ Truncate(t) \/ CannotOpen(t) \/ Write(t) \/ WriteFails(t)

Spec == Init /\ [][Next]_vars

-----------------------------------------------------------------------------
(* Properties. *)

\* Types of every variable.
TypeOK ==
    /\ mem \in Settings
    /\ file \in Files
    /\ saver \in [Threads -> Savers]
    /\ up \in {"down", "loading", "up"}
    /\ uuids \in 0 .. MaxCrashes + 1
    /\ sets \in 0 .. MaxSets
    /\ acked \subseteq Changes
    /\ identity \in Uuids \cup {NoUuid}
    /\ crossed \subseteq Threads
    /\ unsure \subseteq 0 .. MaxSets /\ lost \subseteq 0 .. MaxSets
    /\ crashes \in 0 .. MaxCrashes /\ faults \in 0 .. MaxFaults

\* Every launch finds the identity ("Load from disk or generate on first launch",
\* identity.h:29) and everything a setter that has returned changed (setters save
\* immediately, sessionmanager.cpp:250), but for what was unsure at the end of an earlier
\* one.  So whatever a save failed to open or write, left half done or lost to another
\* thread's, the next save that has the file to itself makes good.
SettingsSurvive == up = "up" => mem.uuid = identity /\ acked \ lost \subseteq mem.changes

=============================================================================
