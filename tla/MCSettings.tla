----------------------------- MODULE MCSettings -----------------------------
(***************************************************************************)
(* SessionManager and DevicePairing for TLC.  The two specifications have  *)
(* no variable in common and no property is about both, so a behaviour is  *)
(* one of SessionManager or one of DevicePairing, with the other at its    *)
(* start.                                                                  *)
(***************************************************************************)
EXTENDS DevicePairing, TLC

CONSTANTS Threads, Main, MaxSets, MaxCrashes, MaxFaults

ASSUME SessionAssumption ==
    /\ Main \in Threads
    /\ MaxSets \in Nat /\ MaxCrashes \in Nat /\ MaxFaults \in Nat

VARIABLES
    about, \* which of the two the behaviour is of
    mem, file, saver, up, uuids, sets, acked, identity, crossed, unsure, lost, crashes, faults

settings == <<mem, file, saver, up, uuids, sets, acked, <<identity, crossed, unsure, lost>>, crashes,
              faults>>

Settings == INSTANCE SessionManager

Start ==
    /\ about \in {"settings", "pairing"}
    /\ Init
    /\ Settings!Init

Step ==
    /\ \/ about = "pairing" /\ Next /\ UNCHANGED settings
       \/ about = "settings" /\ Settings!Next /\ UNCHANGED vars
    /\ UNCHANGED about

SettingsOrPairing == Start /\ [][Step]_<<about, vars, settings>>

DeviceSymmetry == Permutations(Devices)

SettingsSurvive == Settings!SettingsSurvive
=============================================================================
