SPECIFICATION SettingsOrPairing
CONSTANTS
    Devices = {d1, d2, d3}
    kMaxUuidFailures = 2
    MaxCodes = 2
    MaxDials = 3
    MaxRestarts = 1
    MaxRemovals = 1
    Threads = {user, io}
    Main = user
    MaxSets = 3
    MaxCrashes = 3
    MaxFaults = 2
SYMMETRY DeviceSymmetry
INVARIANTS
    SettingsSurvive
    CodeLinksOne
    PrimaryKnowsSecondary
    GuessesBounded
CHECK_DEADLOCK FALSE
