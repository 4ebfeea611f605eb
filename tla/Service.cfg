SPECIFICATION MCFairSpec
CONSTANTS
    Platforms = {"launchd", "systemd"}
    Retries = 2
    Meddling = {"linger", "limit"}
    MaxTroubles = 4
    Half = 128
    Day = 10
    DefaultAge = 70
    DefaultCap = 50
    Ages = {1, 3, 5, 12, 40, 75, 110}
    Calls <- MCCalls
    Cwd <- MCCwd
CHECK_DEADLOCK FALSE
INVARIANT ClaimIsBacked
INVARIANT FlagsInv
PROPERTY InstallIsTrue
PROPERTY UninstallIsTrue
PROPERTY ClaimedComesUp
