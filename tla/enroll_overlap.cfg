\* two runs at once over two relays; calls lost, a relay restarts; clocks apart
CONSTANTS
    N = 2
    R = 2
    Timeout = 1
    InstallWindow = 1
    Skew = 2
    CertLife = 3
    Clocks <- OverlapClocks
    Overlap = TRUE
    MaxTime = 2
    MaxFaults = 1
    MaxCrashes = 1
    MaxKills = 0
SPECIFICATION Spec
INVARIANTS
    AnchorMeansEnrolled
    RosterOfItsCA
    HoldersAreNamed
    NeverRefusedLate
CHECK_DEADLOCK FALSE
