\* one run after another: a killed run, a lost call, a restart nobody asked for,
\* relays whose clocks are ahead by less than a certificate lives
CONSTANTS
    N = 2
    R = 6
    Timeout = 1
    InstallWindow = 1
    Skew = 2
    CertLife = 2
    Clocks <- ConvergeClocks
    Overlap = FALSE
    MaxTime = 0
    MaxFaults = 1
    MaxCrashes = 1
    MaxKills = 1
SPECIFICATION FairSpec
PROPERTY EnrollmentConverges
CHECK_DEADLOCK FALSE
