\* two peers, one of which may be out of reach for as long as it likes and cost
\* whole timeouts
CONSTANTS
    P = 2
    MayFail = {1}
    Settings <- BothSettings
SPECIFICATION Spec
INVARIANTS
    ServableIsLive
    OwnBundleMirrored
    HeldWithin
CHECK_DEADLOCK FALSE
