SPECIFICATION Spec
CONSTANTS
    w1 = w1  w2 = w2  t1 = t1  t2 = t2
    Openers = {w1, w2}  Tags = {t1, t2}  CacheSize = 1
    Second = 2  TTL = 1  Every = 1  Skew = 1
    CertLives = {2}  Sleeps = TRUE  Jumps <- SetBack
    MaxTime = 4  MaxEpoch = 2
SYMMETRY OpenersAndTags
INVARIANTS
    TypeOK
    SetupOnce
    KeysInUseHeld
    NoKeyOutlivesItsPeriod
    DescriptorsHonoured
CHECK_DEADLOCK FALSE
