SPECIFICATION FairSpec
CONSTANTS
    r1 = r1
    r2 = r2
    r3 = r3
    m1 = m1
    N = 2
    Request = {r1}
    Model = {m1}
    ModelOf <- MCOneModel
    MaxPriority = 1
    Threshold = 2
    Window = 2
    BackoffBase = 1
    BackoffCap = 2
    MaxUntil = 3
    MissingTTL = 2
    ResetHints = {0}
    HitsCap = 2
    CursorMod = 2
    UserOps = {"other_realm"}
PROPERTIES RequestEnds PoolRecovers KeepsPromise NoAccountLeftUntried
