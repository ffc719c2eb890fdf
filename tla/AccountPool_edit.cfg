SPECIFICATION Spec
CONSTANTS
    r1 = r1
    r2 = r2
    r3 = r3
    m1 = m1
    N = 2
    Request = {r1, r2, r3}
    Model = {m1}
    ModelOf <- MCOneModel
    MaxPriority = 2
    Threshold = 2
    Window = 2
    BackoffBase = 1
    BackoffCap = 2
    MaxUntil = 2
    MissingTTL = 1
    ResetHints = {0, 3}
    HitsCap = 2
    CursorMod = 2
    UserOps = {"toggle", "priority", "delete", "login"}
SYMMETRY RequestSymmetry
CONSTRAINT Scope
INVARIANTS PoolInv
PROPERTIES SuspensionEnds PenaltiesStand
