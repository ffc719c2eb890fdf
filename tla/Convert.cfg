SPECIFICATION Spec
CONSTANTS
    MaxPieces = 4
    MaxRare = 3
    MaxTools = 3
    FreshIds <- MCFreshIds
    Usual <- MCUsual
    Rare <- MCRare
    Inputs <- MCInputs
    Upstreams <- MCUpstreams
CHECK_DEADLOCK FALSE
INVARIANTS RepairHolds NothingLost BatchesStay ReasoningStays CallsComeBack ThinkingSent
