SPECIFICATION Spec
CONSTANTS
    Profiles = {p1, p2}
    Original = Original
    None = None
SYMMETRY Symmetry
INVARIANTS
    TypeOK
    BusyTracksWorker
    FailedLeavesNothing
    ShownIsReal
    IntentIsExact
PROPERTIES
    UserWarpUntouched
    CancelStopsSearch
