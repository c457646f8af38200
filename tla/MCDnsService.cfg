SPECIFICATION FairSpec
CONSTANTS
    Callers = {c1, c2}
    Adapters = {wifi, lan}
    Settings = {auto, p1, p2}
    NoFile = NoFile
    Damaged = Damaged
    None = None
INVARIANTS
    TypeOK
    OriginalRecoverable
PROPERTIES
    RestoreIsExact
    ExactRestoration
    CallsReturn
