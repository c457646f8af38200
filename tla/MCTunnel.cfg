SPECIFICATION FairSpec
CONSTANTS
    Configs = {r1, r2}
    None = None
    MaxPings = 1
INVARIANTS
    TypeOK
    StatusIsTrue
    NothingRunsUnseen
PROPERTIES
    
    Responsive
    DeathNoticed
