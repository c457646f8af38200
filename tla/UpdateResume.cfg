SPECIFICATION UpdatesSpec
CONSTANTS
    Releases = {r1}
    Threads = {t1}
    Blocks = 2
    NoFile = NoFile
    None = None
CHECK_DEADLOCK FALSE
INVARIANTS
    KeptCanResume
