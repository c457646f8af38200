SPECIFICATION FairSpec
CONSTANTS
    Callers = {c1, c2}
    Adapters = {wifi}
    Settings = {auto}
    MaxWork = 2
    NoFile = NoFile
    Damaged = Damaged
    None = None
PROPERTIES
    Responsive
