SPECIFICATION Spec
CONSTANTS
    Callers = {c1, c2}
    Adapters = {wifi, lan}
    Settings = {auto, p1}
    MaxWork = 2
    NoFile = NoFile
    Damaged = Damaged
    None = None
SYMMETRY Symmetry
INVARIANTS
    SerialRecoverable
