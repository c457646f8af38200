SPECIFICATION Spec
CONSTANTS
    Profiles = {p1, p2}
    Original = Original
    None = None
SYMMETRY Symmetry
INVARIANTS
    TestedIsNamed
