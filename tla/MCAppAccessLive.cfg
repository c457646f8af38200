SPECIFICATION FairSpec
CONSTANTS
    Profiles = {p1}
    Original = Original
    None = None
PROPERTIES
    Responsive
