SPECIFICATION Spec
CONSTANTS
    Actors = {a1, a2}
    Things = {b1, b2}
    None = None
    NoFile = NoFile
    \* GameSession, OfficialWarp
    Games = {b1, b2}
    Ways = {w1, w2}
    Own = Own
    MaxInbox = 2
    \* Updates, Files
    Threads = {a1, a2}
    Releases = {b1, b2}
    Size = 2
    Items = {x1, x2}
    Initial = {x1}
    Torn = Torn
    \* Journal
    Writers = {a1, a2}
    Processes = {b1, b2}
    Keep = 2
    \* ProbeBudget
    Probers = {a1, a2}
    Allowance = 4
    Requests = {1, 3}
    NoBudget = NoBudget
    \* RouteMemory
    Networks = {a1, a2}
    Groups <- Group
    NoGroup = NoGroup
    Routes = {b1, b2}
    Kept = 3
    Recent = 2
    Cap = 2
    Coverages = {1, 2}
    Scores = {0, 3}
    \* Tariff
    Hosts = {h1, h2}
    Blocks = {k1, k2}
    Allocated = {k1}
    Published = {h1, k1}
    Hops = 2
    Remembered = 1
    Keyed = TRUE
    NoDocument = NoDocument
    NoResult = NoResult
    \* RouteLearning
    Endpoints = {b1}
    Learners = {l1}
    Air = "air"
    Low = 2
    High = 5
    Header = 1
    Margin = 2
    Ceiling = 5
    Default = 4
    Paths = {1, 3, 6}
    \* SafetyGate
    Probes = {a1, a2}
    NoBaseline = NoBaseline
    \* Blackbox
    Pids = {p1, p2}
    Reporters = {r1}
    Watchdog = "watchdog"
    MaxReports = 1
    Surplus = 2
    \* Consent
    Instances = {i1, i2}
    Garbled = Garbled
    \* Journey
    Workers = {f1, f2}
    MaxQueue = 2
    \* Monitors
    Servers = {b1, b2}
    NoContext = NoContext
    NoServer = NoServer
    Bad = 2
    Slack = 1
    \* Ranking
    Candidates = {s1, s2, s3}
    Global = {s1}
    Unblocking = {s2, s3}
    Domains = 2
    Rounds = 2
    Paces <- Pace
    Finalists = 2
CHECK_DEADLOCK FALSE
SYMMETRY Symmetry
CONSTRAINT Bounds
INVARIANTS
    TypeOK
    
    
    ReceiptIsRight
    
    
    VerdictIsHonest
    LearnedIsTrue
    RollbackIsJustified
    BlackboxTells
    ConsentIsFresh
    ChoicesKept
    
PROPERTIES
    
    LaunchedIsRight
