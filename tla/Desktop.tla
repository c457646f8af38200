------------------------------- MODULE Desktop -------------------------------
(***************************************************************************)
(* The parts of the program that keep a state of their own beside the DNS  *)
(* session, App Access and the tunnel.  Each is specified in a module of   *)
(* its own, with what the others do to it among its actions, and so shares *)
(* no variable with another: the state of the program is a tuple of theirs *)
(* and every interleaving of theirs is allowed.  A safety property of one  *)
(* part holds of that product if and only if it holds of the part, and     *)
(* this module states the disjoint sum of the parts instead: a behaviour   *)
(* is one of any of them, and v1 to v11 are the variables of that one.     *)
(***************************************************************************)
EXTENDS Naturals, FiniteSets

CONSTANTS Games, None, Ways, Own, MaxInbox, Releases, Threads, Size, NoFile,
          Writers, Processes, Keep, Probers, Allowance, Requests, NoBudget,
          Networks, Groups, NoGroup, Routes, Kept, Recent, Cap, Coverages,
          Scores, Hosts, Blocks, Allocated, Published, Hops, Remembered,
          Keyed, NoDocument, NoResult, Endpoints, Learners, Air, Low, High,
          Header, Margin, Ceiling, Default, Paths, Probes, NoBaseline, Pids,
          Reporters, Watchdog, MaxReports, Surplus, Instances, Garbled, Items,
          Initial, Torn, Workers, MaxQueue, Servers, NoContext, NoServer, Bad,
          Slack, Candidates, Global, Unblocking, Domains, Rounds, Paces,
          Finalists

\* A name that stands for nothing is none of the names.
ASSUME NoGameAssumption == None \notin Games
ASSUME WaysAssumption == Ways # {} /\ Own \notin Ways /\ None \notin Ways \cup {Own}

VARIABLES part, v1, v2, v3, v4, v5, v6, v7, v8, v9, v10, v11

vars == <<part, v1, v2, v3, v4, v5, v6, v7, v8, v9, v10, v11>>

Game == INSTANCE GameSession WITH
    session <- v1, link <- v2, qos <- v3, qosWork <- v4, air <- v5,
    history <- v6
Warp == INSTANCE OfficialWarp WITH
    client <- v1, intent <- v2, session <- v3, journey <- v4, window <- v5,
    task <- v6, inbox <- v7, odd <- v8
Update == INSTANCE Updates WITH
    Blocks <- Size, part <- v1, final <- v2, thread <- v3, cancel <- v4,
    dialog <- v5, manifest <- v6, path <- v7, results <- v8, gaming <- v9,
    verified <- v10, twice <- v11
Recovery == INSTANCE Journal WITH
    dns <- v1, backup <- v2, qos <- v3, rows <- v4, tmp <- v5, writer <- v6,
    missed <- v7
Budget == INSTANCE ProbeBudget WITH
    Limit <- Allowance, budget <- v1, draft <- v2, prober <- v3,
    granted <- v4, today <- v5, unequal <- v6
Memory == INSTANCE RouteMemory WITH
    history <- v1, measured <- v2, ranking <- v3, network <- v4
Traffic == INSTANCE Tariff WITH
    cache <- v1, tunnel <- v2, view <- v3, check <- v4, inbox <- v5,
    links <- v6
Learning == INSTANCE RouteLearning WITH
    profile <- v1, worker <- v2, pktmon <- v3, path <- v4, written <- v5,
    marred <- v6
Gate == INSTANCE SafetyGate WITH
    link <- v1, baseline <- v2, probe <- v3, undone <- v4
Box == INSTANCE Blackbox WITH
    marker <- v1, running <- v2, enabled <- v3, queue <- v4, writer <- v5,
    ui <- v6, owed <- v7, wrong <- v8, doubts <- v9
Lookup == INSTANCE Consent WITH
    file <- v1, instance <- v2, agreed <- v3, strained <- v4
Store == INSTANCE Files WITH
    disk <- v1, former <- v2, memory <- v3, up <- v4, saver <- v5,
    chosen <- v6, lapses <- v7, removed <- v8
Flow == INSTANCE Journey WITH
    flow <- v1, current <- v2, busy <- v3, held <- v4, worker <- v5,
    inbox <- v6, linked <- v7, odd <- v8
Watch == INSTANCE Monitors WITH
    net <- v1, answering <- v2, dns <- v3, tunnel <- v4, context <- v5,
    bad <- v6, probe <- v7, shows <- v8, fails <- v9, warned <- v10,
    crossed <- v11
Rank == INSTANCE Ranking WITH
    Servers <- Candidates, Limit <- Finalists, race <- v1

ASSUME IntentAssumption ==
    None \notin [original : Warp!Preferences, expected : Ways]
ASSUME BudgetAssumption ==
    Allowance \in Nat /\ Requests \subseteq Nat /\ NoBudget \notin Budget!Entry
ASSUME KeepAssumption == Keep \in Nat \ {0}
ASSUME MemoryAssumption ==
    /\ Kept \in Nat /\ Recent \in Nat /\ Cap \in Nat /\ IsFiniteSet(Routes)
    /\ Coverages \subseteq Nat /\ Scores \subseteq Nat
ASSUME RankAssumption ==
    /\ Domains \in Nat \ {0} /\ Rounds \in Nat \ {0} /\ Finalists \in Nat \ {0, 1}
    /\ IsFiniteSet(Candidates) /\ Global \subseteq Candidates /\ Unblocking \subseteq Candidates
    /\ Paces \subseteq [median : Nat, jitter : Nat, backup : BOOLEAN]
ASSUME BoundsAssumption == Hops \in Nat /\ Remembered \in Nat /\ MaxQueue \in Nat
ASSUME SettingsAssumption ==
    NoFile \notin Lookup!Settings /\ Garbled \notin Lookup!Settings
ASSUME FilesAssumption ==
    /\ Initial \subseteq Items /\ "profiles" \notin Threads
    /\ NoFile # Torn /\ \A content \in SUBSET Items : content \notin {NoFile, Torn}
ASSUME ReleasesAssumption ==
    Size \in Nat \ {0} /\ None \notin Releases /\ NoFile \notin Update!Bytes

ASSUME ReportsAssumption ==
    MaxReports \in Nat /\ Surplus \in Nat /\ {"none", "garbled"} \cap Pids = {}
ASSUME FailuresAssumption == Bad \in Nat /\ Slack \in Nat
ASSUME LearningAssumption ==
    /\ Low \in Nat \ {0} /\ High \in Nat /\ Low <= High /\ Header \in Nat
    /\ Margin \in Nat /\ Ceiling \in Nat /\ Default \in Low + Header..Ceiling
    /\ Paths \subseteq Nat /\ Air \notin Learners
    /\ {"none", "user"} \cap (Learners \cup {Air}) = {}

\* The variables that a part with n of its own has no use for.
Unused == "unused"
Spare9 == <<v10, v11>>
Spare8 == <<v9, v10, v11>>
Spare7 == <<v8, v9, v10, v11>>
Spare6 == <<v7, v8, v9, v10, v11>>
Spare4 == <<v5, v6, v7, v8, v9, v10, v11>>
Spare1 == <<v2, v3, v4, v5, v6, v7, v8, v9, v10, v11>>
Quiet9 == v10 = Unused /\ v11 = Unused
Quiet8 == v9 = Unused /\ Quiet9
Quiet7 == v8 = Unused /\ Quiet8
Quiet6 == v7 = Unused /\ Quiet7
Quiet4 == v5 = Unused /\ v6 = Unused /\ Quiet6
Quiet1 == v2 = Unused /\ v3 = Unused /\ v4 = Unused /\ Quiet4

Init == \/ part = "game" /\ Game!Init /\ Quiet6
        \/ part = "warp" /\ Warp!WarpInit /\ Quiet8
        \/ part = "updates" /\ Update!UpdatesInit
        \/ part = "journal" /\ Recovery!JournalInit /\ Quiet7
        \/ part = "budget" /\ Budget!BudgetInit /\ Quiet6
        \/ part = "memory" /\ Memory!MemoryInit /\ Quiet4
        \/ part = "tariff" /\ Traffic!TariffInit /\ Quiet6
        \/ part = "learning" /\ Learning!LearnInit /\ Quiet6
        \/ part = "gate" /\ Gate!GateInit /\ Quiet4
        \/ part = "blackbox" /\ Box!BoxInit /\ Quiet9
        \/ part = "consent" /\ Lookup!ConsentInit /\ Quiet4
        \/ part = "files" /\ Store!FilesInit /\ Quiet8
        \/ part = "journey" /\ Flow!JourneyInit /\ Quiet8
        \/ part = "monitors" /\ Watch!MonitorInit
        \/ part = "ranking" /\ Rank!RankInit /\ Quiet1

GameStep == part = "game" /\ Game!Next /\ UNCHANGED <<part, Spare6>>
WarpStep == part = "warp" /\ Warp!WarpNext /\ UNCHANGED <<part, Spare8>>
UpdateStep == part = "updates" /\ Update!UpdatesNext /\ UNCHANGED part
RecoveryStep == part = "journal" /\ Recovery!JournalNext /\ UNCHANGED <<part, Spare7>>
BudgetStep == part = "budget" /\ Budget!BudgetNext /\ UNCHANGED <<part, Spare6>>
MemoryStep == part = "memory" /\ Memory!MemoryNext /\ UNCHANGED <<part, Spare4>>
TrafficStep == part = "tariff" /\ Traffic!TariffNext /\ UNCHANGED <<part, Spare6>>
LearningStep == part = "learning" /\ Learning!LearnNext /\ UNCHANGED <<part, Spare6>>
GateStep == part = "gate" /\ Gate!GateNext /\ UNCHANGED <<part, Spare4>>
BoxStep == part = "blackbox" /\ Box!BoxNext /\ UNCHANGED <<part, Spare9>>
LookupStep == part = "consent" /\ Lookup!ConsentNext /\ UNCHANGED <<part, Spare4>>
StoreStep == part = "files" /\ Store!FilesNext /\ UNCHANGED <<part, Spare8>>
FlowStep == part = "journey" /\ Flow!JourneyNext /\ UNCHANGED <<part, Spare8>>
WatchStep == part = "monitors" /\ Watch!MonitorNext /\ UNCHANGED part
RankStep == part = "ranking" /\ Rank!RankNext /\ UNCHANGED <<part, Spare1>>

Next == \/ GameStep \/ WarpStep \/ UpdateStep \/ RecoveryStep
        \/ BudgetStep \/ MemoryStep \/ TrafficStep \/ LearningStep
        \/ GateStep \/ BoxStep \/ LookupStep \/ StoreStep
        \/ FlowStep \/ WatchStep \/ RankStep

Spec == Init /\ [][Next]_vars

-------------------------------------------------------------------------------
(***************************************************************************)
(* A part notes, in a history variable, what its code cannot know or does  *)
(* not look at (see the module of the part for each).  TLC looks at the    *)
(* behaviours up to the first of these.                                    *)
(***************************************************************************)
Unreserved ==
    /\ part = "game" => Game!GameClean
    /\ part = "warp" => Warp!Clean
    /\ part = "updates" => Update!Serial
    /\ part = "journal" => Recovery!JournalClean
    /\ part = "budget" => Budget!BudgetClean
    /\ part = "learning" => Learning!LearnClean
    /\ part = "blackbox" => Box!BoxClean
    /\ part = "consent" => Lookup!ConsentClean
    /\ part = "files" => Store!FilesClean
    /\ part = "journey" => Flow!JourneyClean
    /\ part = "monitors" => Watch!MonitorClean

-------------------------------------------------------------------------------
(***************************************************************************)
(* What the parts promise.  The formulas are stated, and explained, beside *)
(* the code that they are about.                                           *)
(***************************************************************************)

\* Every part holds values of the types that its module gives: the queues,
\* the journal and the histories stay within their bounds (recovery_service.py:43,
\* crash_service.py:150), and threads end with the program.
TypeOK ==
    CASE part = "game" -> Game!TypeOK
      [] part = "warp" -> Warp!TypeOK
      [] part = "updates" -> Update!UpdatesTypeOK
      [] part = "journal" -> Recovery!JournalTypeOK
      [] part = "budget" -> Budget!BudgetTypeOK
      [] part = "memory" -> Memory!MemoryTypeOK
      [] part = "tariff" -> Traffic!TariffTypeOK
      [] part = "learning" -> Learning!LearnTypeOK
      [] part = "gate" -> Gate!GateTypeOK
      [] part = "blackbox" -> Box!BoxTypeOK
      [] part = "consent" -> Lookup!ConsentTypeOK
      [] part = "files" -> Store!FilesTypeOK
      [] part = "journey" -> Flow!JourneyTypeOK
      [] part = "monitors" -> Watch!MonitorTypeOK
      [] part = "ranking" -> Rank!RankTypeOK

\* When a game is gone and nothing is at work any more, nothing that was connected
\* or marked for it is left, and its lock is lifted (main_viewmodel.py:1862-1885).
SessionLeavesNothing == part = "game" => Game!SessionLeavesNothing /\ Game!LockEndsWithGame

\* Neither the end of a game nor an operation on WARP ends what the user connected
\* (main_viewmodel.py:1867-1874, official_warp_service.py:355-377), and a locked
\* session is not connected anew (main_viewmodel.py:1469, 1522, 1916).
UserSpared == [][/\ part = "game" => Game!SparesUser /\ Game!KeepsLock
                 /\ part = "warp" => Warp!SparesUser]_vars

\* A WARP connection is known to the program if and only if the program made it,
\* and the preferences of a test do not outlive it (official_warp_service.py:302-352).
WarpIsAccounted == part = "warp" => Warp!WarpIsAccounted

\* An installer is started only as the file whose digest was
\* checked (update_service.py:262-300).
LaunchedIsRight == [][part = "updates" => Update!LaunchesRight]_vars

\* The recovery journal lists exactly the changes that are to be undone, after any
\* sequence of changes, resets and crashes (recovery_service.py:43-110).
ReceiptIsRight == part = "journal" => Recovery!ReceiptIsRight

\* The probes of a day stay within the day's allowance, and the file counts them
\* (route_dna_service.py:470-522).
BudgetHolds == part = "budget" => Budget!BudgetHolds

\* The server that is chosen is among the best that were measured to work, and what
\* was measured on earlier days only breaks ties (connectivity_service.py:298-444,
\* route_dna_service.py:330-420).
RankingIsSound == /\ part = "ranking" => Rank!RankingIsSound
                  /\ part = "memory" => Memory!MemoryOnlyBreaksTies

\* A link is called domestic only on the evidence of the signed list, and no verdict
\* is sure behind a tunnel (traffic_tariff_service.py:5, 380-560).
VerdictIsHonest == part = "tariff" => Traffic!VerdictIsHonest

\* The route profile of a game holds what was observed of it, recommends a packet
\* size that fits the path, and no capture of the program outlives its worker
\* (game_route_profile_service.py, game_server_probe_service.py).
LearnedIsTrue == part = "learning" => /\ Learning!ProfileIsTrue
                                      /\ Learning!RecommendationFits
                                      /\ Learning!CaptureIsClean

\* The program takes a route back only on a comparison with the same game's direct
\* route (main_viewmodel.py:1304-1361, main_window.py:2704-2752).
RollbackIsJustified == part = "gate" => Gate!RollbackIsJustified

\* A start tells of an unclean end exactly when there was one, and the reports stay
\* within their bound (crash_service.py).
BlackboxTells == part = "blackbox" => Box!BlackboxTells

\* The online lookup is on only with the consent to the notice that is in force
\* (settings_service.py).
ConsentIsFresh == part = "consent" => Lookup!ConsentIsFresh

\* The games and routes that the user saved are there at the next start, and what
\* was removed stays removed (games_service.py, tunnel_storage_service.py,
\* app_paths.py).
ChoicesKept == part = "files" => Store!ChoicesKept

\* What the window tells is so: the outcome of a journey (connection_state_service.py), a
\* warning about the route (main_viewmodel.py:440-490), an update that is offered
\* for installation, a download that goes on (update_dialog.py).
ToldIsTrue == /\ part = "journey" => Flow!FlowIsTrue
              /\ part = "monitors" => Watch!WarnedWithCause
              /\ part = "updates" => Update!ReadyIsRight /\ Update!DownloadingIsAlive
===============================================================================
