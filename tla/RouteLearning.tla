----------------------------- MODULE RouteLearning -----------------------------
(***************************************************************************)
(* What the program learns about the routes of a running game              *)
(* (learn_game_route_profile, _air_lite_tick, game_route_profile_service,  *)
(* game_server_probe_service).  Any number of learning workers and one AIR *)
(* worker look for the addresses that the game talks to, if need be with   *)
(* the packet monitor of Windows, of which there is one; a learning worker *)
(* then measures the largest packet that the path lets through.  They      *)
(* write the game's profile without a lock, as do its clearing and import. *)
(***************************************************************************)
EXTENDS Naturals, FiniteSets

CONSTANTS Endpoints,       \* fewer than the 64 that a profile keeps
          Learners, Air,   \* bound: learning workers at a time; the AIR worker
          Low, High,       \* payloads that are tried, 1172 to 1472
          Header,          \* what a packet adds to its payload, 28
          Margin, Ceiling, \* of the recommendation, 40 and 1420
          Default,         \* recommendation without a measurement, 1400
          Paths            \* payloads that a path may let through

VARIABLES profile,  \* game.route_profile
          worker,   \* the workers
          pktmon,   \* who started the capture of the packet monitor
          path,     \* what the path of the game lets through
          written,  \* history: endpoints that were put in the profile
          marred    \* history: what went wrong, and what may therefore

learnVars == <<profile, worker, pktmon, path, written, marred>>

Observers == Learners \cup {Air}
Floor == Low + Header
Unknown == 0

Idle == [pc |-> "none", base |-> {}, found |-> {}, valid |-> TRUE,
         low |-> Low, high |-> High, best |-> Unknown, lossless |-> TRUE]

Profiles == [known : SUBSET Endpoints, mtu : Floor..Ceiling,
             measured : BOOLEAN, lossless : BOOLEAN]
Learnings == [pc : {"none", "look", "raw", "status", "start", "capture", "again",
                    "benchmark", "mtu", "decide", "write"},
              base : SUBSET Endpoints, found : SUBSET Endpoints, valid : BOOLEAN,
              low : Nat, high : Nat, best : {Unknown} \cup Low..High, lossless : BOOLEAN]

LearnTypeOK ==
    /\ profile \in Profiles /\ (profile.lossless => profile.measured)
    /\ worker \in [Observers -> Learnings]
    /\ \A w \in Observers : worker[w].pc = "mtu" => worker[w].low <= worker[w].high + 1
    /\ pktmon \in Observers \cup {"none", "user"}
    /\ path \in Paths /\ written \subseteq Endpoints

LearnInit ==
    /\ profile = [known |-> {}, mtu |-> Default, measured |-> FALSE, lossless |-> FALSE]
    /\ worker = [w \in Observers |-> Idle]
    /\ pktmon = "none"
    /\ path \in Paths
    /\ written = {} /\ marred = {}

To(w, pc) == worker' = [worker EXCEPT ![w].pc = pc]
Ends(w) == worker' = [worker EXCEPT ![w] = Idle]

\* learn_game_route_profile, _air_lite_tick (busy flag); a learning worker goes
\* on from the profile as it is now.
Begin(w) ==
    /\ worker[w].pc = "none"
    /\ worker' = [worker EXCEPT ![w] = [Idle EXCEPT !.pc = "look", !.base = profile.known]]
    /\ UNCHANGED <<profile, pktmon, path, written, marred>>

\* The game ends or another one is detected: the generation changes.
SessionEnds ==
    /\ worker' = [w \in Observers |-> [worker[w] EXCEPT !.valid = worker[w].pc = "none"]]
    /\ marred' = marred \cup
          (IF \E w \in Observers : worker[w].pc = "write" THEN {"gap"} ELSE {})
    /\ UNCHANGED <<profile, pktmon, path, written>>

-------------------------------------------------------------------------------
(* Looking for addresses *)

Saw(w, found) ==
    worker' = [worker EXCEPT ![w].found = found,
                  ![w].pc = IF w = Air \/ found = {} THEN "decide" ELSE "benchmark"]

\* discover_game_endpoints: the connections that the process has
Look(w, found) ==
    /\ worker[w].pc = "look"
    /\ IF found # {} THEN Saw(w, found) ELSE To(w, "raw")
    /\ UNCHANGED <<profile, pktmon, path, written, marred>>

\* capture_game_udp_endpoints, on a raw socket that this process may not open
RawCapture(w, found) ==
    /\ worker[w].pc = "raw"
    /\ IF found # {} THEN Saw(w, found) ELSE To(w, "status")
    /\ UNCHANGED <<profile, pktmon, path, written, marred>>

\* capture_game_udp_endpoints_pktmon: somebody's capture is left alone.
PktmonStatus(w) ==
    /\ worker[w].pc = "status"
    /\ IF pktmon # "none" THEN Saw(w, {}) ELSE To(w, "start")
    /\ UNCHANGED <<profile, pktmon, path, written, marred>>

\* Only one capture can run.  A start that does not answer in time counts as
\* one that failed, and is not taken back.
PktmonStart(w, outcome) ==
    /\ worker[w].pc = "start"
    /\ outcome # "failed" => pktmon = "none"
    /\ pktmon' = IF outcome = "failed" THEN pktmon ELSE w
    /\ IF outcome = "started" THEN To(w, "capture") ELSE Saw(w, {})
    /\ marred' = IF outcome = "late" THEN marred \cup {"start"} ELSE marred
    /\ UNCHANGED <<profile, path, written>>

\* Stop ends whichever capture runs.  Its exit code is not read; one that does
\* not answer is tried once more on the way out.
PktmonStop(w, outcome, found) ==
    /\ worker[w].pc \in {"capture", "again"}
    /\ outcome = "late" => found = {}
    /\ IF outcome = "late" /\ worker[w].pc = "capture"
       THEN /\ To(w, "again") /\ UNCHANGED <<pktmon, marred>>
       ELSE /\ Saw(w, IF worker[w].pc = "again" THEN {} ELSE found)
            /\ pktmon' = IF outcome = "stopped" THEN "none" ELSE pktmon
            /\ marred' = marred
                  \cup (IF outcome # "stopped" THEN {"stop"} ELSE {})
                  \cup (IF outcome = "stopped" /\ pktmon = "user"
                        THEN {"interrupted"} ELSE {})
    /\ UNCHANGED <<profile, path, written>>

\* The user works with the packet monitor, too.
UserStarts ==
    /\ pktmon = "none"
    /\ pktmon' = "user"
    /\ UNCHANGED <<profile, worker, path, written, marred>>
UserStops ==
    /\ pktmon # "none"
    /\ pktmon' = "none"
    /\ marred' = IF pktmon = "user" THEN marred ELSE marred \cup {"taken"}
    /\ UNCHANGED <<profile, worker, path, written>>

-------------------------------------------------------------------------------
(* The largest packet: discover_path_mtu *)

\* benchmark_endpoint: none of the addresses, or one, answers.
Benchmark(w, answers) ==
    /\ worker[w].pc = "benchmark"
    /\ To(w, IF answers THEN "mtu" ELSE "decide")
    /\ UNCHANGED <<profile, pktmon, path, written, marred>>

\* One ping that must not be fragmented; a reply may get lost.
Ping(w, lost) ==
    LET s == worker[w]
        middle == (s.low + s.high) \div 2
    IN
    /\ s.pc = "mtu" /\ s.low <= s.high
    /\ lost => middle <= path
    /\ worker' = [worker EXCEPT ![w] =
          IF middle <= path /\ ~lost
          THEN [s EXCEPT !.best = middle, !.low = middle + 1]
          ELSE [s EXCEPT !.high = middle - 1, !.lossless = @ /\ ~lost]]
    /\ UNCHANGED <<profile, pktmon, path, written, marred>>

\* ping cannot be run, or does not end: no result.
SearchEnds(w, fails) ==
    /\ worker[w].pc = "mtu"
    /\ fails \/ worker[w].low > worker[w].high
    /\ worker' = [worker EXCEPT ![w].pc = "decide",
                                ![w].best = IF fails THEN Unknown ELSE @]
    /\ UNCHANGED <<profile, pktmon, path, written, marred>>

Between(a, value, b) == IF value < a THEN a ELSE IF value > b THEN b ELSE value
PathMtu(best) == Between(Low + Header, best + Header, High + Header)
\* A natural number minus the margin, which is not below the floor
Recommended(mtu) ==
    IF mtu < Floor + Margin THEN Floor ELSE Between(Floor, mtu - Margin, Ceiling)

-------------------------------------------------------------------------------
(* The profile *)

\* Mutant: the generation is not compared
DecideAnyway(w) ==
    /\ w \in Learners /\ worker[w].pc = "decide"
    /\ To(w, "write")
    /\ UNCHANGED <<profile, pktmon, path, written, marred>>

\* The generation is compared, and then the profile is written.
Decide(w) ==
    /\ w \in Learners /\ worker[w].pc = "decide"
    /\ IF worker[w].valid THEN To(w, "write") ELSE Ends(w)
    /\ UNCHANGED <<profile, pktmon, path, written, marred>>

\* AIR writes only what the profile does not know.
AirDecides ==
    /\ worker[Air].pc = "decide"
    /\ IF worker[Air].valid /\ worker[Air].found \ profile.known # {}
       THEN To(Air, "write") ELSE Ends(Air)
    /\ UNCHANGED <<profile, pktmon, path, written, marred>>

Overlap(w) ==
    IF \E other \in Learners \ {w} : worker[other].pc # "none" THEN {"overlap"} ELSE {}

\* merge_observation
Merge(old, known, found) == [old EXCEPT !.known = known \cup found]

\* learn, from the profile as it was when the worker started; without a
\* measurement the recommendation stays.
Learned(s) ==
    LET merged == Merge(profile, s.base, s.found)
    IN  IF s.best = Unknown THEN merged
        ELSE [merged EXCEPT !.mtu = Recommended(PathMtu(s.best)),
                            !.measured = TRUE, !.lossless = s.lossless]

Write(w) ==
    LET s == worker[w]
    IN
    /\ s.pc = "write"
    /\ profile' = IF w = Air THEN Merge(profile, profile.known, s.found) ELSE Learned(s)
    /\ written' = written \cup s.found
    /\ marred' = marred \cup Overlap(w) \cup (IF s.valid THEN {} ELSE {"foreign"})
    /\ Ends(w)
    /\ UNCHANGED <<pktmon, path>>

\* clear_game_route_profile, set_game_route_profile after import_recipe
Replace(known, mtu) ==
    /\ mtu \in Floor..Ceiling
    /\ profile' = [known |-> known, mtu |-> mtu, measured |-> FALSE, lossless |-> FALSE]
    /\ written' = known
    /\ marred' = marred \cup Overlap(Air)
    /\ UNCHANGED <<worker, pktmon, path>>
Clear == Replace({}, Default)
Import(known, mtu) == known # {} /\ Replace(known, mtu)

LearnClean == marred = {}

LearnNext ==
    \/ \E w \in Observers :
         \/ Begin(w) \/ PktmonStatus(w) \/ Decide(w) \/ Write(w)
         \/ \E found \in SUBSET Endpoints : Look(w, found) \/ RawCapture(w, found)
         \/ \E outcome \in {"started", "failed", "late"} : PktmonStart(w, outcome)
         \/ \E outcome \in {"stopped", "refused", "late"}, found \in SUBSET Endpoints :
              PktmonStop(w, outcome, found)
         \/ \E yes \in BOOLEAN : Benchmark(w, yes) \/ Ping(w, yes) \/ SearchEnds(w, yes)
    \/ AirDecides \/ SessionEnds \/ UserStarts \/ UserStops \/ Clear
    \/ \E known \in SUBSET Endpoints, mtu \in {Floor, Ceiling} : Import(known, mtu)

LearnSpec == LearnInit /\ [][LearnNext]_learnVars

-------------------------------------------------------------------------------
\* Unless two of them overlapped, the profile knows exactly what the workers
\* found since it was cleared or imported; what was found in one session of the
\* game is written in that session (main_viewmodel.py:1391, 2061), except when it
\* ends between the comparison and the writing.
ProfileIsTrue ==
    /\ "overlap" \in marred \/ profile.known = written
    /\ "foreign" \in marred => "gap" \in marred

\* The recommended packet passes on the path that was measured, and when no
\* reply was lost it is the largest that does, less the margin
\* (game_route_profile_service.py:78-100, 150-156).
RecommendationFits ==
    profile.measured =>
       /\ profile.mtu <= path + Header
       /\ profile.lossless =>
             profile.mtu = Recommended(Between(0, path, High) + Header)

\* "Never interrupt another diagnostic capture" (game_server_probe_service.py:298)
\* and leave none behind, while the packet monitor does what it is told.
CaptureIsClean ==
    /\ pktmon \in Observers /\ marred \cap {"start", "stop", "taken"} = {} =>
          worker[pktmon].pc \in {"capture", "again"}
    /\ "interrupted" \in marred => "taken" \in marred

\* ProfileIsTrue, made inductive: a worker goes on from what the profile knows ...
KnowsWhatWasFound ==
    /\ \/ "overlap" \in marred
       \/ /\ profile.known = written
          /\ \A w \in Learners :
                worker[w].pc # "none" => worker[w].base = profile.known
    /\ "foreign" \in marred => "gap" \in marred
    /\ \A w \in Observers : worker[w].pc = "write" /\ ~worker[w].valid => "gap" \in marred

\* ... RecommendationFits: what was sent is on one side of the largest packet, and
\* what was lost on the other, so that the search ends at it ...
Measures(s) ==
    /\ s.best # Unknown => s.best <= path
    /\ s.pc = "mtu" =>
          /\ s.low = IF s.best = Unknown THEN Low ELSE s.best + 1
          /\ s.high <= High /\ s.low <= s.high + 1
          /\ s.lossless => s.high = High \/ path <= s.high
    /\ s.pc \in {"decide", "write"} /\ s.best # Unknown /\ s.lossless =>
          s.best = Between(0, path, High)
    /\ s.pc \notin {"mtu", "decide", "write"} =>
          s.best = Unknown /\ s.low = Low /\ s.high = High

\* ... and CaptureIsClean: the capture that runs is the one that a worker waits for.
Captures(w) == worker[w].pc \in {"capture", "again"}
CaptureIsOwned ==
    /\ pktmon \in Observers /\ marred \cap {"start", "stop", "taken"} = {} => Captures(pktmon)
    /\ "interrupted" \in marred => "taken" \in marred
    /\ "taken" \notin marred => \A w \in Observers : Captures(w) => pktmon = w

LearnInv ==
    /\ LearnTypeOK /\ KnowsWhatWasFound /\ RecommendationFits /\ CaptureIsOwned
    /\ \A w \in Observers : Measures(worker[w])
===============================================================================
