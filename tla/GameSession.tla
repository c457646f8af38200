------------------------------ MODULE GameSession ------------------------------
(***************************************************************************)
(* The session of a game in the view-model: its detection every 750 ms,    *)
(* the preflight of an optimisation, what the optimisation connects, the   *)
(* QoS policy, Match Lock, and the tear-down when the game ends.           *)
(*                                                                         *)
(* DNS and the tunnel are here the two links that a session may use; what  *)
(* one of their operations does inside is in DnsSession and Tunnel.        *)
(***************************************************************************)
EXTENDS FiniteSets

CONSTANTS Games,
          None        \* no game

VARIABLES session,   \* the view-model's record of the session
          link,      \* the DNS and the tunnel
          qos,       \* games whose QoS policy is in effect
          qosWork,   \* games whose policy a thread is about to put in effect
          air,       \* the thread of AIR Lite
          history    \* what happened that the tear-down does not know of

vars == <<session, link, qos, qosWork, air, history>>

Channels == {"dns", "tunnel"}

\* detected: _last_detected_game_name; optimizing: _optimizing_game; preflight:
\* the game of the worker that _game_preflight_busy stands for; started and
\* pending: _game_started_* and _pending_game_stop_*; airOn: the timer.
NoSession == [detected |-> None, optimizing |-> None, preflight |-> None,
              locked |-> FALSE, airOn |-> FALSE,
              started |-> {}, pending |-> {}]

\* op is the operation that the busy flag stands for, by who asked for it, and
\* owner (a history) who asked for the connection.
NoLink == [op |-> "none", by |-> "none", connected |-> FALSE, owner |-> "none"]

\* fresh: _game_session_generation is still the one that the thread read.
NoAir == [game |-> None, pc |-> "none", fresh |-> FALSE]

\* What happened, first, that the tear-down takes no account of:
\*   late       an optimisation began when its game was no longer the detected
\*   absent     the user optimised a game that was not the detected one
\*   switched   another game was detected, and the session was not torn down
\*   forgotten  an optimisation began anew and dropped its note of a link
\*   unmarked   preferred links were connected, which nothing takes a note of
\*   joined     a link was noted that somebody else was connecting
\*   taken      the user connected a link anew that the session has noted
\*   kept       a link of the user was noted, and connecting it anew failed
\*   refused    a link was reconnecting when it should have been disconnected
\*   marked     a QoS policy came into effect after the end of its session
\*   raced      AIR Lite locked after its session had ended
\*   crashed    the program ended without its exit
Reasons == {"late", "absent", "switched", "forgotten", "unmarked", "joined", "taken",
            "kept", "refused", "marked", "raced", "crashed"}
Note(reasons) == history' = IF history = {} THEN reasons ELSE history

TypeOK ==
    /\ session \in [detected : Games \cup {None}, optimizing : Games \cup {None},
                    preflight : Games \cup {None}, locked : BOOLEAN,
                    airOn : BOOLEAN, started : SUBSET Channels,
                    pending : SUBSET Channels]
    /\ link \in [Channels -> [op : {"none", "connect", "disconnect"},
                              by : {"none", "user", "game"}, connected : BOOLEAN,
                              owner : {"none", "user", "game"}]]
    /\ qos \subseteq Games /\ qosWork \subseteq Games
    /\ air \in [game : Games \cup {None}, pc : {"none", "look", "lock"},
                fresh : BOOLEAN]
    /\ history \subseteq Reasons

Init == /\ session = NoSession
        /\ link = [c \in Channels |-> NoLink]
        /\ qos = {} /\ qosWork = {}
        /\ air = NoAir
        /\ history = {}

-------------------------------------------------------------------------------
(***************************************************************************)
(* Operations of the links, as functions of what they find                 *)
(***************************************************************************)
Busy(links, c) == links[c].op # "none"

\* apply_best_dns, apply_dns_profile and connect_tunnel; with no configuration
\* to try, connect_tunnel returns as early as when it is busy.
Refused(links, c, locked) == locked \/ Busy(links, c)
Connect(links, c, who, locked) ==
    IF Refused(links, c, locked) THEN links
    ELSE [links EXCEPT ![c].op = "connect", ![c].by = who]

\* disconnect_dns, disconnect_tunnel
Disconnect(links, c) ==
    IF Busy(links, c) \/ ~links[c].connected THEN links
    ELSE [links EXCEPT ![c].op = "disconnect"]

-------------------------------------------------------------------------------
(***************************************************************************)
(* Optimisation                                                            *)
(***************************************************************************)
\* optimize_game_connection
Optimize(s, g) == IF s.preflight # None \/ s.locked THEN s
                  ELSE [s EXCEPT !.preflight = g]

\* apply_game_preferred_profile: without preferences the optimisation;
\* otherwise the preferred DNS, tunnel or both are connected at once, and the
\* session keeps no note of it.
ApplyPreferred(s, g, reasons) ==
    \/ /\ session' = Optimize(s, g)
       /\ UNCHANGED link
       /\ Note(reasons)
    \/ \E wanted \in SUBSET Channels :
          /\ session' = s
          /\ link' = [c \in Channels |->
                IF c \in wanted THEN Connect(link, c, "game", s.locked)[c] ELSE link[c]]
          /\ Note(reasons \cup IF link' = link THEN {} ELSE {"unmarked"})

Handover(g) == IF session.optimizing \in {None, g} THEN {} ELSE {"switched"}

\* _on_game_preflight_completed and _begin_game_optimization
PreflightCompleted ==
    /\ session.preflight # None
    /\ LET g == session.preflight
           idle == [session EXCEPT !.preflight = None]
           begun(air_lite, started) ==
              [idle EXCEPT !.optimizing = g, !.locked = FALSE, !.pending = {},
                           !.airOn = air_lite \/ @, !.started = started]
       IN \/ /\ session' = idle        \* no adapter or no internet
             /\ UNCHANGED <<link, qosWork, history>>
          \/ \E c \in Channels, mark, air_lite \in BOOLEAN :
                /\ session' = begun(air_lite, {c})
                /\ link' = Connect(link, c, "game", FALSE)
                /\ qosWork' = IF mark THEN qosWork \cup {g} ELSE qosWork
                /\ Note((IF session.detected # g THEN {"late"} ELSE {})
                        \cup (IF Busy(link, c) THEN {"joined"} ELSE {})
                        \cup Handover(g)
                        \cup (IF \E d \in Channels \ {c} :
                                   "game" \in {link[d].by, link[d].owner}
                              THEN {"forgotten"} ELSE {}))
    /\ UNCHANGED <<qos, air>>

\* The thread of _begin_game_optimization; Windows may refuse the policy.
QosWorkerEnds(g) ==
    /\ g \in qosWork
    /\ qosWork' = qosWork \ {g}
    /\ qos' \in {qos, qos \cup {g}}
    /\ Note(IF session.optimizing = g THEN {} ELSE {"marked"})
    /\ UNCHANGED <<session, link, air>>

\* The user's answer to the prompt, which may outlive the game, or the button of
\* the games' page, which takes the selected game, running or not.
OptimizeByHand(g) ==
    /\ ApplyPreferred(session, g, IF g = session.detected THEN {} ELSE {"absent"})
    /\ UNCHANGED <<qos, qosWork, air>>

\* accept_game_candidate: an unknown game becomes the detected one, without a
\* new generation.
AcceptCandidate(g) ==
    /\ g # session.detected
    /\ session' = Optimize([session EXCEPT !.detected = g], g)
    /\ Note(Handover(g))
    /\ UNCHANGED <<link, qos, qosWork, air>>

-------------------------------------------------------------------------------
(***************************************************************************)
(* Detection                                                               *)
(***************************************************************************)
\* Mutant: the end of a game ends whatever is connected
TearDownAll(s, links) ==
    /\ link' = [c \in Channels |-> Disconnect(links, c)[c]]
    /\ session' = [s EXCEPT !.optimizing = None, !.started = {}]
    /\ qos' = qos \ {s.optimizing}
    /\ UNCHANGED history

\* A connected link is disconnected; one that is still connecting, later.
TearDown(s, links) ==
    LET connected == {c \in s.started : links[c].connected}
        waiting   == {c \in s.started \ connected : Busy(links, c)}
    IN  /\ link' = [c \in Channels |-> IF c \in connected
                                       THEN Disconnect(links, c)[c] ELSE links[c]]
        /\ session' = [s EXCEPT !.optimizing = None, !.started = {},
                                !.pending = @ \cup waiting]
        /\ qos' = qos \ {s.optimizing}
        /\ Note(IF \E c \in connected : links[c].op = "connect" THEN {"refused"} ELSE {})

NewGeneration == air' = [air EXCEPT !.fresh = FALSE]

\* _scan_for_running_game finds another game than before.
GameDetected(g) ==
    /\ g # session.detected
    /\ LET s == [session EXCEPT !.detected = g, !.locked = FALSE]
       IN \/ ApplyPreferred(s, g, Handover(g))                     \* auto_connect
          \/ session' = s /\ UNCHANGED link /\ Note(Handover(g))   \* a prompt
    /\ NewGeneration
    /\ UNCHANGED <<qos, qosWork>>

\* _scan_for_running_game finds no game any more.
GameGone ==
    /\ session.detected # None
    /\ LET s == [session EXCEPT !.detected = None, !.locked = FALSE, !.airOn = FALSE] IN
       IF session.optimizing = session.detected
       THEN TearDown(s, link)
       ELSE session' = s /\ UNCHANGED <<link, qos, history>>
    /\ NewGeneration
    /\ UNCHANGED <<qosWork>>

-------------------------------------------------------------------------------
(***************************************************************************)
(* AIR Lite and Match Lock                                                 *)
(***************************************************************************)
AirTick ==
    /\ session.airOn
    /\ IF session.optimizing = None
       THEN /\ session' = [session EXCEPT !.airOn = FALSE]
            /\ UNCHANGED air
       ELSE /\ air.pc = "none"
            /\ air' = [game |-> session.optimizing, pc |-> "look", fresh |-> TRUE]
            /\ UNCHANGED session
    /\ UNCHANGED <<link, qos, qosWork, history>>

\* The thread has endpoints in hand and looks whether they are of this session.
AirLooks ==
    /\ air.pc = "look"
    /\ \/ air' = NoAir                                   \* nothing new
       \/ /\ air.fresh /\ session.detected = air.game
          /\ session.optimizing = air.game
          /\ air' = [air EXCEPT !.pc = "lock"]
    /\ UNCHANGED <<session, link, qos, qosWork, history>>

\* It has not looked again before it sets the flag.
AirLocks ==
    /\ air.pc = "lock"
    /\ session' = [session EXCEPT !.locked = TRUE]
    /\ air' = NoAir
    /\ Note(IF air.fresh THEN {} ELSE {"raced"})
    /\ UNCHANGED <<link, qos, qosWork>>

-------------------------------------------------------------------------------
(***************************************************************************)
(* The links                                                               *)
(***************************************************************************)
\* What a failed connection meant to replace is shown as connected all the
\* same; of a tunnel nothing else is left.
Ended(c, ok) == [link EXCEPT ![c].op = "none", ![c].by = "none",
                   ![c].connected = ok \/ @,
                   ![c].owner = IF ok THEN link[c].by
                                ELSE IF c = "tunnel" THEN "none" ELSE @]

\* Mutant: a stop that waited for the connection is dropped
SettleForgets(s, links, c, ok) ==
    /\ session' = [s EXCEPT !.pending = @ \ {c}]
    /\ link' = links

\* A stop that waited for the connection.
Settle(s, links, c, ok) ==
    /\ session' = [s EXCEPT !.pending = @ \ {c}]
    /\ link' = IF c \in s.pending /\ ok THEN Disconnect(links, c) ELSE links

\* _on_apply_finished
DnsConnected(ok) ==
    /\ link["dns"].op = "connect"
    /\ Settle(session, Ended("dns", ok), "dns", ok)
    /\ Note(IF ~ok /\ "dns" \in session.started /\ link["dns"].owner = "user"
            THEN {"kept"} ELSE {})
    /\ UNCHANGED <<qos, qosWork, air>>

\* _on_tunnel_connect_finished; for lack of a tunnel, a smart optimisation
\* turns to DNS.
TunnelConnected(ok) ==
    /\ link["tunnel"].op = "connect"
    /\ LET links == Ended("tunnel", ok)
           failed == session.optimizing # None /\ "tunnel" \in session.started /\ ~ok
           gaveUp == [session EXCEPT !.started = @ \ {"tunnel"}]
       IN  IF ~failed
           THEN Settle(session, links, "tunnel", ok) /\ UNCHANGED history
           ELSE \/ Settle(gaveUp, links, "tunnel", ok) /\ UNCHANGED history
                \/ /\ Settle([gaveUp EXCEPT !.started = @ \cup {"dns"}],
                             Connect(links, "dns", "game", session.locked),
                             "tunnel", ok)
                   /\ Note(IF Refused(links, "dns", session.locked) THEN {"joined"} ELSE {})
    /\ UNCHANGED <<qos, qosWork, air>>

\* _on_disconnect_finished, _on_tunnel_disconnect_finished
Disconnected(c) ==
    /\ link[c].op = "disconnect"
    /\ link' = [link EXCEPT ![c] = NoLink]
    /\ UNCHANGED <<session, qos, qosWork, air, history>>

\* _trigger_fast_failover: a dead tunnel is dropped or replaced, even in a
\* locked session.
TunnelDies ==
    /\ link["tunnel"].connected /\ ~Busy(link, "tunnel")
    /\ link' \in {[link EXCEPT !["tunnel"] = NoLink],
                  [link EXCEPT !["tunnel"].op = "connect",
                               !["tunnel"].by = link["tunnel"].owner,
                               !["tunnel"].connected = FALSE,
                               !["tunnel"].owner = "none"]}
    /\ UNCHANGED <<session, qos, qosWork, air, history>>

UserConnects(c) ==
    /\ ~Refused(link, c, session.locked)
    /\ link' = Connect(link, c, "user", session.locked)
    /\ Note(IF c \in session.started THEN {"taken"} ELSE {})
    /\ UNCHANGED <<session, qos, qosWork, air>>

\* The buttons, the tray and the safety gate (rollback_active_route).
UserDisconnects(c) ==
    /\ link[c].connected /\ ~Busy(link, c)
    /\ link' = Disconnect(link, c)
    /\ UNCHANGED <<session, qos, qosWork, air, history>>

-------------------------------------------------------------------------------
(***************************************************************************)
(* The end of the program, and its next start, which recovers the DNS      *)
(* (DnsSession); a QoS policy lives as long as Windows runs.               *)
(***************************************************************************)
Afresh == /\ session' = NoSession
          /\ link' = [c \in Channels |-> NoLink]
          /\ air' = NoAir

\* force_reset_on_exit; a PowerShell at work is not waited for.
Quit == /\ Afresh
        /\ qos' = qos \ {session.optimizing}
        /\ UNCHANGED <<qosWork, history>>

Crash == /\ Afresh
         /\ Note(IF qos = {} THEN {} ELSE {"crashed"})
         /\ UNCHANGED <<qos, qosWork>>

-------------------------------------------------------------------------------
Next == \/ \E g \in Games : \/ GameDetected(g) \/ AcceptCandidate(g)
                            \/ OptimizeByHand(g) \/ QosWorkerEnds(g)
        \/ GameGone \/ PreflightCompleted
        \/ AirTick \/ AirLooks \/ AirLocks
        \/ \E ok \in BOOLEAN : DnsConnected(ok) \/ TunnelConnected(ok)
        \/ TunnelDies
        \/ \E c \in Channels : \/ Disconnected(c) \/ UserConnects(c)
                               \/ UserDisconnects(c)
        \/ Quit \/ Crash

Spec == Init /\ [][Next]_vars

-------------------------------------------------------------------------------
(***************************************************************************)
(* Properties                                                              *)
(***************************************************************************)
GameClean == history = {}

Settled == /\ session.detected = None /\ session.preflight = None
           /\ qosWork = {}
           /\ \A c \in Channels : ~Busy(link, c)

\* When the game is gone and nothing is at work, nothing that was connected or
\* marked for a game is left: "the settings of this session are collected"
\* (main_viewmodel.py:1862).
LeavesNothing == Settled => /\ \A c \in Channels : link[c].owner # "game"
                            /\ qos = {}

\* ... which holds in whatever order the scans, the workers' reports, the
\* failover and the user's clicks come, up to the first of the reasons above.
SessionLeavesNothing == history = {} => LeavesNothing

\* The lock ends with the game: without a game nothing is refused in its name
\* (main_viewmodel.py:1827, 1840, 2075), unless the thread lost its race.
LockEndsWithGame == session.detected = None /\ history = {} => ~session.locked

\* A locked session is not connected anew, by no click, no fallback from a tunnel
\* to DNS and no optimisation (main_viewmodel.py:1469, 1522, 1916, 2209), except
\* by a failover, and by a preflight that began before the lock and lifts it.
KeepsLock ==
    session.locked /\ session'.detected = session.detected
      /\ ~TunnelDies /\ ~PreflightCompleted
        => \A c \in Channels : link'[c].op = "connect" => link[c].op = "connect"
LockHolds == [][KeepsLock]_vars

\* Only the user disconnects what the user connected: the end of a game and the
\* stops that wait for a connection touch the links of the game
\* (main_viewmodel.py:1681, 1867-1874, 2424), up to the first of the reasons.
SparesUser ==
    \A c \in Channels :
       /\ link[c].op # "disconnect" /\ link'[c].op = "disconnect"
       /\ link'[c].owner = "user" /\ history' = {}
       => UserDisconnects(c)
UserSpared == [][SparesUser]_vars

\* The properties above, made inductive.  Of a link that is up somebody may be the
\* owner; the thread of AIR Lite is about a game, and up to date while it is.
LinksFit ==
    \A c \in Channels : /\ link[c].op = "disconnect" => link[c].connected
                        /\ link[c].owner # "none" => link[c].connected
LockFits ==
    /\ air.pc # "none" => air.game # None
    /\ air.pc = "lock" /\ air.fresh => session.detected # None

\* The session is the detected game's, and its notes tell which links are the game's,
\* or will be: no link that the user connects is noted, or due to be stopped.
NoteFits(l, noted, due) ==
    /\ l.owner = "game" => noted \/ l.op = "disconnect"
    /\ l.op = "connect" /\ l.by = "game" => noted \/ due
    /\ noted => (l.op = "connect" => l.by # "user") /\ (l.owner = "user" => l.op = "connect")
    /\ due => l.op = "connect" /\ l.by # "user"
NotesFit ==
    /\ session.optimizing \in {None, session.detected}
    /\ session.optimizing = None => session.started = {}
    /\ qos \subseteq {session.optimizing}
    /\ \A c \in Channels : NoteFits(link[c], c \in session.started, c \in session.pending)

GameInv == /\ TypeOK /\ LinksFit /\ LockFits /\ LockEndsWithGame
           /\ history = {} => NotesFit
===============================================================================
