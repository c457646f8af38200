-------------------------------- MODULE Tunnel --------------------------------
(***************************************************************************)
(* The tunnel of the developer edition: the view-model's journey from a    *)
(* list of configurations to a running core, its watchdog, its fast        *)
(* failover to a standby, and the owner of the core process                *)
(* (tunnel_service.TunnelProcess).                                         *)
(*                                                                         *)
(* The GUI thread handles clicks, timers and queued signals; one worker    *)
(* thread at a time (the busy flag) talks to the core.  A worker that dies *)
(* of an exception never reports: its program counter stays "lost".        *)
(***************************************************************************)
EXTENDS Naturals, Sequences, SequencesExt, FiniteSets

CONSTANTS Configs,      \* configurations of routes
          None,         \* no configuration
          MaxPings      \* health checks at work or unread (one per 2 s, 2 s each)

ASSUME ConfigsAssumption == None \notin Configs /\ IsFiniteSet(Configs)
ASSUME MaxPingsAssumption == MaxPings \in Nat

VARIABLES vm,       \* the view-model's flags, lists and timers
          stored,   \* the user's list of configurations
          worker,   \* the thread that the busy flag stands for
          core,     \* the process that TunnelProcess holds, and its files
          stray,    \* a core runs that nobody holds
          pings,    \* health checks at work
          inbox,    \* queued signals, oldest first
          app,      \* "up", "leaving" (force_stop_tunnel_on_exit has run),
                    \* "closed" (the window is, the program is not), "down"
          abandoned \* history: a route was given up without stopping its core

vars == <<vm, stored, worker, core, stray, pings, inbox, app, abandoned>>

FailureLimit == 3   \* consecutive health checks without an answer
StandbyLimit == 3   \* prepared standbys, and routes that one failover tries

-------------------------------------------------------------------------------
(***************************************************************************)
(* State                                                                   *)
(***************************************************************************)
Fresh == [busy        |-> FALSE,   \* _tunnel_busy
          connected   |-> FALSE,   \* tunnel_connected
          active      |-> None,    \* _active_tunnel_config
          recovering  |-> FALSE,   \* _recovering_tunnel
          failures    |-> 0,       \* _live_failures
          standby     |-> <<>>,    \* _standby_tunnel_configs
          ranked      |-> <<>>,    \* _last_ranked_configs
          watching    |-> FALSE]   \* watchdog, usage and live-ping timers

\* The routes still to start, and the whole list of a failover.
Idle == [op |-> "none", pc |-> "none", queue |-> <<>>, ordered |-> <<>>]

NoCore == [held |-> None, alive |-> FALSE, files |-> FALSE]

Take(list, n) == SubSeq(list, 1, Min({n, Len(list)}))

\* The elements of a list that are not in a set, in their order.
Without(list, set) ==
    LET rest[n \in 0..Len(list)] ==
          IF n = 0 THEN <<>>
          ELSE IF list[n] \in set THEN rest[n - 1]
          ELSE Append(rest[n - 1], list[n])
    IN  rest[Len(list)]

\* Lists of different configurations.
Routes == {s \in SeqOf(Configs, Cardinality(Configs)) : IsInjective(s)}

ConnectReport(ok, c) == [kind |-> "connect", ok |-> ok, config |-> c]
Report(kind) == [kind |-> kind, ok |-> TRUE, config |-> None]
Health(ok) == [kind |-> "health", ok |-> ok, config |-> None]

TypeOK ==
    /\ vm \in [busy : BOOLEAN, connected : BOOLEAN, active : Configs \cup {None},
               recovering : BOOLEAN, failures : 0..FailureLimit,
               standby : Seq(Configs), ranked : Seq(Configs),
               watching : BOOLEAN]
    /\ stored \in SUBSET Configs
    /\ worker \in [op : {"none", "connect", "failover", "disconnect", "trial",
                         "subscription"},
                   pc : {"none", "probe", "stop", "check", "spawn", "settle",
                         "outside", "lost"},
                   queue : Seq(Configs), ordered : Seq(Configs)]
    /\ core \in [held : Configs \cup {None}, alive : BOOLEAN, files : BOOLEAN]
    /\ stray \in BOOLEAN
    /\ pings \in 0..MaxPings
    /\ inbox \in Seq([kind : {"connect", "disconnect", "trial", "subscription",
                              "health"},
                      ok : BOOLEAN, config : Configs \cup {None}])
    /\ app \in {"up", "leaving", "closed", "down"}
    /\ abandoned \in BOOLEAN

Init == /\ vm = Fresh
        /\ stored = Configs
        /\ worker = Idle
        /\ core = NoCore
        /\ stray = FALSE
        /\ pings = 0
        /\ inbox = <<>>
        /\ app = "up"
        /\ abandoned = FALSE

-------------------------------------------------------------------------------
(***************************************************************************)
(* The user                                                                *)
(***************************************************************************)
Begin(op, pc) ==
    /\ vm' = [vm EXCEPT !.busy = TRUE]
    /\ worker' = [Idle EXCEPT !.op = op, !.pc = pc]
    /\ UNCHANGED <<stored, core, stray, pings, inbox, app, abandoned>>

\* A click, or the optimisation of a game, which may connect over a connection.
ConnectTunnel ==
    /\ app = "up" /\ ~vm.busy /\ stored # {}
    /\ Begin("connect", "probe")

DisconnectTunnel ==
    /\ app = "up" /\ ~vm.busy /\ vm.connected
    /\ Begin("disconnect", "stop")

\* A trial has a core of its own for 30 seconds.
RunConfigTrial ==
    /\ app = "up" /\ ~vm.busy /\ ~vm.connected
    /\ Begin("trial", "outside")

\* import_tunnel_link sets the busy flag without testing it; the button is
\* disabled while it is set.
ImportSubscription ==
    /\ app = "up" /\ ~vm.busy
    /\ Begin("subscription", "outside")

ImportLink(c) ==
    /\ app = "up" /\ ~vm.busy /\ c \notin stored
    /\ stored' = stored \cup {c}
    /\ UNCHANGED <<vm, worker, core, stray, pings, inbox, app, abandoned>>

\* The standby and the ranking keep what the list forgets.
RemoveTunnelConfig(c) ==
    /\ app = "up" /\ c \in stored
    /\ stored' = stored \ {c}
    /\ UNCHANGED <<vm, worker, core, stray, pings, inbox, app, abandoned>>

-------------------------------------------------------------------------------
(***************************************************************************)
(* The worker.  TunnelProcess.start is StopPrevious, CheckConfig, Spawn    *)
(* and Settle.                                                             *)
(***************************************************************************)
At(ops, pc) == app # "down" /\ worker.op \in ops /\ worker.pc = pc
Starts == {"connect", "failover"}
Goto(pc) == worker' = [worker EXCEPT !.pc = pc]

Finish(message) == /\ worker' = Idle
                   /\ inbox' = Append(inbox, message)

\* The worker of connect_tunnel measures up to eight configurations, each
\* through a core of its own, and ranks those that answered.
Probe ==
    /\ At({"connect"}, "probe")
    /\ \/ /\ Finish(ConnectReport(FALSE, None))
          /\ UNCHANGED vm
       \/ \E ranking \in Routes \ {<<>>}, count \in 0..StandbyLimit :
             /\ ToSet(ranking) \subseteq stored
             /\ vm' = [vm EXCEPT !.ranked = ranking,
                                 !.standby = Take(Tail(ranking), count)]
             /\ worker' = [worker EXCEPT !.pc = "stop", !.queue = <<Head(ranking)>>]
             /\ UNCHANGED inbox
    /\ UNCHANGED <<stored, core, stray, pings, app, abandoned>>

\* start() begins with stop(): the previous core ends, and its files go.
StopPrevious ==
    /\ At(Starts, "stop") /\ worker.queue # <<>>
    /\ core' = NoCore
    /\ abandoned' = FALSE
    /\ Goto("check")
    /\ UNCHANGED <<vm, stored, stray, pings, inbox, app>>

\* A route does not start: the next one of a failover, or the end.
NextRoute ==
    IF worker.op = "failover" /\ Len(worker.queue) > 1
    THEN /\ worker' = [worker EXCEPT !.pc = "stop", !.queue = Tail(@)]
         /\ UNCHANGED inbox
    ELSE Finish(ConnectReport(FALSE, None))

\* The core's own check of the configuration file: passed; refused (or no
\* executable, or no configuration could be built); or an exception, of the
\* ten-second time-out or of the disk, that no handler catches.
CheckConfig ==
    /\ At(Starts, "check")
    /\ \/ /\ core' = [core EXCEPT !.files = TRUE]
          /\ Goto("spawn")
          /\ UNCHANGED inbox
       \/ /\ NextRoute
          /\ UNCHANGED core
       \/ /\ core' = [core EXCEPT !.files = TRUE]
          /\ Goto("lost")
          /\ UNCHANGED inbox
    /\ UNCHANGED <<vm, stored, stray, pings, app, abandoned>>

\* Popen, or its failure, after which stop() cleans up.  A core whose file an
\* exit has deleted meanwhile does not live.
Spawn ==
    /\ At(Starts, "spawn")
    /\ \/ /\ core' = [core EXCEPT !.held = Head(worker.queue), !.alive = core.files]
          /\ Goto("settle")
          /\ UNCHANGED inbox
       \/ /\ core' = NoCore
          /\ NextRoute
    /\ UNCHANGED <<vm, stored, stray, pings, app, abandoned>>

\* The core has lived through four seconds, or has ended before (also by the
\* hand of the exit, which takes the process away from the thread).
Settle ==
    /\ At(Starts, "settle")
    /\ IF core.alive
       THEN /\ Finish(ConnectReport(TRUE, Head(worker.queue)))
            /\ vm' = IF worker.op = "connect" THEN vm
                     ELSE [vm EXCEPT !.standby = Take(Without(worker.ordered,
                                                      {Head(worker.queue)}), StandbyLimit)]
            /\ UNCHANGED core
       ELSE /\ core' = NoCore
            /\ NextRoute
            /\ UNCHANGED vm
    /\ UNCHANGED <<stored, stray, pings, app, abandoned>>

\* Mutant: the core is only forgotten.
StopCoreForgets ==
    /\ At({"disconnect"}, "stop")
    /\ abandoned' = FALSE
    /\ Finish(Report("disconnect"))
    /\ UNCHANGED <<vm, stored, core, stray, pings, app>>

\* The worker of disconnect_tunnel.
StopCore ==
    /\ At({"disconnect"}, "stop")
    /\ core' = NoCore
    /\ abandoned' = FALSE
    /\ Finish(Report("disconnect"))
    /\ UNCHANGED <<vm, stored, stray, pings, app>>

\* A trial or a download of a subscription comes to its end.
OutsideEnds ==
    /\ At({"trial", "subscription"}, "outside")
    /\ Finish(Report(worker.op))
    /\ UNCHANGED <<vm, stored, core, stray, pings, app, abandoned>>

-------------------------------------------------------------------------------
(***************************************************************************)
(* Timers and signals, which outlive the window                            *)
(***************************************************************************)
Running == app \in {"up", "closed"}

\* Without the standby's turn, every route of the last ranking but the failed.
FailoverOrder ==
    LET first == IF vm.standby # <<>> /\ Head(vm.standby) # vm.active
                 THEN <<Head(vm.standby)>> ELSE <<>>
    IN  first \o Without(vm.ranked, {vm.active} \cup ToSet(first))

\* _trigger_fast_failover: refused; recovery switched off in the settings; or
\* a worker that starts up to three of the routes.
TriggerFailover(failures) ==
    LET counted == [vm EXCEPT !.failures = failures]
        dropped == [counted EXCEPT !.connected = FALSE, !.active = None,
                                   !.watching = FALSE]
        order   == FailoverOrder
    IN  IF vm.recovering \/ vm.busy
        THEN /\ vm' = counted
             /\ UNCHANGED <<worker, abandoned>>
        ELSE \/ /\ vm' = dropped
                /\ abandoned' = TRUE
                /\ UNCHANGED worker
             \/ /\ vm' = [dropped EXCEPT !.recovering = TRUE, !.busy = TRUE]
                /\ worker' = [op |-> "failover", pc |-> "stop", ordered |-> order,
                              queue |-> Take(order, StandbyLimit)]
                /\ UNCHANGED abandoned

\* Mutant: a failover without another route ends without a report.
NoStandbySilent ==
    /\ At({"failover"}, "stop") /\ worker.queue = <<>>
    /\ worker' = Idle
    /\ abandoned' = TRUE
    /\ UNCHANGED <<vm, stored, core, stray, pings, inbox, app>>

\* The worker of a failover that has no route to try: start(), which would
\* have stopped the core, is not called.
NoStandby ==
    /\ At({"failover"}, "stop") /\ worker.queue = <<>>
    /\ Finish(ConnectReport(FALSE, None))
    /\ abandoned' = TRUE
    /\ UNCHANGED <<vm, stored, core, stray, pings, app>>

\* _check_tunnel_process, every three seconds.
WatchdogTick ==
    /\ Running /\ vm.watching
    /\ vm.connected /\ ~core.alive
    /\ TriggerFailover(vm.failures)
    /\ UNCHANGED <<stored, core, stray, pings, inbox, app>>

\* _tick_live_ping starts a thread of its own every two seconds.
PingTick ==
    /\ Running /\ vm.watching
    /\ pings + Cardinality({i \in DOMAIN inbox : inbox[i].kind = "health"}) < MaxPings
    /\ pings' = pings + 1
    /\ UNCHANGED <<vm, stored, worker, core, stray, inbox, app, abandoned>>

\* Through the local proxy of the core, if there is one.
PingAnswers ==
    /\ app # "down" /\ pings > 0
    /\ pings' = pings - 1
    /\ \E ok \in BOOLEAN : /\ ok => core.alive \/ stray
                           /\ inbox' = Append(inbox, Health(ok))
    /\ UNCHANGED <<vm, stored, worker, core, stray, app, abandoned>>

Message == Head(inbox)
Received(kind) == Running /\ inbox # <<>> /\ Message.kind = kind

\* _on_live_health
OnLiveHealth ==
    /\ Received("health")
    /\ inbox' = Tail(inbox)
    /\ LET failures == IF Message.ok THEN 0 ELSE Min({vm.failures + 1, FailureLimit})
       IN  IF ~vm.connected \/ vm.recovering
           THEN UNCHANGED <<vm, worker, abandoned>>
           ELSE IF failures < FailureLimit
           THEN /\ vm' = [vm EXCEPT !.failures = failures]
                /\ UNCHANGED <<worker, abandoned>>
           ELSE TriggerFailover(failures)
    /\ UNCHANGED <<stored, core, stray, pings, app>>

\* Mutant: the report itself is kept as the active route.
OnConnectFinishedKeepsReport ==
    /\ Received("connect")
    /\ inbox' = Tail(inbox)
    /\ vm' = [vm EXCEPT !.busy = FALSE, !.recovering = FALSE,
                        !.connected = Message.ok, !.active = Message]
    /\ UNCHANGED <<stored, worker, core, stray, pings, app, abandoned>>

\* Mutant: the watchdog is not started.
OnConnectFinishedUnwatched ==
    /\ Received("connect")
    /\ inbox' = Tail(inbox)
    /\ vm' = IF Message.ok
             THEN [vm EXCEPT !.busy = FALSE, !.recovering = FALSE,
                             !.connected = TRUE, !.active = Message.config,
                             !.failures = 0]
             ELSE [vm EXCEPT !.busy = FALSE, !.recovering = FALSE]
    /\ UNCHANGED <<stored, worker, core, stray, pings, app, abandoned>>

\* Mutant: a failover leaves the name of the route that failed.
OnConnectFinishedKeepsName ==
    /\ Received("connect")
    /\ inbox' = Tail(inbox)
    /\ vm' = IF Message.ok
             THEN [vm EXCEPT !.busy = FALSE, !.recovering = FALSE,
                             !.connected = TRUE, !.failures = 0, !.watching = TRUE,
                             !.active = IF @ = None THEN Message.config ELSE @]
             ELSE [vm EXCEPT !.busy = FALSE, !.recovering = FALSE]
    /\ UNCHANGED <<stored, worker, core, stray, pings, app, abandoned>>

\* _on_tunnel_connect_finished, of a connection and of a failover.  What a
\* failed connection replaced is still shown as connected.
OnConnectFinished ==
    /\ Received("connect")
    /\ inbox' = Tail(inbox)
    /\ vm' = IF Message.ok
             THEN [vm EXCEPT !.busy = FALSE, !.recovering = FALSE,
                             !.connected = TRUE, !.active = Message.config,
                             !.failures = 0, !.watching = TRUE]
             ELSE [vm EXCEPT !.busy = FALSE, !.recovering = FALSE]
    /\ UNCHANGED <<stored, worker, core, stray, pings, app, abandoned>>

OnDisconnectFinished ==
    /\ Received("disconnect")
    /\ inbox' = Tail(inbox)
    /\ vm' = [vm EXCEPT !.busy = FALSE, !.connected = FALSE, !.active = None,
                        !.watching = FALSE]
    /\ UNCHANGED <<stored, worker, core, stray, pings, app, abandoned>>

OnTrialFinished ==
    /\ Received("trial")
    /\ inbox' = Tail(inbox)
    /\ vm' = [vm EXCEPT !.busy = FALSE]
    /\ UNCHANGED <<stored, worker, core, stray, pings, app, abandoned>>

\* The subscription is empty, failed, or brings some configurations.
OnSubscriptionFinished ==
    /\ Received("subscription")
    /\ inbox' = Tail(inbox)
    /\ vm' = [vm EXCEPT !.busy = FALSE]
    /\ \E new \in SUBSET Configs : stored' = stored \cup new
    /\ UNCHANGED <<worker, core, stray, pings, app, abandoned>>

-------------------------------------------------------------------------------
(***************************************************************************)
(* The process of the core, and the program                                *)
(***************************************************************************)
CoreDies ==
    /\ core.alive
    /\ core' = [core EXCEPT !.alive = FALSE]
    /\ UNCHANGED <<vm, stored, worker, stray, pings, inbox, app, abandoned>>

\* Mutant: an exit leaves the core alone.
ForceStopNothing == UNCHANGED <<vm, stored, worker, core, stray, pings, inbox, abandoned>>

\* force_stop_tunnel_on_exit, in the GUI thread whatever the worker does.
ForceStop ==
    /\ core' = NoCore
    /\ UNCHANGED <<vm, stored, worker, stray, pings, inbox, abandoned>>

\* _quit_app, from the tray.
Quit == /\ app = "up"
        /\ app' = "leaving"
        /\ ForceStop

\* closeEvent without the tray: the window and the tray icon go, the program
\* does not, since it does not quit with its last window.
CloseWindow == /\ app = "up"
               /\ app' = "closed"
               /\ ForceStop

\* The end of the program, whose daemon threads end with it; cores do not.
ProgramEnds ==
    /\ app' = "down"
    /\ stray' = (stray \/ core.alive)
    /\ core' = NoCore
    /\ vm' = Fresh
    /\ worker' = Idle
    /\ pings' = 0
    /\ inbox' = <<>>
    /\ abandoned' = FALSE
    /\ UNCHANGED stored

Leave == app = "leaving" /\ ProgramEnds
Crash == app \in {"up", "closed"} /\ ProgramEnds

Restart == /\ app = "down"
           /\ app' = "up"
           /\ UNCHANGED <<vm, stored, worker, core, stray, pings, inbox, abandoned>>

\* The user, or the shutdown of Windows, ends it.
StrayEnds == /\ stray
             /\ stray' = FALSE
             /\ UNCHANGED <<vm, stored, worker, core, pings, inbox, app, abandoned>>

-------------------------------------------------------------------------------
WorkerStep == \/ Probe \/ StopPrevious \/ NoStandby \/ CheckConfig \/ Spawn
              \/ Settle \/ StopCore \/ OutsideEnds

Handler == \/ OnLiveHealth \/ OnConnectFinished \/ OnDisconnectFinished
           \/ OnTrialFinished \/ OnSubscriptionFinished

Next == \/ ConnectTunnel \/ DisconnectTunnel \/ RunConfigTrial
        \/ ImportSubscription
        \/ \E c \in Configs : ImportLink(c) \/ RemoveTunnelConfig(c)
        \/ WorkerStep \/ Handler
        \/ WatchdogTick \/ PingTick \/ PingAnswers
        \/ CoreDies \/ Quit \/ CloseWindow \/ Leave \/ Crash \/ Restart
        \/ StrayEnds

Spec == Init /\ [][Next]_vars

\* Every wait of a worker has a time-out and Qt delivers queued signals.  The
\* watchdog's timer comes again whenever an import of the user was in its way.
Fairness == /\ WF_vars(WorkerStep)
            /\ WF_vars(Handler)
            /\ WF_vars(PingAnswers)
            /\ WF_vars(Leave)
            /\ SF_vars(WatchdogTick)

FairSpec == Spec /\ Fairness

-------------------------------------------------------------------------------
(***************************************************************************)
(* Properties                                                              *)
(***************************************************************************)
Lost == worker.pc = "lost"

\* The busy flag is set exactly while a worker works, is lost, or has a report
\* on its way: no two workers ever start or stop the core at the same time
\* (main_viewmodel.py:2212, 2429, 2511, 2605).
BusyTracksWorker ==
    Running =>
      LET reports == {i \in DOMAIN inbox : inbox[i].kind # "health"}
      IN  /\ vm.busy <=> (worker # Idle \/ reports # {})
          /\ worker # Idle => reports = {}
          /\ Cardinality(reports) <= 1

\* The route shown as active is the one whose core was started last; when its
\* core is gone the watchdog is there to notice (main_viewmodel.py:2354-2372).
\* While a worker changes the route, it is the worker's report that counts.
ShownIsStarted ==
    Running /\ vm.connected /\ ~vm.busy
       => /\ vm.active # None
          /\ core.held \in {vm.active, None}
          /\ vm.watching

\* What the view-model believes about its worker and its core is so.
StatusIsTrue == BusyTracksWorker /\ ShownIsStarted

\* When no tunnel is shown and nothing is at work, no core of the program
\* runs - unless its route was given up, with auto_failover off or without a
\* standby, which leaves the core running (main_viewmodel.py:2513-2523, 2545).
NothingRunsUnseen ==
    Running /\ ~vm.connected /\ ~vm.busy /\ ~abandoned => ~core.alive

\* An exit from the tray leaves no core behind, unless one was being started:
\* its worker may start it after the exit has stopped the core
\* (main_viewmodel.py:2669-2678).
StartInFlight == \/ worker.op \in Starts
                 \/ \E i \in DOMAIN inbox : inbox[i].kind = "connect"
QuitLeavesNoCore ==
    [][Leave /\ ~StartInFlight => stray' = stray]_vars

\* Everything that sets the busy flag clears it, or has lost its worker.
Responsive == vm.busy ~> (~vm.busy \/ Lost \/ ~Running)

\* A core that dies is noticed: it is replaced, or no longer shown.
DeathNoticed ==
    (Running /\ vm.connected /\ ~core.alive)
       ~> (~vm.connected \/ core.alive \/ Lost \/ ~Running)
===============================================================================
