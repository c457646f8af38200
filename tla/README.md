# LAGSHIFT: a verification project

LAGSHIFT is a Windows program that changes network settings for the time of a
game or an application session and promises to put them back: DNS servers,
QoS policies, Cloudflare's WARP client, a tunnel. Its interface runs without
administrator rights and asks one-shot elevated helper processes for single
operations. The TLA+ modules in this directory model that core: who changes
what, in which order, what is remembered of the user's configuration, and what
is left when a step fails, times out, or the program dies.

    tlc -config MCDnsService.cfg MCDnsService.tla       (a run; see "Runs")
    tlapm DnsServiceProofs.tla                          (proofs)

## Inventory

Paths are relative to `src/app/`; VM is `viewmodels/main_viewmodel.py`, MW `views/main_window.py`.

| Component | State | Operations | Talks to | What is hard | What makes it correct |
|---|---|---|---|---|---|
| DNS service `services/dns_service.py` | Windows' DNS setting per adapter, one encrypted backup file | set, restore, pending? | PowerShell, ipconfig, journal | death between two steps, a time-out after the effect, one file for all adapters | the user's setting is always in effect or in the backup; a restoration that says yes is exact |
| DNS session (VM 1443-1771) | busy, connected, active adapter, kill switch, watchdog timer | connect, best DNS, disconnect, guard tick, start-up recovery, exit | worker threads, queued signals, DNS service or helper | threads the busy flag does not cover, late reports, modal warnings, calls that outlive their caller | keeps the service's one-call-at-a-time contract, never stays busy, tells the truth |
| Privileged helper `services/privileged_helper.py` | request, response and progress files named by a nonce | request, select_dns, run_helper | UAC, DNS service, QoS | time-out while the helper goes on, withdrawn request, partial emergency reset | an operation reported as not done leaves nothing changed; a response belongs to its request |
| Connection state `services/connection_state_service.py` | generation, phase, cancellable, owned | begin, advance, cancel, reset | every worker | late workers, cancel against completion | a finished or cancelled journey is not revived |
| App Access (VM 526-1218, `services/app_access_service.py`, `app_route_service.py`) | session, generation, worker | start, cancel, stop, watch | DNS, helper, WARP, connection state | cancel at each stage, fallback, restoration of the previous profile | cancelled or failed means the network is as before |
| Official WARP (`services/official_warp_service.py`, VM 2709-2837) | mode, protocol and connection of the WARP client, persisted intent | connect_best, disconnect_if_started | warp-cli, journal | ownership after a crash, two operations at once | never disconnects the user's own WARP, always its own |
| Recovery journal `services/recovery_service.py` | at most fifty rows, WARP intent | record, receipt, intent | every component, two processes | lost updates, dropped rows | what is pending is reported |
| Game session (VM 1816-2106, `game_*_service.py`) | detected game, generation, Match Lock, pending stop | scan, preflight, optimise, tear down | DNS session, tunnel, QoS | a game that ends or changes during preflight | everything started for a game is torn down after it |
| Tunnel and failover (VM 2207-2567, `tunnel_service.py`) | tunnel, candidates, watchdog timers | connect, disconnect, failover | health probes | late health results, failover loops | at most one tunnel; failover ends |
| Updates (`update_service.py`, VM 1222-1302) | .part file, cancel event | check, download, cancel, install | HTTPS | cancel and restart of a download | only a verified installer is launched |
| RouteDNA `route_dna_service.py`, VM 418-492 | history, daily probe budget, context of the network | reserve, learn, score, monitor | measurements | unlocked read-modify-write, late probes | the daily budget is not exceeded; memory only breaks ties; a warning has its cause |
| Measurements (`connectivity_service.py`, `game_server_probe_service.py`, `operator_detection_service.py`, `linkirani_service.py` ...) | samples, rankings, the route profile of a game, the packet monitor | rank, capture, compare before and after | sockets, Windows' packet monitor | order of answers, connection that changes under a probe | reliable before fast; a comparison compares what it says |
| Tariff check (`traffic_tariff_service.py`, `views/traffic_insight.py`) | signed list, its cache, history of links | check, clear, show | HTTPS, WARP's state | damaged or outdated list, tunnel | only the signed list makes a link domestic |
| Crash reports (`crash_service.py`) | session marker, queue of reports | start, report, watchdog, end | files | death while the marker is written, several reporters | an unclean end is told, a clean one is not |
| Settings and storage (`settings_service.py`, `games_service.py`, `tunnel_storage_service.py`, `app_paths.py`) | settings, games, profiles, backups | load, save, migrate | files | death while saving, two writers | nothing is switched on without consent, nothing of the user's is lost |
| Views, entry point (`views/`, `main.py`) | what is shown | clicks, dialogs, start and exit | view-model | modal dialogs | shows what is so |
| Cloudflare worker, installer, build tools | | | | | not modelled; see the end |

How they interact: a handler on the GUI thread checks and sets flags of the
view-model and starts a worker thread; the worker calls a service (directly, or
in an elevated helper process that it waits for) and emits a Qt signal; the GUI
thread handles queued signals in order. Nothing else synchronises: the busy
flag is a plain attribute that only GUI-thread handlers test, and files and
Windows' settings are shared with helper processes.

## Modules

    DnsPromise        what the DNS service promises (abstract)
      ^ refined by
    DnsService        the service, one action per shared read or write
      ^ EXTENDS            ^ INSTANCE
    DnsServiceProofs  DnsSession       the view-model's workers, helpers and exits
    MCDnsService      MCDnsSession     instances for TLC
                      DnsSessionProofs (with an INSTANCE of DnsServiceProofs)

    AppAccess         the search for a route, and its end (calls of the DNS
      ^ EXTENDS       service and of WARP as single steps with their outcomes)
    AppAccessProofs   MCAppAccess

    Tunnel            the tunnel, its watchdog, failover and core process
      ^ EXTENDS
    TunnelProofs      MCTunnel

    Desktop           the other parts, one at a time: GameSession, OfficialWarp,
      ^ EXTENDS       Updates, Journal, ProbeBudget, RouteMemory, Tariff,
      |               RouteLearning, SafetyGate, Blackbox, Consent, Files,
      |               Journey, Monitors, Ranking (each an INSTANCE); Sorting
      |               is EXTENDed by RouteMemory, Ranking and Tariff
    MCDesktop         DesktopProofs <- UpdatesProofs, GameProofs <- RecordsProofs

**DnsPromise** has two variables, the setting in effect and the setting that is
remembered for each adapter; the program may change the former, and put back
the latter, and only the user changes what is remembered.

**DnsService** models `_set_dns_direct` (BeginSet, SaveBackup,
ReadCurrentState, WriteBackup, SetServers) and `_restore_original_dns_direct`
(BeginRestore, CheckPending, ResetServers, DropBackup), `call[c]` being the
local variables of the call that `c` executes. Every step has the failures of
its code: PowerShell fails; the setting is changed and PowerShell or ipconfig
still times out; the disk refuses. `Die` stops a call anywhere. A backup that
cannot be decrypted is `Damaged`. The setting of an adapter is one value
("automatic", or some servers). `original` is a history variable: what the user
configured. `path.exists()` and the read after it are one step, because only a
concurrent call could come between, and then the answer is a failure that
changes nothing, as with `Damaged`. The contract (one call at a time; no change
of one adapter while the backup is another's; the user leaves a saved adapter
alone) is written in `Next`, where the code leaves it to its callers.

**DnsSession** has those callers and no contract. `vm` is the view-model's
record of flags, `worker[c]` a worker thread with its local variables, `inbox`
the queued signals. GUI handlers are Start, ApplyProfile, Disconnect,
SetKillSwitch, GuardTick, Handle (the three completion handlers), CloseWarning,
BeginExit; Crash ends the process at any moment. `elevated` tells whether a
worker executes the call itself or waits for a helper; in the second case
TimeOut ends the waiting and the call goes on by itself, also after the process
is gone. The modal warning of the kill switch is two actions, because its event
loop handles signals before the handler goes on. `overlapped` is a history
variable: a call was begun, or answered for, while another one ran, and at least
one of them was not a connection or disconnection (which the busy flag keeps
apart).

**AppAccess** models `start_app_access`, `cancel_app_access`,
`stop_app_access`, the watch timer and their workers, with
`privileged_helper.select_dns`, `connect_best` and `disconnect_if_started` as
far as they change the network. `vm` is the view-model, `worker` the thread of
the operation at work - its program counter names the wait it is in, the other
fields are its local variables - and `report` its completion signal. The network
is `dns`, `warp` (who connected it) and the persisted `intent`. There is one
action per wait, from Baseline (the probe of the current route) over Rank,
Prompt, HelperTries, HelperGivesUp, Answered (the helper's way) or Try, Probe,
PutBack (with administrator rights), then TryWarp, Dial, Verify, SetIntent,
Dialled, WarpProbe to Conclude; finish_cancelled, the exception handler and the
worker of a stop share UndoWarp and UndoDns. The user cancels, a helper times out
(BatchTimesOut: it may still apply its candidates, `late`), or the process ends
(Exit) between any two. An outcome that raises an exception leads where the
code's handlers lead; the last exception, "no suitable route", is GiveUp.
Candidates, rankings and probe results are free choices.
Four history variables say what the user had (`before`) and what excuses the
code: `mishap`, a call outside failed, a helper came too late or the process
ended; `swapped`, the helper restored the user's own setting although a profile
was connected before; `meddled`, the user changed the network in a session. A
search that starts while everything is as shown forgets them, so that no
property is excused by an old failure.
The DNS session on the main page appears as ConnectDns and DisconnectDns. There
is one adapter, and the user does not touch WARP while the program dials it. The
journey of a search, the emergency reset and WARP on its own page are in
Journey, Journal and OfficialWarp.

**Tunnel** models VM 2207-2567 and `tunnel_service.TunnelProcess` of the
developer edition. `vm` holds the flags of the view-model, `worker` the one
thread that the busy flag allows (op, program counter, the routes it has still
to start), `core` the process that TunnelProcess holds, `stray` a core that
outlived the program. Handlers are ConnectTunnel, DisconnectTunnel,
RunConfigTrial, ImportSubscription, ImportLink, RemoveTunnelConfig,
WatchdogTick, PingTick and the five completions. The worker's steps are Probe,
StopPrevious, NoStandby, CheckConfig, Spawn, Settle, StopCore and OutsideEnds;
the core may die at any time. Quit runs force_stop_tunnel_on_exit in the
GUI thread whatever the worker does, and Leave ends the process later.
A worker whose exception nobody catches (the check of a configuration has its
time-out outside any try, `tunnel_service.py:383`) never reports: its program
counter is "lost", and the tunnel is busy until the program ends. The public
edition replaces the engine by stubs that refuse.

**Desktop** puts together fifteen parts that share no state with each other in
a way that the code tests: what one does to another (a game's end that
disconnects DNS, WARP that switches on under a check, a second instance that
writes the same file) is among the actions of the part that suffers it. A
product of all of them would have nothing to say that its factors do not: a
safety property of one factor holds of the product if and only if it holds of
the factor. Desktop is therefore their disjoint sum: `part` says which of them a
behaviour is of, `v1` to `v11` are the variables of that one, and the others
are "unused". The formulas of Desktop quote those of the parts.

| Part | Code | State | Actions |
|---|---|---|---|
| GameSession | VM 1816-2106 | the detected and the optimised game, what was connected for it (`link` per channel: DNS, tunnel), QoS policies, AIR Lite, Match Lock | scan, preflight and its late end, optimise, preferred profiles, connection and disconnection with their reports, tear-down, stops that wait for a connection, lock, exit, crash |
| OfficialWarp | `official_warp_service.py`, VM 2709-2837, the window's button | the client, the persisted intent, the session, the window, one worker per kind of operation | inspect, the plan of modes, verification, intent, undo, hang up, reset, refresh, cancel; the user in the client; crash and restart |
| Updates | `update_service.py`, VM 1222-1302, `update_dialog.py` | .part and installer per release, threads, cancel event, dialog | offer, start, pause, resume, each block, broken server, rename, check of the digest, launch, close |
| Journal | `recovery_service.py` with the writers in `dns_service.py`, `game_qos_service.py`, `privileged_helper.py` | the rows, the temporary file, what is in effect | each change with its record in three steps (load, write, replace), emergency reset, crash |
| ProbeBudget | `route_dna_service.py:470-522` | the file, its temporary, the threads | read, decide, write, replace; midnight; damage |
| RouteMemory | `route_dna_service.py:69-84, 283-414` | the history | add, prune, prior and bonus on a ranking |
| Tariff | `traffic_tariff_service.py`, `linkirani_service.py`, `operator_detection_service.py`, `traffic_insight.py` | the cached list, the tunnel, the check at work, the history | load or fetch the list, look at WARP, one redirect at a time, third party, result, clear |
| RouteLearning | VM 1363-1433, 2055-2085, `game_server_probe_service.py`, `game_route_profile_service.py` | the profile, workers, Windows' packet monitor, the true path | look, capture, decide, write, measure, clear, import |
| SafetyGate | VM 1304-1361, MW 2704-2752, 3362-3372 | the link, the baseline, probes | click, timer, compare, report, roll back |
| Blackbox | `crash_service.py`, `main.py` | marker, queue, watchdog | start, reports with pruning, hang, clean end, crash |
| Consent | `settings_service.py`, `terms_dialog.py`, `traffic_insight.py` | the settings file, instances | load, terms, toggle, save by rename, upgrade, damage |
| Files | `games_service.py`, `tunnel_storage_service.py`, `app_paths.py` | the files, the former folder, what is in memory | change, save in place or by rename, restart, migrate |
| Journey | `connection_state_service.py` with the handlers of DNS, App Access and WARP | the journey, workers, queued results | begin, advance, cancel, complete, reset |
| Monitors | VM 418-515, 2108-2124, 2458-2492 | the network, the DNS server, the monitor's probe and count | tick, look, ask, handle |
| Ranking | `connectivity_service.py:248-444`, VM 1520-1595 | the measurements in the order in which they end | answer, raise, rank, choose |

**Sorting** has what the code takes from Python to put a list in order: `sorted`
(with the set of what comes before each element in place of a key) and a list
comprehension with a condition. Both are functions of indices, not recursive:
place n belongs to the element that has n - 1 others before it.

Most parts keep a history variable with the reasons for which their code cannot
keep its promise - something that it does not look at (an update of the journal by
two processes, a user who acts in the WARP client in the middle of a test), or
cannot know. The reasons are listed, with what each means, at the head of the
module. The run looks at every behaviour up to the first of them
(`Unreserved`, in the constraint of MCDesktop), and the promise must hold there.
They are part of what the model says: `Reasons` of GameSession, for example, is
the list of the ways in which the end of a game leaves something behind.
Crashes, restarts, failing commands, late results and cancellations are in the
runs; only those from which the code does not recover are reasons.

## Runs

| Run | Instance | Shows |
|---|---|---|
| dns_service | 2 callers, 2 adapters, 3 settings | TypeOK, OriginalRecoverable, RestoreIsExact, ExactRestoration (implements DnsPromise), CallsReturn |
| dns_session | 2 executors, 1 adapter, 2 settings, MaxWork 2, symmetric executors and settings | TypeOK, FlagsAreTrue, SerialRecoverable, HonoursContract, RestoredAsTold |
| dns_session_live | the same with one setting and no symmetry | Responsive |
| dns_startup_race | as dns_session | violation: OriginalRecoverable |
| dns_adapter_switch | as dns_session, 2 adapters | violation: SerialRecoverable |
| app_access | 2 profiles, symmetric | TypeOK, BusyTracksWorker, FailedLeavesNothing, ShownIsReal, IntentIsExact, UserWarpUntouched, CancelStopsSearch |
| app_access_live | 1 profile, FairSpec | Responsive |
| app_access_named | as app_access | violation: TestedIsNamed |
| app_access_stop | as app_access | violation: StopRestoresAsTold |
| tunnel | 2 configurations, 1 health check at work | TypeOK, StatusIsTrue, NothingRunsUnseen, QuitLeavesNoCore, Responsive, DeathNoticed |
| desktop | see below | TypeOK, and a property of each part |
| update_resume | 1 release of two blocks, 1 thread | violation: KeptCanResume |

What desktop checks of each part: SessionLeavesNothing (a game that is gone
leaves neither connection nor policy nor lock), UserSpared (the end of a game
and an operation on WARP end nothing of the user's), WarpIsAccounted (the
program knows the connection it made, and no other), LaunchedIsRight (what is
installed is the signed release, to the last block), ReceiptIsRight (what is to
be undone is what the journal says), BudgetHolds (the allowance of a day),
RankingIsSound (the choice of servers, and the memory that only breaks ties),
VerdictIsHonest (tariff), LearnedIsTrue (profile, packet size and capture),
RollbackIsJustified, BlackboxTells, ConsentIsFresh, ChoicesKept, and ToldIsTrue
(the journey, the monitor's warning, the update dialog).

The five violations disagree with a sentence of the program. (1)
`dns_service.py:1` promises "crash recovery and exact restoration"; the
start-up recovery does not take the busy flag and, interleaved with a new
connection, deletes the backup the connection relies on. (2) `dns_service.py:235`
"restores the exact original mode and servers": after a failed restoration the
next connection on another adapter overwrites the only backup. (3) VM 831, "DNS
... is being verified": when the profile that was connected before is a
candidate, the worker with administrator rights does not apply it again and
tests whatever an earlier candidate left. (4) VM 1146, "the previous setting
restored": after DNS was connected by hand in a session, stopping the session
does not restore what was in effect before it. (5) `update_dialog.py:224`, "the
part that was received was kept safe and is continued next time": a download
that is paused when its last block has arrived, but not the end of the stream,
keeps a part of the full size. Each further attempt asks for the bytes after
it, is refused with 416, and keeps the part again.

Some more divergences can be read from the code and need no run. The kill
switch's warning (`views/main_window.py:2441`) says that DNS was returned to the
safe state whatever the restoration answered (VM 1760). VM 1012, "no network
change was left behind", is also shown after the helper restored the user's own
setting in place of the profile that was connected. `route_dna_service.py:490`
calls a reservation atomic that reads and replaces a file without a lock; in
ProbeBudget two of them that overlap (the reason "overlap") lose one.

The passing invariants of AppAccess are as strong as these allow.
FailedLeavesNothing and ShownIsReal say nothing after a mishap, a swap or a
user's change, ShownIsReal nothing about a session of (4), and CancelStopsSearch
ends where the code stops asking: from the probe through WARP on, a cancellation
is only recorded.

Bounds. Two callers are enough for one to take over from a dead one and for
any pair of calls to overlap; a third adds no new pair. Two adapters are "this
one" and "the one of the backup"; three settings are the user's, the one
before and the one after, and two suffice on one adapter, where only equality
with the user's matters. `MaxWork` bounds workers, unhandled signals and open
warnings together: two lets a guard's finding and a report, or a warning and a
report, wait in either order. With one setting the control flow is unchanged
(no guard compares settings), which is why the liveness run uses it. Deadlock
is checked in every run but desktop and update_resume, whose parts (a race of
DNS servers, an update) really end.
AppAccess needs two profiles: one that was connected before and one that is
tried; a third is tried like the second. Its state space is finite as it is. The
liveness run uses one profile, because the control flow depends on the
candidates only through "none left", "the connected one" and "another one", and
with one profile connected and disconnected all three occur.
Tunnel needs the route that is active and one to fall back on; its limits of
three failures and three standbys are the code's. One health check at a time may
be late (`MaxPings`): the handler looks at one result at a time, and what a
second one could add is a count of failures, which the next check reaches too.
In MCDesktop there are two of everything that competes - games, writers,
threads of a download, probes, networks, instances - and one endpoint and one
learning worker beside the AIR worker, since these two already meet in the
profile and at the packet monitor. A release has two blocks, so that a part can
be empty, begun, complete and too long. The journal keeps two rows where the
code keeps fifty, so that rows are dropped; the day's allowance of four units is
exceeded by two probes that ask for three; the history of routes keeps three
rows and looks at two. Packet sizes are small numbers with paths below, inside
and above the range that is searched, and the monitor warns after two failures, not
three. `Surplus` bounds the reports beyond the
one that is kept, `MaxInbox`, `MaxQueue` the results that wait, `Hops` the
redirects, `Remembered` the history of links; a check begins with that history
empty (`HistoryIsNew`). Ranking has three servers, one of them global, two
domains, two rounds and two finalists: enough for a server to lose one answer of
four (above the threshold of 70 %) or two (below), and for the second region to
need its place. `Keyed` is TRUE: the key of the list's publisher is empty in
this commit (`app_info.py`), and with an empty key nothing is ever trusted.
Only one part is at work in a behaviour, so that two sets of interchangeable
model values, `Actors` and `Things`, serve all of them, and their permutations
are symmetries of the whole; liveness is not checked there.

Fairness. Steps of calls and of workers are weakly fair because every
subprocess, socket and wait in them has a time-out; the delivery of queued
signals is, because Qt's event loop runs also under a modal warning. The user's
clicks, the network, crashes, restarts and the closing of the warning are not
fair. In AppAccess the end of `connect_best` is strongly fair: it walks a finite
plan of modes and protocols within a budget of 18 seconds, and the model's loop
between Dial and Verify does not count them. In Tunnel the worker, the handlers,
the answer to a health check and the end of an exit that has begun are weakly
fair for the same reasons. The watchdog's timer is strongly fair: it comes every
few seconds, and a tick that finds the tunnel busy with an import of the user
does nothing, so that it is enabled again and again, not always. Deaths of the
core, clicks and crashes are not fair. Responsive excepts a worker that was lost
to an exception. Desktop states safety only.

## Proofs

TLC looks at small instances; the theorems below hold for every value of the
constants that the named assumptions of the modules allow. These say that a
special value ("no file", "nobody") is not an ordinary one, that a bound is a
number, and, where a set is counted, that it is finite. Six say something of
the program: LearningAssumption, that the default packet size lies in the range
that is searched; FilesAssumption, that the games shipped are among the games;
WaysAssumption, that WARP has at least one way to connect, none of them the
user's own preferences; ReleasesAssumption, that a release is not empty;
KeepAssumption, that the journal keeps at least a row; RankAssumption, that at
least one domain is asked at least once and that there are two finalists or more
(`connectivity_service.py:300, 427`).
TLC evaluates each of them in a run.

An invariant of a run is seldom inductive. The strengthening of each part of
Desktop stands at the end of the part's module, and those of DnsService,
AppAccess, Tunnel and DnsSession at the head of their proofs. TLC has checked
each of them before it was proved. The proofs have one lemma per action and one
step per conjunct that it can disturb; the records of threads and
view-models are reasoned about in lemmas of their own, one for each form of
change, so that the lemmas on actions never expand them.

`DnsServiceProofs`, from ConstantsAssumption:

* `Invariance`: `IInv` is inductive. OriginalRecoverable is not inductive by
  itself: WriteBackup writes what an earlier step read, so the invariant must
  say that what was read is still the user's setting (CallReady), that a saved
  setting is the user's (SavedIsOriginal), that an adapter without a backup is
  as the user left it (UnsavedIsOriginal), and that no second call can come
  between (OneCall).
* `TypeCorrect`, `Recoverable`: the invariants of the run. `ExactRestore`: the
  action property RestoreIsExact.
* `ServiceKeepsPromise`: DnsService implements DnsPromise: initial states map
  to initial states and every step to a step or a stutter.

`DnsSessionProofs`, from MaxWorkAssumption and ServiceAssumption (that of
DnsService):

* `TypeCorrect` and `FlagsHold` (FlagsAreTrue), for any number of adapters. The
  busy flag stands for one worker of the user or one unhandled report, never two
  (OneOperation), and everything that can still end in a warning is counted
  (WorkBounded).
* `ContractKept` (HonoursContract): until two calls overlap, every step of the
  session is a step of `DnsService!Next` or leaves the service alone. With it
  the invariant of DnsServiceProofs becomes one of the session, and
  `Recoverable` (SerialRecoverable) and `RestoredTold` (RestoredAsTold) follow.
  These three are proved for a machine with one adapter: with a second one the
  program does break the contract, which is what dns_adapter_switch shows.

`TunnelProofs`, from ConfigsAssumption and MaxPingsAssumption:

* `Invariance`, `TypeCorrect`, `StatusHolds` (StatusIsTrue), `NothingUnseen`
  (NothingRunsUnseen), `QuitStops` (QuitLeavesNoCore). What a worker has started
  is known only from its program counter, its queue and its report, so the
  invariant ties all three to the core (CoreFollowsWorker, ShownIsHeld,
  UnseenIsPassing, LeavingStops); of the queue of signals it says which reports
  are in it, not where. That a list of routes without one of them is still a
  list of routes is proved from its least counterexample.

`AppAccessProofs`, from ProfilesAssumption and NoneAssumption:

* `Inductive`: BusyTracksWorker is not enough to reason about who connected
  WARP: OperationMatchesSession says that a search runs only without a session,
  has failed when it undoes its work, and that a stop undoes what the session
  did; DialledOnce that nothing is taken for the program's connection before
  `connect_best` has returned; OwnIsOwn that what is taken for it is;
  IntentTracksWarp relates the persisted intent to the connection, also while it
  is being made.
* `TypeCorrect`, `OneWorker` (BusyTracksWorker), `IntentKept` (IntentIsExact),
  and the action properties `UserWarpKept` (UserWarpUntouched) and
  `CancelledStops` (CancelStopsSearch).
* `FailedIsUndone` (FailedLeavesNothing) and `ShownHolds` (ShownIsReal). They
  need a second invariant, NetInv, which follows the network through the waits
  of an operation: for each program counter what `dns` and `warp` are by then,
  in terms of the local variables that the undoing will look at (SearchFits,
  StopFits), what a report and a session promise of them (ReportFits,
  SessionFits), and what the main page shows (PageFits). That a route which is
  tried or reported is one (Chosen) is part of the induction.

The other four are about Desktop. Lemmas (`PartSteps`, `UpdateSteps`,
`GameSteps`, `WarpSteps`) say that a step of Desktop is a step of the part that
the behaviour is of, or leaves it alone; from there each part is proved alone.

| Theorem | Property | What the invariant adds |
|---|---|---|
| GameProofs `LeftClean` | SessionLeavesNothing | the notes of a session tell which links are the game's, or will be, and no link of the user's is noted (NotesFit); AIR Lite's thread is about the detected game while its generation is current (LockFits) |
| GameProofs `SessionSpares` | the part of UserSpared about games | the same |
| GameProofs `Accounts` | WarpIsAccounted | one operation at a time (OneAtWork); what each wait of a test leaves of the user's preferences and the intent (TestFits, HangUpFits); a report in the queue already counts for the session (SessionDue) |
| GameProofs `UsersAreSpared` | UserSpared | the two before |
| UpdatesProofs `LaunchRight` | LaunchedIsRight | one download at a time for a release, which knows how much of its file is there and whether it is right (OneDownloads, Matches); what waits in the queue as finished is the release (FetchedIsRight) |
| UpdatesProofs `VerdictHonest` | VerdictIsHonest | the worker's copy of the list and each hop that it counted hold only what the publisher lists; what it knows of the tunnel (CheckIsHonest) |
| UpdatesProofs `TheWindowIsRight` | ToldIsTrue | for the journey: one worker, of the journey's scope, and its result is the last of the queue (OneJourney, InboxInOrder, Cancellable); for the monitor and the updates the invariants of `WarnedRight` and `LaunchRight` |
| DesktopProofs `AllowanceKept` | BudgetHolds | at most one thread has read a count, which is what was granted, and the draft that it renames is its own (OneReserves) |
| DesktopProofs `GateJustified` | RollbackIsJustified | what a probe knows of the comparison is what it was while the connection is the same (ProbeFine) |
| DesktopProofs `ConsentKept` | ConsentIsFresh | one instance runs, and its draft says what the user said last (OneInstance) |
| DesktopProofs `ChoicesSurvive` | ChoicesKept | the next start would load what was chosen, and what is being written is that (SavedAsChosen, GamesAsChosen) |
| DesktopProofs `BlackboxRight` | BlackboxTells | the marker is that of the running instance, or of the one whose end is still to be told (MarkerTells); of the writers that still have to prune, one sees all of the surplus |
| DesktopProofs `WarnedRight` | a part of ToldIsTrue | a probe is of the connected server, and no failure is counted that was not one (CountsWhatFailed) |
| DesktopProofs `LearnedRight` | LearnedIsTrue | a worker goes on from what the profile knows (KnowsWhatWasFound); the binary search keeps the largest packet between what was sent and what was lost (Measures); a capture is its starter's |
| DesktopProofs `ReceiptRight` | ReceiptIsRight | for each change, the row that decides it: the one that a thread has still to load, else the one that is being written, else the last in the file (Told); what a writer holds is the file and one row more (WriterFits); a reset that went well so far has undone what it says (ResetFits) |
| RecordsProofs `RankingSound` | RankingIsSound | a server answers once and its score is that of its measurement (RankInv); for the memory only its types (MemoryInv) |
| RecordsProofs `AllTyped` | TypeOK | the types of all fifteen parts: most are conjuncts of the invariants above; the busy flag of Journey is that of one worker or one result (JourneyFits), and every result of a tariff check has a hop (TariffFits) |

RankingSound needs to know what sorting does to a list of any length. This is
no induction: with a strict total order on the indices, two different indices have
different numbers of others before them (`PlacesDiffer`), these numbers are
fewer than the elements, and so, by counting, every place is taken
(`PlacesExist`); `Sorts` says that the result is a permutation in order. Each use
of `sorted` has then to show that its key orders the indices (`LowerOrders`,
for tuples of three and four). That a server which is better in every respect has no
lower score (`ScoreBounds`) is proved through the rounding, half to even. For
the memory, `BonusKnown` says that only a route that worked before on this
network, or one of its group, has a bonus, and `Personalized` that the coverage
measured now decides before it.

They use NoGameAssumption, WaysAssumption, IntentAssumption, BudgetAssumption,
KeepAssumption, MemoryAssumption, RankAssumption, BoundsAssumption,
SettingsAssumption, FilesAssumption, ReleasesAssumption, ReportsAssumption,
FailuresAssumption and LearningAssumption, each where its part does. The
theorems hold of all behaviours, also past the reasons at which the run stops;
where a property excepts a reason, its theorem does.

Every invariant and action property of the passing runs is proved, and the
refinement. Only model-checked is liveness (CallsReturn, Responsive,
DeathNoticed): the provers know nothing of ENABLED, on which fairness rests.
The five runs that find a violation are counterexamples and need no proof;
HonoursContract, SerialRecoverable and RestoredAsTold are proved for one
adapter, as said above.

## Plan

1. *done* DnsPromise, DnsService, DnsSession, AppAccess, Tunnel, Desktop and its
   parts, with their runs.
2. *done* Proofs of their invariants, action properties and of the refinement.
3. The files of PrivilegedHelper (nonce, digest, age): a response is only ever
   taken for its own request.

## Not modelled

Sockets, statistics and the parsing of what comes from outside (addresses,
redirects, packets, subscriptions, core configurations) are inputs, chosen
freely; what is made of them is in the modules. Catalogues, ratings, usage and
traffic counters, the session report of a game, autostart, integrity checks, the
network laboratory and the radar are single reads and writes without a protocol,
or presentation of a measurement. Views are modelled where they decide which
handler runs with which argument. The request and response files of the helper
are not modelled: a request is answered, refused, or times out. The installer,
the build tools and the Cloudflare worker are other programs.

In the DNS service the DoH rules, the resolver cache and the journal rows are
left out: none changes what a call does to the DNS setting or the backup, and
their failures are failures of the steps that contain them; the journal rows are
in Journal, the migration of the former backup in Files. DnsSession has one
instance of the program and one way of running it (elevated or not) per
behaviour. GameSession and Journey take the operations of DNS, the tunnel and
WARP as one step that begins and one that ends; what happens in between is in
their own modules. Fingerprints of networks are taken to tell networks apart,
signatures and digests to tell right bytes from wrong ones.
