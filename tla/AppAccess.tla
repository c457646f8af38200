------------------------------ MODULE AppAccess -------------------------------
(***************************************************************************)
(* App Access (app/viewmodels/main_viewmodel.py:526-1218): find a route on *)
(* which an application's servers answer - the current one, one of at most *)
(* four DNS profiles, or Cloudflare's WARP client - keep it while the      *)
(* application runs and put the network back afterwards.                   *)
(*                                                                         *)
(* Every wait of the worker thread lies between two actions, so that the   *)
(* user cancels, a helper times out or the program dies there.  A call of  *)
(* the DNS service is one step with its possible outcomes (DnsService has  *)
(* its steps, and proves that a restoration that succeeds is exact); so is *)
(* a connection made on the main page (DnsSession).  There is one adapter. *)
(* Scores, probe results and RouteDNA are free choices; the best four      *)
(* candidates are any set of profiles.                                     *)
(***************************************************************************)
CONSTANTS
    Profiles,        \* DNS profiles the program can apply
    Original,        \* the user's own DNS setting
    None

ASSUME ProfilesAssumption ==
    /\ Original \notin Profiles
    /\ None \notin Profiles \cup {Original}

VARIABLES
    dns,         \* the adapter's setting in effect
    warp,        \* who connected WARP: "off", "user" or "app"
    intent,      \* the persisted intent: the program connected WARP
    elevated,    \* the program has administrator rights
    vm,          \* the view-model's attributes
    worker,      \* the worker thread of the operation at work
    report,      \* its completion signal, until handled
    late,        \* settings a helper nobody waits for may still apply
    before,      \* history: the network when the last search started
    mishap,      \* history: something outside failed, died or came too late,
                 \*   and may still have an effect (so the next two)
    swapped,     \* history: a helper put back the user's setting, not the
                 \*   profile that was in effect before the search
    meddled      \* history: during a session, DNS was (dis)connected by hand or
                 \*   the program's WARP connection ended in the client

env  == <<dns, warp, intent, late>>
hist == <<before, mishap, swapped, meddled>>
vars == <<dns, warp, intent, elevated, vm, worker, report, late,
          before, mishap, swapped, meddled>>

-------------------------------------------------------------------------------
(***************************************************************************)
(* State                                                                   *)
(***************************************************************************)
Dns == Profiles \cup {Original}

\* Whether WARP was connected for an operation, and by whom.
WarpUse == {"none", "own", "foreign"}

Routes == {"none", "current", "dns", "warp"}

\* The completion signal of an operation; a session is that of a start.
Report == [op : {"start", "stop"}, ok : BOOLEAN, cancelled : BOOLEAN,
           route : Routes, dnsChanged : BOOLEAN,
           name : Profiles \cup {None}, warp : WarpUse,
           nothingLeft : BOOLEAN,     \* "no network change was left behind"
           previous : Profiles \cup {None}]

\* Where a worker waits.
Waits == {"baseline", "ranking", "prompt", "batch", "answered", "try", "probe",
          "putback", "warp", "dial", "verify", "intent", "dialled",
          "warpProbe", "conclude", "undoWarp", "undoDns"}

\* What the helper in select_dns has done.
Replies == {"none", "tried", "picked", "restored", "stuck"}

\* Local variables of the two workers.
Worker == [op : {"start", "stop"}, pc : Waits,
           previous : Profiles \cup {None},   \* profile connected before
           todo     : SUBSET Profiles,        \* candidates not tried yet
           chosen   : Profiles \cup {None},
           reply    : Replies,
           route    : Routes,
           tempDns  : BOOLEAN,                \* temporary_dns_changed
           tempWarp : WarpUse,                \* temporary_warp
           cancelled : BOOLEAN,               \* in finish_cancelled
           nothingLeft : BOOLEAN,             \* all routes failed
           ok       : BOOLEAN]

\* None is neither a thread nor a signal.
ASSUME NoneAssumption == None \notin Worker \cup Report

NewWorker(op, pc, previous) ==
    [op |-> op, pc |-> pc, previous |-> previous, todo |-> {}, chosen |-> None,
     reply |-> "none", route |-> "none", tempDns |-> FALSE, tempWarp |-> "none",
     cancelled |-> FALSE, nothingLeft |-> FALSE, ok |-> TRUE]

Down == [up |-> FALSE, busy |-> FALSE, connected |-> FALSE, profile |-> None,
         session |-> None, seen |-> FALSE, cancelled |-> FALSE]

\* cancelled is "_app_access_generation is not that of the operation at work".
ViewModel == [up : BOOLEAN, busy : BOOLEAN, connected : BOOLEAN,
              profile : Profiles \cup {None}, session : Report \cup {None},
              seen : BOOLEAN, cancelled : BOOLEAN]

\* The type invariant.
TypeOK ==
    /\ dns \in Dns
    /\ warp \in {"off", "user", "app"}
    /\ intent \in BOOLEAN /\ elevated \in BOOLEAN
    /\ vm \in ViewModel
    /\ worker \in Worker \cup {None}
    /\ report \in Report \cup {None}
    /\ late \subseteq Dns
    /\ before \in [dns : Dns, own : BOOLEAN]
    /\ mishap \in BOOLEAN /\ swapped \in BOOLEAN /\ meddled \in BOOLEAN

Network == [dns |-> dns, own |-> warp = "app"]

Init ==
    /\ dns = Original /\ warp \in {"off", "user"} /\ intent = FALSE
    /\ elevated \in BOOLEAN
    /\ vm = Down /\ worker = None /\ report = None
    /\ late = {} /\ before = Network
    /\ mishap = FALSE /\ swapped = FALSE /\ meddled = FALSE

At(step) == worker # None /\ worker.pc = step

Goto(step) == worker' = [worker EXCEPT !.pc = step]

\* A route was found on which the application's servers answer.
Take(route) == worker' = [worker EXCEPT !.route = route, !.pc = "conclude"]

\* The helper in select_dns is done, or given up on.
Answer(reply) == worker' = [worker EXCEPT !.reply = reply, !.pc = "answered"]

\* finish_cancelled, or an exception other than the next one.
Cleanup(cancelled) ==
    worker' = [worker EXCEPT !.pc = "undoWarp", !.cancelled = cancelled,
                             !.todo = {}, !.chosen = None, !.reply = "none",
                             !.ok = FALSE]

\* The last exception of start_app_access: no route is left to try.
GiveUp ==
    worker' = [worker EXCEPT !.pc = "undoWarp", !.tempWarp = "none",
                             !.todo = {}, !.chosen = None, !.reply = "none",
                             !.nothingLeft = TRUE, !.ok = FALSE]

\* The completion signal is emitted and the thread ends.
Complete(ok) ==
    /\ worker' = None
    /\ report' = [op |-> worker.op, ok |-> ok, cancelled |-> worker.cancelled,
                  nothingLeft |-> worker.nothingLeft,
                  route |-> worker.route,
                  dnsChanged |-> worker.tempDns \/ worker.reply = "picked",
                  name |-> IF worker.route = "dns" THEN worker.chosen ELSE None,
                  warp |-> worker.tempWarp,
                  previous |-> worker.previous]

-------------------------------------------------------------------------------
(***************************************************************************)
(* The GUI thread                                                          *)
(***************************************************************************)
\* The program starts; a DNS setting left by the last run is restored.
Start ==
    /\ ~vm.up
    /\ vm' = [Down EXCEPT !.up = TRUE]
    /\ \/ dns' = Original /\ UNCHANGED mishap
       \/ dns # Original /\ mishap' = TRUE /\ UNCHANGED dns
    /\ UNCHANGED <<warp, intent, elevated, worker, report, late, before,
                   swapped, meddled>>

\* What went wrong earlier has left no trace.
AsShown ==
    /\ dns = IF vm.connected THEN vm.profile ELSE Original
    /\ intent <=> warp = "app"
    /\ late = {}

\* start_app_access; the view calls it only while there is no session.
StartAppAccess ==
    /\ vm.up /\ ~vm.busy /\ vm.session = None
    /\ vm' = [vm EXCEPT !.busy = TRUE]
    /\ worker' = NewWorker("start", "baseline",
                            IF vm.connected THEN vm.profile ELSE None)
    /\ before' = Network
    /\ IF AsShown THEN mishap' = FALSE /\ swapped' = FALSE /\ meddled' = FALSE
                  ELSE UNCHANGED <<mishap, swapped, meddled>>
    /\ UNCHANGED <<env, elevated, report>>

\* cancel_app_access; its button is shown from the start to the completion.
CancelAppAccess ==
    /\ vm.up /\ vm.busy /\ ~vm.cancelled
    /\ \/ worker # None /\ worker.op = "start"
       \/ report # None /\ report.op = "start"
    /\ vm' = [vm EXCEPT !.cancelled = TRUE]
    /\ UNCHANGED <<env, elevated, worker, report, hist>>

StopWorker == [NewWorker("stop", "undoWarp", vm.session.previous) EXCEPT
                 !.route = vm.session.route,
                 !.tempDns = vm.session.dnsChanged,
                 !.tempWarp = vm.session.warp]

\* Mutant: the busy flag is not looked at.
StopAppAccessAnyway ==
    /\ vm.up /\ vm.session # None
    /\ vm' = [vm EXCEPT !.busy = TRUE]
    /\ worker' = StopWorker
    /\ UNCHANGED <<env, elevated, report, hist>>

\* stop_app_access: the user's button, or a watch tick that finds the
\* application gone.
StopAppAccess ==
    /\ vm.up /\ ~vm.busy /\ vm.session # None
    /\ vm' = [vm EXCEPT !.busy = TRUE]
    /\ worker' = StopWorker
    /\ UNCHANGED <<env, elevated, report, hist>>

\* _app_access_watch_tick
WatchTick ==
    /\ vm.up /\ ~vm.busy /\ vm.session # None
    /\ \/ /\ vm' = [vm EXCEPT !.seen = TRUE]
          /\ UNCHANGED <<env, elevated, worker, report, hist>>
       \/ vm.seen /\ StopAppAccess

Idle == [vm EXCEPT !.busy = FALSE, !.cancelled = FALSE]

SessionStarted ==
    [Idle EXCEPT !.session = report, !.seen = FALSE,
                 !.connected = @ \/ report.route = "dns",
                 !.profile = IF report.route = "dns" THEN report.name ELSE @]

\* Mutant: the profile of the session stays the one shown.
SessionStoppedOnly == [Idle EXCEPT !.session = None]

SessionStopped ==
    [Idle EXCEPT !.session = None, !.connected = report.previous # None,
                 !.profile = report.previous]

\* _on_app_access_completed
OnCompleted ==
    /\ vm.up /\ report # None
    /\ report' = None
    /\ vm' = CASE report.ok /\ report.op = "start" -> SessionStarted
               [] report.ok /\ report.op = "stop"  -> SessionStopped
               [] ~report.ok                       -> Idle
    /\ UNCHANGED <<env, elevated, worker, hist>>

\* apply_dns_profile and disconnect_dns with their workers, from the main page.
ConnectDns(p) ==
    /\ vm.up /\ ~vm.busy
    /\ dns' = p
    /\ vm' = [vm EXCEPT !.connected = TRUE, !.profile = p]
    /\ meddled' = (meddled \/ vm.session # None)
    /\ UNCHANGED <<warp, intent, elevated, worker, report, late, before, mishap,
                   swapped>>

DisconnectDns ==
    /\ vm.up /\ ~vm.busy /\ vm.connected
    /\ \/ dns' = Original /\ UNCHANGED mishap
       \/ mishap' = TRUE /\ UNCHANGED dns
    /\ vm' = [vm EXCEPT !.connected = FALSE, !.profile = None]
    /\ meddled' = (meddled \/ vm.session # None)
    /\ UNCHANGED <<warp, intent, elevated, worker, report, late, before, swapped>>

-------------------------------------------------------------------------------
(***************************************************************************)
(* Calls of the services by the worker                                     *)
(***************************************************************************)
\* Mutant: there is always a profile to go back to.
TargetUnchecked == worker.previous

\* The setting restore_previous() puts back.
Target == IF worker.previous = None THEN Original ELSE worker.previous

\* A call that would give the adapter setting s fails: Windows is unchanged, or
\* changed and the call timed out, or the helper that was to change it is late.
DnsFails(s) ==
    /\ dns' \in {dns, s}
    /\ late' \in {late} \cup (IF elevated THEN {} ELSE {late \cup {s}})
    /\ mishap' = TRUE

\* Mutant: the intent is not cleared.
HangUpKeepsIntent(own, ok) ==
    \/ ~own /\ ok /\ UNCHANGED <<warp, intent, mishap>>
    \/ own /\ ok /\ warp' = "off" /\ UNCHANGED <<intent, mishap>>
    \/ /\ own /\ ~ok
       /\ warp' \in {warp, "off"}
       /\ mishap' = TRUE
       /\ UNCHANGED intent

\* official_warp_service.disconnect_if_started: only what the program started.
\* The client may refuse, or restoring its preferences fails after it hung up.
HangUp(own, ok) ==
    \/ ~own /\ ok /\ UNCHANGED <<warp, intent, mishap>>
    \/ own /\ ok /\ warp' = "off" /\ intent' = FALSE /\ UNCHANGED mishap
    \/ /\ own /\ ~ok
       /\ warp' \in {warp, "off"}
       /\ mishap' = TRUE
       /\ UNCHANGED intent

-------------------------------------------------------------------------------
(***************************************************************************)
(* The worker of start_app_access                                          *)
(***************************************************************************)
\* Mutant: what was cancelled during the first probe goes on.
BaselineIgnoresCancel ==
    /\ At("baseline")
    /\ \/ Take("current")
       \/ Goto("ranking")
    /\ UNCHANGED <<env, elevated, vm, report, hist>>

\* The probe of the current route, and what it decides.
Baseline ==
    /\ At("baseline")
    /\ \/ vm.cancelled /\ Cleanup(TRUE)
       \/ ~vm.cancelled /\ Take("current")
       \/ ~vm.cancelled /\ Goto("ranking")
    /\ UNCHANGED <<env, elevated, vm, report, hist>>

\* The benchmark of the profiles; none is left when the network intercepts DNS.
Rank ==
    /\ At("ranking")
    /\ \/ vm.cancelled /\ Cleanup(TRUE)
       \/ /\ ~vm.cancelled
          /\ \E ranking \in SUBSET Profiles :
                worker' = [worker EXCEPT
                  !.todo = ranking,
                  !.pc = IF ranking = {} THEN "warp"
                         ELSE IF elevated THEN "try" ELSE "prompt"]
    /\ UNCHANGED <<env, elevated, vm, report, hist>>

\* privileged_helper.select_dns: the elevation prompt.
Prompt ==
    /\ At("prompt")
    /\ \/ Goto("batch")      \* granted
       \/ Goto("answered")   \* refused: no "restored" in the result
    /\ UNCHANGED <<env, elevated, vm, report, hist>>

\* The helper applies a candidate and probes it, or cannot apply it.
HelperTries(p) ==
    /\ At("batch") /\ p \in worker.todo
    /\ dns' \in {dns, p}
    /\ \/ worker' = [worker EXCEPT !.todo = @ \ {p}, !.reply = "tried"]
       \/ /\ dns' = p
          /\ worker' = [worker EXCEPT !.reply = "picked", !.chosen = p,
                                      !.pc = "answered"]
    /\ UNCHANGED <<warp, intent, elevated, vm, report, late, hist>>

\* All candidates tried, or 24 seconds are over: the helper restores what the
\* backup holds, whatever was in effect before the search.  An exception
\* answers without "restored".
HelperGivesUp ==
    /\ At("batch") /\ worker.reply = "tried"
    /\ \/ /\ dns' = Original
          /\ Answer("restored")
          /\ swapped' = (swapped \/ worker.previous # None)
          /\ UNCHANGED mishap
       \/ /\ dns' \in {dns, Original}
          /\ Answer("stuck")
          /\ mishap' = TRUE
          /\ UNCHANGED swapped
       \/ /\ Answer("none")
          /\ mishap' = TRUE
          /\ UNCHANGED <<dns, swapped>>
    /\ UNCHANGED <<warp, intent, elevated, vm, report, late, before, meddled>>

\* select_dns gives up after 30 seconds; the helper goes on, or is dead.
BatchTimesOut ==
    /\ At("batch")
    /\ Answer("none")
    /\ late' = late \cup worker.todo \cup {Original}
    /\ mishap' = TRUE
    /\ UNCHANGED <<dns, warp, intent, elevated, vm, report, before, swapped, meddled>>

\* What the worker makes of the result; "restored" is True when it is missing.
Answered ==
    /\ At("answered")
    /\ CASE vm.cancelled ->
              worker' = [worker EXCEPT !.tempDns = (worker.reply = "picked"),
                                       !.cancelled = TRUE, !.ok = FALSE,
                                       !.pc = "undoWarp"]
         [] ~vm.cancelled /\ worker.reply = "picked" -> Take("dns")
         [] ~vm.cancelled /\ worker.reply = "stuck" -> Cleanup(FALSE)
         [] OTHER -> Goto("warp")
    /\ UNCHANGED <<env, elevated, vm, report, hist>>

\* With administrator rights the worker applies the candidates itself.
Try ==
    /\ At("try")
    /\ \/ /\ worker.todo = {}
          /\ Goto(IF worker.tempDns THEN "putback" ELSE "warp")
          /\ UNCHANGED <<dns, late, mishap>>
       \/ /\ worker.todo # {} /\ vm.cancelled
          /\ Cleanup(TRUE)
          /\ UNCHANGED <<dns, late, mishap>>
       \/ \E p \in worker.todo :
             /\ ~vm.cancelled
             /\ \/ /\ dns' = IF vm.connected /\ vm.profile = p THEN dns ELSE p
                   /\ worker' = [worker EXCEPT
                        !.pc = "probe", !.chosen = p, !.todo = @ \ {p},
                        !.tempDns = @ \/ ~(vm.connected /\ vm.profile = p)]
                   /\ UNCHANGED <<late, mishap>>
                \/ /\ ~(vm.connected /\ vm.profile = p)
                   /\ DnsFails(p)
                   /\ worker' = [worker EXCEPT !.todo = @ \ {p}]
    /\ UNCHANGED <<warp, intent, elevated, vm, report, before, swapped, meddled>>

Probe ==
    /\ At("probe")
    /\ \/ vm.cancelled /\ Cleanup(TRUE)
       \/ /\ ~vm.cancelled
          /\ \/ Take("dns")
             \/ Goto("try")
    /\ UNCHANGED <<env, elevated, vm, report, hist>>

\* restore_previous() before WARP is tried.
PutBack ==
    /\ At("putback")
    /\ \/ /\ dns' = Target
          /\ worker' = [worker EXCEPT !.tempDns = FALSE, !.pc = "warp"]
          /\ UNCHANGED <<late, mishap>>
       \/ DnsFails(Target) /\ Cleanup(FALSE)
    /\ UNCHANGED <<warp, intent, elevated, vm, report, before, swapped, meddled>>

\* WARP is not allowed, not installed or was tried in vain lately; or it is
\* connected already and adopted; or it is to be connected.
TryWarp ==
    /\ At("warp")
    /\ \/ GiveUp
       \/ vm.cancelled /\ Cleanup(TRUE)
       \/ /\ ~vm.cancelled /\ warp # "off"
          /\ worker' = [worker EXCEPT !.pc = "warpProbe", !.tempWarp = "foreign"]
       \/ ~vm.cancelled /\ warp = "off" /\ Goto("dial")
    /\ UNCHANGED <<env, elevated, vm, report, hist>>

\* connect_best: disconnect, choose a mode, connect; a cancelled or exhausted
\* plan disconnects and restores the client's preferences, without looking at
\* the answers.
Dial ==
    /\ At("dial")
    /\ \/ /\ ~vm.cancelled
          /\ warp' = "app"
          /\ Goto("verify")
          /\ UNCHANGED mishap
       \/ /\ Goto("dialled")
          /\ \/ warp' = "off" /\ UNCHANGED mishap
             \/ mishap' = TRUE /\ UNCHANGED warp
    /\ UNCHANGED <<dns, intent, late, elevated, vm, report, before, swapped, meddled>>

\* The connection is confirmed from outside, or it is not.
Verify ==
    /\ At("verify")
    /\ Goto("intent") \/ Goto("dial")
    /\ UNCHANGED <<env, elevated, vm, report, hist>>

\* set_warp_intent: from now on the program recognises the connection as its
\* own.  A failure to write it is not noticed.
SetIntent ==
    /\ At("intent")
    /\ worker' = [worker EXCEPT !.tempWarp = "own", !.pc = "dialled"]
    /\ \/ intent' = TRUE /\ UNCHANGED mishap
       \/ mishap' = TRUE /\ UNCHANGED intent
    /\ UNCHANGED <<dns, warp, late, elevated, vm, report, before, swapped, meddled>>

\* connect_best has returned.
Dialled ==
    /\ At("dialled")
    /\ \/ vm.cancelled /\ Cleanup(TRUE)
       \/ ~vm.cancelled /\ worker.tempWarp = "own" /\ Goto("warpProbe")
       \/ ~vm.cancelled /\ worker.tempWarp = "none" /\ GiveUp
    /\ UNCHANGED <<env, elevated, vm, report, hist>>

\* Mutant: an adopted connection is hung up like an own one.
WarpProbeHangsUp ==
    /\ At("warpProbe")
    /\ \/ /\ Take("warp")
          /\ UNCHANGED <<warp, intent, mishap>>
       \/ (\E ok \in BOOLEAN : HangUp(TRUE, ok)) /\ GiveUp
    /\ UNCHANGED <<dns, late, elevated, vm, report, before, swapped, meddled>>

\* The application's servers answer through WARP, or it is hung up again.
WarpProbe ==
    /\ At("warpProbe")
    /\ \/ /\ Take("warp")
          /\ UNCHANGED <<warp, intent, mishap>>
       \/ (\E ok \in BOOLEAN : HangUp(worker.tempWarp = "own", ok)) /\ GiveUp
    /\ UNCHANGED <<dns, late, elevated, vm, report, before, swapped, meddled>>

\* Mutant: the exception ends the thread.
ConcludeUncaught ==
    /\ At("conclude")
    /\ \/ /\ Complete(TRUE)
          /\ UNCHANGED mishap
       \/ /\ worker' = None
          /\ mishap' = TRUE
          /\ UNCHANGED report
    /\ UNCHANGED <<env, elevated, vm, before, swapped, meddled>>

\* A route was found: the outcome is recorded, which may fail, and reported.
Conclude ==
    /\ At("conclude")
    /\ \/ /\ Complete(TRUE)
          /\ UNCHANGED mishap
       \/ /\ Cleanup(FALSE)
          /\ mishap' = TRUE
          /\ UNCHANGED report
    /\ UNCHANGED <<env, elevated, vm, before, swapped, meddled>>

-------------------------------------------------------------------------------
(***************************************************************************)
(* finish_cancelled, the exception handler, and the worker of              *)
(* stop_app_access: hang up WARP, then put back DNS.  Only the last looks  *)
(* at the answers.                                                         *)
(***************************************************************************)
UndoWarp ==
    /\ At("undoWarp")
    /\ \E ok \in BOOLEAN :
          /\ HangUp(worker.tempWarp = "own", ok)
          /\ worker' = [worker EXCEPT !.pc = "undoDns", !.ok = @ /\ ok]
    /\ UNCHANGED <<dns, late, elevated, vm, report, before, swapped, meddled>>

\* Mutant: the user's own setting is put back, whatever was in effect before.
UndoDnsToOriginal ==
    /\ At("undoDns")
    /\ \/ /\ dns' = IF worker.tempDns THEN Original ELSE dns
          /\ Complete(worker.ok)
          /\ UNCHANGED <<late, mishap>>
       \/ worker.tempDns /\ DnsFails(Original) /\ Complete(FALSE)
    /\ UNCHANGED <<warp, intent, elevated, vm, before, swapped, meddled>>

UndoDns ==
    /\ At("undoDns")
    /\ \/ /\ dns' = IF worker.tempDns THEN Target ELSE dns
          /\ Complete(worker.ok)
          /\ UNCHANGED <<late, mishap>>
       \/ worker.tempDns /\ DnsFails(Target) /\ Complete(FALSE)
    /\ UNCHANGED <<warp, intent, elevated, vm, before, swapped, meddled>>

-------------------------------------------------------------------------------
(***************************************************************************)
(* The environment                                                         *)
(***************************************************************************)
\* A helper that was given up on applies its setting, or ends without.
LateHelper(s) ==
    /\ s \in late
    /\ late' = late \ {s}
    /\ dns' \in {dns, s}
    /\ UNCHANGED <<warp, intent, elevated, vm, worker, report, hist>>

\* The user connects or disconnects WARP in its client, but not while the
\* program is connecting it.
UserWarp ==
    /\ worker # None => worker.pc \notin {"dial", "verify", "intent", "dialled"}
    /\ warp' = IF warp = "off" THEN "user" ELSE "off"
    /\ meddled' = (meddled \/ warp = "app")
    /\ UNCHANGED <<dns, intent, elevated, vm, worker, report, late, before, mishap,
                   swapped>>

\* The program exits - force_reset_on_exit restores DNS if it is connected - or
\* dies.  WARP stays as it is; a helper at work goes on.
Exit ==
    /\ vm.up
    /\ vm' = Down /\ worker' = None /\ report' = None
    /\ dns' \in {dns} \cup (IF vm.connected THEN {Original} ELSE {})
    /\ mishap' = (mishap \/ dns' # Original \/ vm.busy)
    /\ late' = CASE At("batch") -> late \cup worker.todo \cup {Original}
                 [] At("undoDns") /\ ~elevated /\ worker.tempDns ->
                        late \cup {Target}
                 [] OTHER -> late
    /\ UNCHANGED <<warp, intent, elevated, before, swapped, meddled>>

WorkerStep ==
    \/ Baseline \/ Rank \/ Prompt \/ HelperGivesUp \/ BatchTimesOut \/ Answered
    \/ \E p \in Profiles : HelperTries(p)
    \/ Try \/ Probe \/ PutBack
    \/ TryWarp \/ Dial \/ Verify \/ SetIntent \/ Dialled \/ WarpProbe
    \/ Conclude \/ UndoWarp \/ UndoDns

Next ==
    \/ Start \/ StartAppAccess \/ CancelAppAccess \/ StopAppAccess \/ WatchTick
    \/ OnCompleted \/ DisconnectDns \/ \E p \in Profiles : ConnectDns(p)
    \/ WorkerStep
    \/ UserWarp \/ Exit \/ \E s \in Dns : LateHelper(s)

Spec == Init /\ [][Next]_vars

\* Every step of the worker ends by a time-out at the latest, the plan of
\* connect_best is finite and no more than 18 seconds long (hence the strong
\* fairness of its end), and Qt delivers the signal.
FairSpec == /\ Spec
            /\ WF_vars(WorkerStep) /\ WF_vars(OnCompleted)
            /\ SF_vars(Dial /\ At("dial") /\ worker'.pc = "dialled")
-------------------------------------------------------------------------------
(***************************************************************************)
(* Properties                                                              *)
(***************************************************************************)
\* No test of cancelled() comes any more.
PastLastTest(w) == w.pc \in {"warpProbe", "conclude"}

\* The busy flag is raised exactly while one worker is at work or its
\* completion is unhandled, and there is never a second worker: the timer that
\* watches the application and the button both stop a session.
BusyTracksWorker ==
    /\ vm.up => (vm.busy <=> worker # None \/ report # None)
    /\ worker = None \/ report = None

\* A session on the profile that was connected before its search, though the
\* search changed DNS.
NamedPrevious(session) ==
    session.dnsChanged /\ session.route = "dns" /\ session.name = session.previous

\* A search that found no route, was cancelled at any wait or raised an error
\* leaves DNS and WARP as it found them - unless something outside failed, or
\* the helper restored the user's setting instead of the connected profile.
FailedLeavesNothing ==
    (/\ report # None /\ report.op = "start" /\ ~report.ok
     /\ ~mishap /\ ~swapped /\ ~meddled)
        => Network = before

\* What the main page shows is in effect: the connected profile, or the user's
\* own setting - but for a session that TestedIsNamed is about.
ShownIsReal ==
    (/\ vm.up /\ ~vm.busy
     /\ ~mishap /\ ~swapped /\ ~meddled
     /\ vm.session # None => ~NamedPrevious(vm.session))
        => dns = IF vm.connected THEN vm.profile ELSE Original

\* The persisted intent, by which the emergency reset tells the program's WARP
\* connection from the user's, is there exactly while there is such a
\* connection, after an exit or a crash too.
IntentIsExact ==
    (~vm.busy /\ ~mishap /\ ~meddled) => (intent <=> warp = "app")

\* No step of the program disconnects WARP that the user connected: an
\* operation hangs up what it dialled and never what it adopted.  (A session
\* whose connection the user replaced by his own is stopped by hanging that up;
\* so is one whose first stop failed half-way.)
UserWarpUntouched ==
    [][~meddled /\ ~mishap /\ warp = "user" /\ warp' # "user"
          => UNCHANGED <<vm, worker, report>>]_vars

\* A search that is cancelled before it found a route, or connected WARP, does
\* not go on to one.  (Later it is not asked any more: a user who cancels while
\* WARP is probed may get a session nevertheless.)
CancelStopsSearch ==
    [][vm.cancelled /\ worker # None /\ worker.op = "start" /\ ~PastLastTest(worker)
          => worker' = None \/ ~PastLastTest(worker')]_vars

\* Every operation ends, whatever times out, is refused or fails.
Responsive == vm.busy ~> ~vm.busy

\* What the code says of itself and does not keep.

\* "DNS <name> is being verified": the profile that a search reports as the
\* route is the one with which the application's servers answered.
TestedIsNamed ==
    (/\ report # None /\ report.op = "start" /\ report.ok
     /\ report.route = "dns" /\ ~mishap)
        => dns = report.name

\* "App Access stopped and the previous network setting was restored": DNS is
\* again what it was when the session began.
StopRestoresAsTold ==
    (/\ report # None /\ report.op = "stop" /\ report.ok
     /\ ~mishap /\ ~swapped)
        => dns = before.dns
===============================================================================
