------------------------------ MODULE DnsSession ------------------------------
(***************************************************************************)
(* Who calls the DNS service, and when: the part of                        *)
(* app/viewmodels/main_viewmodel.py that connects and disconnects DNS,     *)
(* recovers after a crash, guards a connection (the "kill switch") and     *)
(* restores on exit.  The GUI thread runs the handlers one at a time; each *)
(* operation runs in a worker thread that ends by posting a signal to the  *)
(* GUI thread.  Without administrator rights a worker does not execute the *)
(* call but asks an elevated helper process for it and waits 35 seconds at *)
(* most (privileged_helper.request): the call may outlive the waiting, and *)
(* the program itself.                                                     *)
(*                                                                         *)
(* Service is DnsService, every step of whose calls is a step here.        *)
(***************************************************************************)
EXTENDS Naturals, Sequences, FiniteSets

CONSTANTS Callers, Adapters, Settings, NoFile, Damaged, None,
          MaxWork     \* bound: workers at work, unhandled signals and warnings

ASSUME MaxWorkAssumption == MaxWork \in Nat \ {0}

VARIABLES dns, backup, call, result, original,    \* of DnsService
          elevated,   \* the program runs with administrator rights
          vm,         \* the view-model's attributes
          worker,     \* the worker threads
          inbox,      \* queued signals of workers, oldest first
          overlapped  \* history: two calls have run at the same time though
                      \* not both are operations the busy flag is to separate

Service == INSTANCE DnsService

ASSUME ServiceAssumption == Service!ConstantsAssumption

serviceVars == <<dns, backup, call, result, original>>
vars == <<dns, backup, call, result, original,
          elevated, vm, worker, inbox, overlapped>>

-------------------------------------------------------------------------------
(***************************************************************************)
(* State                                                                   *)
(***************************************************************************)
\* The attributes of a view-model that is not running, or was just created.
Stopped == [phase      |-> "down",   \* or "running", or "exiting"
            busy       |-> FALSE,    \* _busy
            connected  |-> FALSE,    \* is_connected
            active     |-> None,     \* active_adapter_name
            killSwitch |-> FALSE,    \* kill_switch_enabled, not persisted
            watchdog   |-> FALSE,    \* _watchdog_timer is running
            warnings   |-> 0]        \* open warnings of the kill switch

\* A worker is testing the network, about to call the service, waiting for the
\* call, or has an answer without a call.  "trip" is a guard that found the
\* network down; "exit" is the GUI thread in force_reset_on_exit.
Roles == {"none", "apply", "disconnect", "guard", "trip", "recover", "exit"}

Worker == [role    : Roles,
           at      : {"testing", "asking", "calling", "answered"},
           adapter : Adapters \cup {None},
           setting : Settings \cup {None},
           ok      : BOOLEAN]

NoWorker == [role |-> "none", at |-> "answered", adapter |-> None,
             setting |-> None, ok |-> FALSE]

Message == [kind    : {"apply", "disconnect", "trip"},
            ok      : BOOLEAN,
            adapter : Adapters \cup {None}]

\* The type invariant.
TypeOK ==
    /\ Service!TypeOK
    /\ elevated \in BOOLEAN
    /\ vm \in [phase : {"down", "running", "exiting"}, busy : BOOLEAN,
               connected : BOOLEAN, active : Adapters \cup {None},
               killSwitch : BOOLEAN, watchdog : BOOLEAN, warnings : 0..MaxWork]
    /\ worker \in [Callers -> Worker]
    /\ inbox \in Seq(Message)
    /\ overlapped \in BOOLEAN

Init ==
    /\ Service!Init
    /\ elevated \in BOOLEAN
    /\ vm = Stopped
    /\ worker = [c \in Callers |-> NoWorker]
    /\ inbox = <<>>
    /\ overlapped = FALSE

Working == {c \in Callers : worker[c] # NoWorker}

\* Neither a worker's thread nor the executor of a call nobody waits for.
Free(c) == c \notin Working /\ ~Service!Running(c)

Running == vm.phase = "running"

Spawn(c, w) ==
    /\ Free(c)
    /\ Cardinality(Working) + Len(inbox) + vm.warnings < MaxWork
    /\ worker' = [worker EXCEPT ![c] = w]

-------------------------------------------------------------------------------
(***************************************************************************)
(* The GUI thread                                                          *)
(***************************************************************************)
\* MainWindow.__init__ -> refresh_adapters: a thread of its own restores what
\* the last run left changed.  It does not take the busy flag.
Start ==
    /\ vm.phase = "down"
    /\ vm' = [Stopped EXCEPT !.phase = "running"]
    /\ IF backup = NoFile
       THEN UNCHANGED worker
       ELSE \E c \in Callers :
                Spawn(c, [NoWorker EXCEPT !.role = "recover", !.at = "asking"])
    /\ UNCHANGED <<serviceVars, elevated, inbox, overlapped>>

\* Mutant: a repeated click is queued instead of ignored.
ApplyProfileTwice(c, a, s) ==
    /\ Running
    /\ vm.connected => a = vm.active
    /\ vm' = [vm EXCEPT !.busy = TRUE]
    /\ Spawn(c, [NoWorker EXCEPT !.role = "apply", !.at = "testing",
                                 !.adapter = a, !.setting = s])
    /\ UNCHANGED <<serviceVars, elevated, inbox, overlapped>>

\* apply_dns_profile and apply_best_dns.  While connected the views pass the
\* connected adapter; otherwise the one selected in the list.
ApplyProfile(c, a, s) ==
    /\ Running
    /\ ~vm.busy
    /\ vm.connected => a = vm.active
    /\ vm' = [vm EXCEPT !.busy = TRUE]
    /\ Spawn(c, [NoWorker EXCEPT !.role = "apply", !.at = "testing",
                                 !.adapter = a, !.setting = s])
    /\ UNCHANGED <<serviceVars, elevated, inbox, overlapped>>

\* disconnect_dns
Disconnect(c) ==
    /\ Running
    /\ ~vm.busy /\ vm.connected /\ vm.active # None
    /\ vm' = [vm EXCEPT !.busy = TRUE]
    /\ Spawn(c, [NoWorker EXCEPT !.role = "disconnect", !.at = "asking",
                                 !.adapter = vm.active])
    /\ UNCHANGED <<serviceVars, elevated, inbox, overlapped>>

\* set_kill_switch_enabled
SetKillSwitch(enabled) ==
    /\ Running /\ vm.warnings = 0
    /\ vm.killSwitch # enabled
    /\ vm' = [vm EXCEPT !.killSwitch = enabled,
                        !.watchdog = enabled /\ vm.connected]
    /\ UNCHANGED <<serviceVars, elevated, worker, inbox, overlapped>>

\* _check_connectivity, every 5 seconds: neither busy nor a check still at work
\* keeps it from starting another.
GuardTick(c) ==
    /\ Running
    /\ vm.watchdog /\ vm.killSwitch /\ vm.active # None
    /\ Spawn(c, [NoWorker EXCEPT !.role = "guard", !.at = "testing"])
    /\ UNCHANGED <<serviceVars, elevated, vm, inbox, overlapped>>

\* _on_apply_finished
OnApplyFinished(m) ==
    /\ m.kind = "apply"
    /\ vm' = IF m.ok
             THEN [vm EXCEPT !.busy = FALSE, !.connected = TRUE,
                             !.active = m.adapter,
                             !.watchdog = @ \/ vm.killSwitch]
             ELSE [vm EXCEPT !.busy = FALSE]

\* _on_disconnect_finished: disconnected, whatever the restoration answered.
OnDisconnectFinished(m) ==
    /\ m.kind = "disconnect"
    /\ vm' = [vm EXCEPT !.busy = FALSE, !.watchdog = FALSE,
                        !.connected = FALSE, !.active = None]

\* _on_kill_switch_checked(False) emits a signal that the view answers with a
\* modal warning, whose event loop goes on handling timers and signals.
OnTrip(m) ==
    /\ m.kind = "trip"
    /\ vm' = IF vm.active = None THEN vm ELSE [vm EXCEPT !.warnings = @ + 1]

\* Mutant: the end of a connection is taken for the end of the operation.
CloseWarningUnbusies ==
    /\ Running /\ vm.warnings > 0
    /\ vm' = [vm EXCEPT !.warnings = @ - 1, !.killSwitch = FALSE, !.busy = FALSE,
                        !.watchdog = FALSE, !.connected = FALSE]
    /\ UNCHANGED <<serviceVars, elevated, worker, inbox, overlapped>>

\* The warning is closed: the view unchecks the box, which turns the kill switch
\* off, and the handler goes on.  active_adapter_name is kept.
CloseWarning ==
    /\ Running /\ vm.warnings > 0
    /\ vm' = [vm EXCEPT !.warnings = @ - 1, !.killSwitch = FALSE,
                        !.watchdog = FALSE, !.connected = FALSE]
    /\ UNCHANGED <<serviceVars, elevated, worker, inbox, overlapped>>

Handle ==
    /\ Running
    /\ inbox # <<>>
    /\ inbox' = Tail(inbox)
    /\ \/ OnApplyFinished(Head(inbox))
       \/ OnDisconnectFinished(Head(inbox))
       \/ OnTrip(Head(inbox))
    /\ UNCHANGED <<serviceVars, elevated, worker, overlapped>>

\* The process is gone, and with it its threads: a call it executed itself
\* stops where it is, one that a helper executes goes on.
EndProcess ==
    /\ vm' = Stopped
    /\ worker' = [c \in Callers |-> NoWorker]
    /\ inbox' = <<>>
    /\ call' = IF elevated THEN [c \in Callers |-> Service!Idle] ELSE call
    /\ UNCHANGED <<dns, backup, result, original, elevated, overlapped>>

\* force_reset_on_exit, on the GUI thread: restore if connected, then quit.
BeginExit ==
    /\ Running
    /\ IF vm.connected /\ vm.active # None
       THEN /\ vm' = [vm EXCEPT !.phase = "exiting"]
            /\ \E c \in Callers :
                  Spawn(c, [NoWorker EXCEPT !.role = "exit", !.at = "asking",
                                            !.adapter = vm.active])
            /\ UNCHANGED <<serviceVars, elevated, inbox, overlapped>>
       ELSE EndProcess

Crash == vm.phase # "down" /\ EndProcess

-------------------------------------------------------------------------------
(***************************************************************************)
(* The workers                                                             *)
(***************************************************************************)
\* The service is asked for an operation while another call may be running.
NoteOverlap(c) ==
    overlapped' = (overlapped \/ \E d \in Callers \ {c} :
                     /\ Service!Running(d)
                     /\ {worker[c].role, worker[d].role}
                            \ {"apply", "disconnect"} # {})

\* The worker waits for the call it began.
Calling(c) == worker' = [worker EXCEPT ![c].at = "calling"]

\* The worker has its answer, and no call was begun.
Answer(c, ok) ==
    /\ worker' = [worker EXCEPT ![c].at = "answered", ![c].ok = ok]
    /\ UNCHANGED serviceVars

\* The worker of either: the benchmark rejects the profile (or all of them), or
\* the user the elevation prompt; or the service is called.
ApplyTested(c) ==
    /\ worker[c].role = "apply" /\ worker[c].at = "testing"
    /\ \/ Answer(c, FALSE) /\ UNCHANGED overlapped
       \/ /\ Service!BeginSet(c, worker[c].adapter, worker[c].setting)
          /\ Calling(c) /\ NoteOverlap(c)
    /\ UNCHANGED <<elevated, vm, inbox>>

\* The guard's thread: connectivity_service.is_connected(), then a look at
\* active_adapter_name, which the GUI thread may change at any time.
GuardTested(c) ==
    /\ worker[c].role = "guard"
    /\ worker' = [worker EXCEPT
                    ![c].role = "trip",
                    ![c].at = IF vm.active = None THEN "answered" ELSE "asking"]
    /\ UNCHANGED <<serviceVars, elevated, vm, inbox, overlapped>>

\* The network is up: a signal the GUI thread ignores.
GuardSatisfied(c) ==
    /\ worker[c].role = "guard"
    /\ worker' = [worker EXCEPT ![c] = NoWorker]
    /\ UNCHANGED <<serviceVars, elevated, vm, inbox, overlapped>>

\* restore_original_dns.  With administrator rights the thread executes the
\* call.  Without, nothing pending is a success; the prompt may be refused; and
\* the helper accepts no request without an adapter, which the backup names.
AskRestore(c) ==
    /\ worker[c].at = "asking"
    /\ LET a == IF worker[c].role = "trip" THEN vm.active ELSE worker[c].adapter
       IN \/ elevated /\ Service!BeginRestore(c, a) /\ Calling(c)
          \/ ~elevated /\ backup = NoFile /\ Answer(c, TRUE)
          \/ ~elevated /\ backup # NoFile /\ Answer(c, FALSE)
          \/ /\ ~elevated /\ a # None /\ backup # NoFile
             /\ Service!BeginRestore(c, a) /\ Calling(c)
          \/ /\ ~elevated /\ a = None /\ backup \in Service!Backup
             /\ Service!BeginRestore(c, backup.adapter) /\ Calling(c)
    /\ NoteOverlap(c)
    /\ UNCHANGED <<elevated, vm, inbox>>

\* The thread's last statement: emit the signal.  The recovery thread tells
\* nobody; the exit ends the process.
Conclude(c, ok) ==
    CASE worker[c].role = "exit" -> EndProcess
      [] worker[c].role = "recover" ->
            /\ worker' = [worker EXCEPT ![c] = NoWorker]
            /\ UNCHANGED <<serviceVars, elevated, vm, inbox, overlapped>>
      [] OTHER ->
            /\ worker' = [worker EXCEPT ![c] = NoWorker]
            /\ inbox' = Append(inbox, [kind |-> worker[c].role, ok |-> ok,
                                       adapter |-> worker[c].adapter])
            /\ UNCHANGED <<serviceVars, elevated, vm, overlapped>>

\* Mutant: a worker whose operation never reached the service ends silently.
ConcludeAfterCall(c) ==
    /\ c \in Working
    /\ worker[c].at = "calling" /\ ~Service!Running(c) /\ result[c] # "none"
    /\ Conclude(c, result[c] = "ok")

\* The worker has an answer, its own or that of the call it waited for.
Finish(c) ==
    /\ c \in Working
    /\ \/ worker[c].at = "answered" /\ Conclude(c, worker[c].ok)
       \/ /\ worker[c].at = "calling" /\ ~Service!Running(c) /\ result[c] # "none"
          /\ Conclude(c, result[c] = "ok")

\* Mutant: an answer that did not come counts as the answer True.
TimeOutAsSuccess(c) ==
    /\ c \in Working /\ ~elevated
    /\ worker[c].at = "calling"
    /\ Conclude(c, TRUE)

\* privileged_helper.request gives up after 35 seconds: the operation is
\* reported as failed, while the helper may be at any step of it.
TimeOut(c) ==
    /\ c \in Working /\ ~elevated
    /\ worker[c].at = "calling"
    /\ Conclude(c, FALSE)

WorkerStep(c) ==
    \/ ApplyTested(c) \/ GuardTested(c) \/ GuardSatisfied(c)
    \/ AskRestore(c) \/ Finish(c) \/ TimeOut(c)

-------------------------------------------------------------------------------
(***************************************************************************)
(* The helper processes, or the threads of an elevated program, at work;   *)
(* and the environment                                                     *)
(***************************************************************************)
CallStep(c) ==
    /\ Service!Step(c)
    /\ UNCHANGED <<elevated, vm, worker, inbox, overlapped>>

\* A helper process ends early: killed, or its request file was withdrawn
\* before it was read.
HelperDies(c) ==
    /\ ~elevated
    /\ Service!Die(c)
    /\ UNCHANGED <<elevated, vm, worker, inbox, overlapped>>

\* The user configures an adapter the program is not concerned with.
UserEdits(a, s) ==
    /\ Service!Quiet /\ ~Service!Saved(a)
    /\ Service!UserEdits(a, s)
    /\ UNCHANGED <<elevated, vm, worker, inbox, overlapped>>

Next ==
    \/ Start \/ BeginExit \/ Crash \/ Handle \/ CloseWarning
    \/ \E enabled \in BOOLEAN : SetKillSwitch(enabled)
    \/ \E c \in Callers :
          \/ \E a \in Adapters, s \in Settings : ApplyProfile(c, a, s)
          \/ Disconnect(c) \/ GuardTick(c)
          \/ WorkerStep(c) \/ CallStep(c) \/ HelperDies(c)
    \/ \E a \in Adapters, s \in Settings : UserEdits(a, s)

Spec == Init /\ [][Next]_vars

\* Benchmarks, PowerShell and the waiting for a helper have timeouts, so every
\* worker and every call takes its next step; Qt's event loop delivers queued
\* signals.  The user, crashes and the network promise nothing.
Fairness ==
    /\ WF_vars(Handle)
    /\ \A c \in Callers : WF_vars(WorkerStep(c)) /\ WF_vars(CallStep(c))

FairSpec == Spec /\ Fairness

-------------------------------------------------------------------------------
(***************************************************************************)
(* Properties                                                              *)
(***************************************************************************)
Operations == {c \in Callers : worker[c].role \in {"apply", "disconnect"}}
Reports == {i \in DOMAIN inbox : inbox[i].kind \in {"apply", "disconnect"}}

\* What the view-model believes is so.  The busy flag is up exactly while one
\* user operation is at work or its report waits to be handled, and there is
\* never a second one: no report is lost, doubled, or handled as if it were
\* another's (main_viewmodel.py:1466-1518, 1621, 1707).  And a connection is
\* watched if and only if the user asked for it: in whatever order the switch,
\* the guard's findings and the reports arrive, no connection is left unguarded
\* and no timer is left behind (main_viewmodel.py:1744-1771).
FlagsAreTrue ==
    /\ Cardinality(Operations) + Cardinality(Reports) = IF vm.busy THEN 1 ELSE 0
    /\ vm.watchdog <=> (vm.killSwitch /\ vm.connected)

\* The callers keep the contract that DnsService states (one call at a time, no
\* second adapter): every step is one its specification allows, through
\* timeouts, crashes and restarts, unless a thread the busy flag does not cover
\* (the start-up recovery, the guard, the exit, a helper nobody waits for any
\* more) called the service while another call ran.
HonoursContract == [][Service!Next \/ overlapped']_serviceVars

\* When the user is told that the DNS was restored, it is - under the same
\* reservation, and also if the report waited behind others.
ToldRestored ==
    /\ inbox # <<>> /\ inbox' = Tail(inbox) /\ vm'.phase = "running"
    /\ Head(inbox).kind = "disconnect" /\ Head(inbox).ok

RestoredAsTold == [][ToldRestored /\ ~overlapped => dns = original]_vars

\* The window never stays busy and an exit never hangs, whatever the helper,
\* the elevation prompt and the network do.
Responsive ==
    /\ vm.busy ~> ~vm.busy
    /\ vm.phase = "exiting" ~> vm.phase = "down"

\* dns_service.py:1, "crash recovery and exact restoration": at every moment
\* the user's configuration of each adapter is in effect or in the backup.
OriginalRecoverable == Service!OriginalRecoverable

\* The same, for a machine on which no two calls ever overlapped.
SerialRecoverable == overlapped \/ OriginalRecoverable
===============================================================================
