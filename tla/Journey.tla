--------------------------------- MODULE Journey ---------------------------------
(***************************************************************************)
(* The journey that the program says it is on (connection_state_service)   *)
(* and the handlers and workers of the view-model that move it.  A journey *)
(* has a generation, which a step must name to be heard; the workers name  *)
(* the view-model's at the time of the step, not that of their start.      *)
(* DNS and App Access share the busy flag; WARP has none.                  *)
(***************************************************************************)
EXTENDS Naturals, Sequences, FiniteSets

CONSTANTS Workers,   \* bound: workers at a time
          MaxQueue   \* bound: signals that wait for the event loop

VARIABLES flow,    \* the snapshot
          current, \* the view-model's generation is the journey's
          busy, held, \* _busy; DNS is connected, an App Access session is shown
          worker, inbox,
          linked,  \* what really is connected
          odd      \* history: why the journey may tell something else

journeyVars == <<flow, current, busy, held, worker, inbox, linked, odd>>

Scopes == {"dns", "app", "warp"}
Ops == {"start", "stop"}
Phases == {"idle", "preflight", "testing", "verifying", "active", "restoring", "failed"}
NoWorker == [pc |-> "none", scope |-> "dns", op |-> "start", cancelled |-> FALSE]

Flows == [scope : Scopes \cup {""}, phase : Phases, cancellable : BOOLEAN]
Errands == [pc : {"none", "fresh", "work"}, scope : Scopes, op : Ops, cancelled : BOOLEAN]
Messages == [kind : {"testing", "verifying", "restoring", "done"}, scope : Scopes, op : Ops,
             outcome : {"ok", "kept", "failed", "cancelled"}]

JourneyTyped ==
    /\ flow \in Flows /\ current \in BOOLEAN /\ busy \in BOOLEAN
    /\ flow.cancellable => flow.phase \notin {"idle", "active", "failed"}
    /\ held \subseteq {"dns", "app"} /\ linked \subseteq Scopes
    /\ worker \in [Workers -> Errands] /\ inbox \in Seq(Messages)

JourneyTypeOK ==
    /\ JourneyTyped
    /\ flow.scope = "" <=> flow.phase = "idle"
    /\ Len(inbox) <= MaxQueue
    /\ busy \/ "lost" \in odd <=>
          \/ "lost" \in odd
          \/ \E w \in Workers : worker[w].pc # "none" /\ worker[w].scope # "warp"
          \/ \E i \in DOMAIN inbox : inbox[i].kind = "done" /\ inbox[i].scope # "warp"

JourneyInit ==
    /\ flow = [scope |-> "", phase |-> "idle", cancellable |-> FALSE]
    /\ current = FALSE /\ busy = FALSE /\ held = {}
    /\ worker = [w \in Workers |-> NoWorker]
    /\ inbox = <<>> /\ linked = {} /\ odd = {}

JourneyClean == odd = {}

-------------------------------------------------------------------------------
(* connection_state_service *)

Set(scope, phase, cancellable) ==
    flow' = [scope |-> scope, phase |-> phase, cancellable |-> cancellable]
\* Whatever the journey was begun with, a step in the middle can be cancelled.
Advance(phase) ==
    IF current THEN Set(flow.scope, phase, phase \notin {"active", "failed", "idle"})
    ELSE UNCHANGED flow
Reset == Set("", "idle", FALSE) /\ current' = FALSE
Cancel == IF current /\ flow.cancellable THEN Set(flow.scope, "restoring", FALSE)
          ELSE UNCHANGED flow

-------------------------------------------------------------------------------
(* The handlers that begin a journey *)

Quiet == inbox = <<>> /\ \A w \in Workers : worker[w].pc = "none"
Done(w) == [w EXCEPT !.cancelled = @ \/ (w.scope = "warp" /\ w.op = "start")]

\* apply_dns_profile, apply_best_dns, disconnect_dns, start_app_access,
\* stop_app_access; import_warp_config (which cancels the one before it) and
\* disconnect_official_warp
Begin(w, scope, op) ==
    /\ worker[w].pc = "none"
    /\ scope # "warp" => ~busy /\ (op = "stop" => scope \in held)
    /\ busy' = (busy \/ scope # "warp")
    /\ IF op = "start" THEN Set(scope, "preflight", scope # "dns")
                       ELSE Set(scope, "restoring", TRUE)
    /\ current' = TRUE
    /\ worker' = [(IF scope = "warp" /\ op = "start"
                   THEN [v \in Workers |-> Done(worker[v])] ELSE worker)
                  EXCEPT ![w] = [pc |-> IF op = "start" /\ scope # "app"
                                        THEN "fresh" ELSE "work",
                                 scope |-> scope, op |-> op, cancelled |-> FALSE]]
    /\ odd' = IF Quiet THEN odd ELSE odd \cup {"crossed"}
    /\ UNCHANGED <<held, inbox, linked>>

\* cancel_app_access, also while a DNS connection is made; cancel_official_warp_test
CancelApp ==
    /\ busy
    /\ worker' = [w \in Workers |->
                     [worker[w] EXCEPT !.cancelled = @ \/ worker[w].scope = "app"]]
    /\ Cancel
    /\ UNCHANGED <<current, busy, held, inbox, linked, odd>>
CancelWarp ==
    /\ flow.scope = "warp" /\ flow.cancellable
    /\ worker' = [w \in Workers |-> Done(worker[w])]
    /\ Cancel
    /\ odd' = IF \E w \in Workers : worker[w].pc = "fresh"
              THEN odd \cup {"early"} ELSE odd
    /\ UNCHANGED <<current, busy, held, inbox, linked>>

-------------------------------------------------------------------------------
(* The workers *)

Post(message) == Len(inbox) < MaxQueue /\ inbox' = Append(inbox, message)

\* The first statement of the DNS and WARP workers
Testing(w) ==
    /\ worker[w].pc = "fresh"
    /\ worker' = [worker EXCEPT ![w].pc = "work"]
    /\ Advance("testing")
    /\ UNCHANGED <<current, busy, held, inbox, linked, odd>>

\* App Access tells how far it is.
Progress(w, phase) ==
    /\ worker[w].pc = "work" /\ worker[w].scope = "app" /\ worker[w].op = "start"
    /\ Post([kind |-> phase, scope |-> "app", op |-> "start", outcome |-> "ok"])
    /\ UNCHANGED <<flow, current, busy, held, worker, linked, odd>>

\* The worker has done what the models of DNS, App Access and WARP say; the
\* user's own WARP connection is kept.
Finish(w, outcome) ==
    LET s == worker[w]
    IN
    /\ s.pc = "work"
    /\ outcome = "cancelled" => s.cancelled
    /\ outcome = "kept" => s.scope = "warp" /\ s.op = "stop" /\ "warp" \in linked
    /\ Post([kind |-> "done", scope |-> s.scope, op |-> s.op, outcome |-> outcome])
    /\ linked' = IF outcome # "ok" THEN linked
                 ELSE IF s.op = "start" THEN linked \cup {s.scope} ELSE linked \ {s.scope}
    /\ worker' = [worker EXCEPT ![w] = NoWorker]
    /\ UNCHANGED <<flow, current, busy, held, odd>>

\* An exception in the ranking of apply_best_dns ends its worker without a result.
Lost(w) ==
    /\ worker[w].pc = "work" /\ worker[w].scope = "dns" /\ worker[w].op = "start"
    /\ worker' = [worker EXCEPT ![w] = NoWorker]
    /\ odd' = odd \cup {"lost"}
    /\ UNCHANGED <<flow, current, busy, held, inbox, linked>>

UserConnects ==
    /\ linked' = linked \cup {"warp"}
    /\ UNCHANGED <<flow, current, busy, held, worker, inbox, odd>>

\* The kill switch and the emergency reset restore DNS and WARP, and the user
\* has Cloudflare's client; the journey is not told.
TakenBack(scope) ==
    /\ scope \in linked \ {"app"}
    /\ linked' = linked \ {scope}
    /\ odd' = odd \cup {"unsaid"}
    /\ UNCHANGED <<flow, current, busy, held, worker, inbox>>

-------------------------------------------------------------------------------
(* The event loop *)

\* _on_connection_progress
OnProgress(kind) ==
    /\ IF flow.scope # "app" \/ flow.phase \in {"active", "failed", "idle", "restoring"}
       THEN UNCHANGED flow
       ELSE Advance(kind)
    /\ UNCHANGED <<current, busy, held>>

\* Mutant: the end of a connection does not reset the journey
OnDoneWithoutReset(m) ==
    /\ busy' = (busy /\ m.scope = "warp")
    /\ held' = (IF m.op = "start" THEN held \cup {m.scope} ELSE held \ {m.scope}) \ {"warp"}
    /\ Advance(IF m.outcome \in {"ok", "kept"} THEN "active" ELSE "failed")
    /\ UNCHANGED current

\* _on_apply_finished, _on_disconnect_finished, _on_app_access_completed,
\* _on_official_warp_finished.  A DNS connection whose restoration failed is
\* shown as ended, too.
OnDone(m) ==
    /\ busy' = (busy /\ m.scope = "warp")
    /\ held' = IF m.scope = "warp" THEN held
               ELSE IF m.op = "start" THEN (IF m.outcome = "ok" THEN held \cup {m.scope} ELSE held)
               ELSE IF m.scope = "dns" \/ m.outcome = "ok" THEN held \ {m.scope} ELSE held
    /\ IF m.outcome = "cancelled" \/ (m.outcome = "ok" /\ m.op = "stop") THEN Reset
       ELSE /\ Advance(IF m.outcome \in {"ok", "kept"} THEN "active" ELSE "failed")
            /\ UNCHANGED current

Deliver ==
    /\ inbox # <<>>
    /\ inbox' = Tail(inbox)
    /\ IF Head(inbox).kind = "done" THEN OnDone(Head(inbox)) ELSE OnProgress(Head(inbox).kind)
    /\ UNCHANGED <<worker, linked, odd>>

JourneyNext ==
    \/ \E w \in Workers :
         \/ \E scope \in Scopes, op \in Ops : Begin(w, scope, op)
         \/ Testing(w) \/ Lost(w)
         \/ \E phase \in {"testing", "verifying", "restoring"} : Progress(w, phase)
         \/ \E outcome \in {"ok", "kept", "failed", "cancelled"} : Finish(w, outcome)
    \/ CancelApp \/ CancelWarp \/ Deliver \/ UserConnects
    \/ \E scope \in Scopes : TakenBack(scope)

JourneySpec == JourneyInit /\ [][JourneyNext]_journeyVars

-------------------------------------------------------------------------------
\* "Thread-safe source of truth for user-visible connection journeys"
\* (connection_state_service.py:1): while one journey is made at a time and the
\* rest of the program tells it what happens, what it calls active is connected;
\* a journey without a worker and a waiting result has ended; a WARP test can be
\* cancelled as long as it runs; and a cancellation that was heard is shown until
\* the result arrives.
FlowIsTrue ==
    odd = {} =>
       /\ flow.phase = "active" => flow.scope \in linked
       /\ Quiet => flow.phase \in {"idle", "active", "failed"}
       /\ \A w \in Workers : worker[w].pc # "none" =>
             /\ current /\ flow.scope = worker[w].scope
             /\ worker[w].scope = "warp" /\ worker[w].op = "start" =>
                   IF worker[w].cancelled THEN flow.phase = "restoring" ELSE flow.cancellable

\* FlowIsTrue, made inductive: there is one worker, of the journey's own scope, and
\* what waits in the queue is of that journey; the result comes last, and is so ...
AtWork(w) == worker[w].pc # "none"
Resting == \A w \in Workers : ~AtWork(w)
Journeying == inbox # <<>> \/ ~Resting

OneJourney ==
    /\ \A v, w \in Workers : AtWork(v) /\ AtWork(w) => v = w
    /\ Journeying => current /\ flow.phase \notin {"idle", "active", "failed"}
    /\ \A w \in Workers : AtWork(w) => flow.scope = worker[w].scope

Honest(m) ==
    /\ m.outcome = "ok" /\ m.op = "start" => m.scope \in linked
    /\ m.outcome = "kept" => m.scope \in linked
InboxInOrder ==
    /\ \A i \in 1..Len(inbox) :
          /\ inbox[i].scope = flow.scope
          /\ inbox[i].kind = "done" => i = Len(inbox) /\ Resting /\ Honest(inbox[i])
          /\ inbox[i].kind # "done" => inbox[i].scope = "app"
    /\ inbox # <<>> /\ Resting => inbox[Len(inbox)].kind = "done"

\* ... and a test of WARP can be cancelled, by nobody but the user of WARP.
Cancellable(s) ==
    /\ s.pc = "fresh" => s.scope # "app" /\ ~s.cancelled
    /\ s.scope = "warp" /\ s.op = "start" =>
          IF s.cancelled THEN flow.phase = "restoring" ELSE flow.cancellable
BusyIsElsewhere == busy => Journeying /\ flow.scope # "warp"

FlowSound ==
    /\ OneJourney /\ InboxInOrder /\ BusyIsElsewhere
    /\ \A w \in Workers : AtWork(w) => Cancellable(worker[w])
    /\ flow.phase = "active" => flow.scope \in linked
    /\ flow.phase \notin {"idle", "active", "failed"} => Journeying

JourneyInv == JourneyTyped /\ (odd = {} => FlowSound)

\* JourneyTypeOK, made inductive: what makes the program busy is one worker, or
\* the one result that it has left, and a journey that may go on has a scope.
Busying(w) == worker[w].pc # "none" /\ worker[w].scope # "warp"
Ending(i) == inbox[i].kind = "done" /\ inbox[i].scope # "warp"
JourneyFits ==
    /\ flow.scope = "" <=> flow.phase = "idle"
    /\ current => flow.scope # ""
    /\ Len(inbox) <= MaxQueue
    /\ "lost" \notin odd =>
         /\ busy <=> (\E w \in Workers : Busying(w)) \/ (\E i \in DOMAIN inbox : Ending(i))
         /\ \A v, w \in Workers : Busying(v) /\ Busying(w) => v = w
         /\ \A i, j \in DOMAIN inbox : Ending(i) /\ Ending(j) => i = j
         /\ \A w \in Workers, i \in DOMAIN inbox : ~(Busying(w) /\ Ending(i))
===============================================================================
