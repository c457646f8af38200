----------------------------- MODULE OfficialWarp ------------------------------
(***************************************************************************)
(* Cloudflare's WARP client as the WARP page, the tray and the emergency   *)
(* reset use it: official_warp_service, the handlers of the view-model     *)
(* around it and what the window shows.                                    *)
(*                                                                         *)
(* A worker thread runs each operation.  The busy flag belongs to the      *)
(* window and only changes what the button of the WARP page does: the tray *)
(* and the emergency reset do not look at it.                              *)
(***************************************************************************)
EXTENDS Naturals, Sequences

CONSTANTS Ways,     \* modes and protocols that a test tries
          Own,      \* the user's own mode and protocol
          None,
          MaxInbox  \* bound: reports that wait for the GUI thread

VARIABLES client,   \* the client: connected or not, its preferences, and (a
                    \* history) who connected it
          intent,   \* the persisted note that the program connected it
          session,  \* _official_warp_session
          journey,  \* what ConnectionState shows
          window,   \* main_window: busy, active and owned
          task,     \* the worker threads
          inbox,    \* _official_warp_completed, oldest first
          odd       \* history: what the program cannot know, or does not look at

warpVars == <<client, intent, session, journey, window, task, inbox, odd>>

Preferences == Ways \cup {Own}
Kinds == {"connect", "disconnect", "reset", "status"}

NoSession == [own |-> FALSE, original |-> None]
NoTask == [pc |-> "none", todo |-> {}, original |-> None, own |-> FALSE,
           cancelled |-> FALSE]
NoReport == [op |-> "status", ok |-> TRUE, active |-> FALSE, own |-> FALSE,
             original |-> None, cancelled |-> FALSE]

\* What an invariant has to reserve:
\*   failed   a command of the client or the disk failed where nothing looks
\*   client   the user acted in the client while the program held a connection
\*            or was at work
\*   overlap  an operation began before another one's result was handled
\*   stale    a status that was read before an operation was shown after it
\*   crashed  the program died while an operation was at work
Oddities == {"failed", "client", "overlap", "stale", "crashed"}
Note(reasons) == odd' = IF odd = {} THEN reasons ELSE odd

TypeOK ==
    /\ client \in [up : BOOLEAN, prefs : Preferences, by : {"none", "user", "app"}]
    /\ intent \in [original : Preferences, expected : Ways] \cup {None}
    /\ session \in [own : BOOLEAN, original : Preferences \cup {None}]
    /\ journey \in {"idle", "testing", "stopping", "other"}
    /\ window \in [busy : BOOLEAN, active : BOOLEAN, owned : BOOLEAN]
    /\ task \in [Kinds -> [pc : {"none", "inspect", "dial", "verify", "intent",
                                 "undo", "hangup"},
                           todo : SUBSET Ways, original : Preferences \cup {None},
                           own : BOOLEAN, cancelled : BOOLEAN]]
    /\ inbox \in Seq([op : Kinds, ok : BOOLEAN, active : BOOLEAN, own : BOOLEAN,
                      original : Preferences \cup {None}, cancelled : BOOLEAN])
    /\ odd \subseteq Oddities

Fresh == /\ session' = NoSession
         /\ journey' = "idle"
         /\ window' = [busy |-> FALSE, active |-> FALSE, owned |-> FALSE]
         /\ inbox' = <<>>

WarpInit ==
    /\ client \in {[up |-> FALSE, prefs |-> Own, by |-> "none"],
                   [up |-> TRUE, prefs |-> Own, by |-> "user"]}
    /\ intent = None
    /\ session = NoSession
    /\ journey = "idle"
    /\ window = [busy |-> FALSE, active |-> FALSE, owned |-> FALSE]
    /\ task = [k \in Kinds |-> NoTask]
    /\ inbox = <<>>
    /\ odd = {}

-------------------------------------------------------------------------------
(***************************************************************************)
(* The GUI thread                                                          *)
(***************************************************************************)
AtWork(k) == task[k].pc # "none"
Changing == \E k \in Kinds \ {"status"} : AtWork(k)
AtRest == ~Changing /\ \A i \in DOMAIN inbox : inbox[i].op = "status"

\* Another test cannot begin: the button cancels while the window is busy.
Start(k, record) ==
    /\ ~AtWork(k)
    /\ task' = [task EXCEPT ![k] = record]
    /\ Note((IF ~AtRest THEN {"overlap"} ELSE {})
            \cup (IF k # "status" /\ (AtWork("status")
                       \/ \E i \in DOMAIN inbox : inbox[i].op = "status")
                  THEN {"stale"} ELSE {}))

\* import_warp_config, from the button of a page that shows no connection
ConnectClick ==
    /\ ~window.busy /\ ~window.active
    /\ Start("connect", [NoTask EXCEPT !.pc = "inspect", !.todo = Ways])
    /\ window' = [window EXCEPT !.busy = TRUE]
    /\ journey' = "testing"
    /\ UNCHANGED <<client, intent, session, inbox>>

\* disconnect_official_warp, from the button (not busy) or from the tray
DisconnectClick ==
    /\ window.active /\ window.owned
    /\ Start("disconnect", [NoTask EXCEPT !.pc = "inspect", !.own = session.own,
                                          !.original = session.original])
    /\ window' = [window EXCEPT !.busy = TRUE]
    /\ journey' = "stopping"
    /\ UNCHANGED <<client, intent, session, inbox>>

\* cancel_official_warp_test: heard while the journey shown is the test.
CancelClick ==
    /\ window.busy /\ journey = "testing"
    /\ journey' = "stopping"
    /\ task' = [task EXCEPT !["connect"].cancelled = TRUE]
    /\ UNCHANGED <<client, intent, session, window, inbox, odd>>

\* refresh_official_warp_status
RefreshClick ==
    /\ ~window.busy
    /\ Start("status", [NoTask EXCEPT !.pc = "inspect"])
    /\ UNCHANGED <<client, intent, session, journey, window, inbox>>

\* emergency_network_reset
ResetClick ==
    /\ Start("reset", [NoTask EXCEPT !.pc = "inspect"])
    /\ UNCHANGED <<client, intent, session, journey, window, inbox>>

\* DNS or App Access begins a journey of its own.
OtherJourney ==
    /\ journey # "other" /\ journey' = "other"
    /\ UNCHANGED <<client, intent, session, window, task, inbox, odd>>

Connected(r) == r.op = "connect" /\ r.ok
HungUp(r) == r.op = "disconnect" /\ r.ok /\ ~r.active

\* The session that a report leaves
After(r) == IF Connected(r) THEN [own |-> r.own, original |-> r.original]
            ELSE IF HungUp(r) THEN NoSession ELSE session

\* main_window._on_warp_state_changed and _on_warp_busy_changed
Shown(r) == [busy |-> window.busy /\ r.op = "status",
             active |-> r.active,
             owned |-> IF Connected(r) THEN r.own ELSE window.owned /\ ~HungUp(r)]

\* _on_official_warp_finished
OnFinished ==
    /\ inbox # <<>>
    /\ inbox' = Tail(inbox)
    /\ LET r == Head(inbox)
       IN  /\ session' = After(r)
           /\ window' = Shown(r)
           /\ journey' = IF r.op # "status" /\ (r.cancelled \/ HungUp(r))
                         THEN "idle" ELSE journey
    /\ UNCHANGED <<client, intent, task, odd>>

-------------------------------------------------------------------------------
(***************************************************************************)
(* The worker threads                                                      *)
(***************************************************************************)
At(k, pc) == task[k].pc = pc
Goto(k, pc) == task' = [task EXCEPT ![k].pc = pc]

Answer(k, report) == /\ task' = [task EXCEPT ![k] = NoTask]
                     /\ Len(inbox) < MaxInbox
                     /\ inbox' = Append(inbox, [report EXCEPT !.op = k])

\* inspect, of each operation; the client may be missing or not be genuine.
Status ==
    /\ At("status", "inspect")
    /\ Answer("status", [NoReport EXCEPT !.active = client.up])
    /\ UNCHANGED <<client, intent, session, journey, window, odd>>

\* connect_best leaves a connection that it finds alone.
Inspect ==
    /\ At("connect", "inspect")
    /\ \/ Answer("connect", [NoReport EXCEPT !.ok = FALSE])
       \/ /\ client.up
          /\ Answer("connect", [NoReport EXCEPT !.active = TRUE])
       \/ /\ ~client.up
          /\ task' = [task EXCEPT !["connect"].pc = "dial",
                                  !["connect"].original = client.prefs]
          /\ UNCHANGED inbox
    /\ UNCHANGED <<client, intent, session, journey, window, odd>>

Down(prefs) == [up |-> FALSE, prefs |-> prefs, by |-> "none"]
Up(prefs) == [up |-> TRUE, prefs |-> prefs, by |-> "app"]

\* One attempt: disconnect, mode, protocol and connect, of which each may fail
\* (the next attempt) or raise an exception (the end).
Dial ==
    /\ At("connect", "dial")
    /\ LET t == task["connect"] IN
       IF t.cancelled
       THEN Goto("connect", "undo") /\ UNCHANGED client
       ELSE \/ Goto("connect", "undo") /\ UNCHANGED client   \* no attempt, no time left
            \/ \E way \in t.todo :
                  LET tried(pc) == task' = [task EXCEPT !["connect"].pc = pc,
                                               !["connect"].todo = @ \ {way}]
                  IN  \/ client' = Up(way) /\ tried("verify")
                      \/ /\ client' \in {client, Down(client.prefs), Down(way), Up(way)}
                         /\ tried("undo")
                      \/ client' \in {Down(client.prefs), Down(way)} /\ tried("dial")
    /\ UNCHANGED <<intent, session, journey, window, inbox, odd>>

\* Up to four looks at the client and at the network through it.
Verify ==
    /\ At("connect", "verify")
    /\ \/ Goto("connect", IF task["connect"].cancelled THEN "undo" ELSE "dial")
       \/ client.up /\ Goto("connect", "intent")
    /\ UNCHANGED <<client, intent, session, journey, window, inbox, odd>>

\* set_warp_intent, whose result nobody looks at
SetIntent ==
    /\ At("connect", "intent")
    /\ LET t == task["connect"] IN
       /\ \/ /\ intent' = [original |-> t.original,
                           expected |-> IF client.prefs \in Ways THEN client.prefs
                                        ELSE CHOOSE w \in Ways : TRUE]
             /\ UNCHANGED odd
          \/ /\ Note({"failed"})
             /\ UNCHANGED intent
       /\ Answer("connect", [NoReport EXCEPT !.active = TRUE, !.own = TRUE,
                                             !.original = t.original])
    /\ UNCHANGED <<client, session, journey, window>>

\* Mutant: a failed test does not restore the preferences
UndoKeepsPreferences ==
    /\ At("connect", "undo")
    /\ client' = Down(client.prefs)
    /\ Answer("connect", [NoReport EXCEPT !.ok = FALSE,
                                          !.cancelled = task["connect"].cancelled])
    /\ UNCHANGED <<intent, session, journey, window, odd>>

\* The end of a test without a connection: disconnect and restore, of which
\* neither return code is looked at.
Undo ==
    /\ At("connect", "undo")
    /\ \/ client' = Down(task["connect"].original) /\ UNCHANGED odd
       \/ client' \in {client, Down(client.prefs)} /\ Note({"failed"})
    /\ Answer("connect", [NoReport EXCEPT !.ok = FALSE,
                                          !.cancelled = task["connect"].cancelled])
    /\ UNCHANGED <<intent, session, journey, window>>

\* disconnect_if_started with its choice of the connection: the session's, or
\* that of the intent if the client still is as the intent says.
ChooseOwn ==
    /\ At("disconnect", "inspect")
    /\ IF task["disconnect"].own
       THEN \/ Goto("disconnect", "hangup") /\ UNCHANGED inbox
            \/ Answer("disconnect", [NoReport EXCEPT !.ok = FALSE, !.active = client.up])
       ELSE Answer("disconnect", [NoReport EXCEPT !.active = client.up])
    /\ UNCHANGED <<client, intent, session, journey, window, odd>>

ResetChooses ==
    /\ At("reset", "inspect")
    /\ LET noted == intent # None /\ client.up /\ client.prefs = intent.expected
           original == IF session # NoSession THEN session.original
                       ELSE IF noted THEN intent.original ELSE None
       IN  task' = IF session.own \/ (session = NoSession /\ noted)
                   THEN [task EXCEPT !["reset"].pc = "hangup",
                                     !["reset"].original = original]
                   ELSE [task EXCEPT !["reset"] = NoTask]
    /\ UNCHANGED <<client, intent, session, journey, window, inbox, odd>>

\* The preferences that are restored; an older client reports none.
Restored(k) == IF task[k].original = None THEN client.prefs ELSE task[k].original

HangUp(k) ==
    /\ At(k, "hangup")
    /\ LET done == /\ client' = Down(Restored(k))
                   /\ intent' = None
                   /\ UNCHANGED odd
           partly == /\ client' \in {client, Down(client.prefs)}
                     /\ Note({"failed"})
                     /\ UNCHANGED intent
       IN  IF k = "disconnect"
           THEN /\ \/ done /\ Answer(k, NoReport)
                   \/ partly /\ Answer(k, [NoReport EXCEPT !.ok = FALSE, !.active = TRUE])
                /\ UNCHANGED session
           ELSE /\ \/ done /\ session' = NoSession
                   \/ partly /\ UNCHANGED session
                /\ task' = [task EXCEPT ![k] = NoTask]
                /\ UNCHANGED inbox
    /\ UNCHANGED <<journey, window>>

-------------------------------------------------------------------------------
(***************************************************************************)
(* The user in the client, and the end of the program, which leaves the    *)
(* connection as it is                                                     *)
(***************************************************************************)
Held == Changing \/ session.own \/ intent # None

UserConnects ==
    /\ ~client.up
    /\ client' = [client EXCEPT !.up = TRUE, !.by = "user"]
    /\ Note(IF Held THEN {"client"} ELSE {})
    /\ UNCHANGED <<intent, session, journey, window, task, inbox>>

UserDisconnects ==
    /\ client.up
    /\ client' = Down(client.prefs)
    /\ Note(IF Held THEN {"client"} ELSE {})
    /\ UNCHANGED <<intent, session, journey, window, task, inbox>>

ProgramEnds ==
    /\ Fresh
    /\ task' = [k \in Kinds |-> NoTask]
    /\ Note(IF Changing \/ inbox # <<>> THEN {"crashed"} ELSE {})
    /\ UNCHANGED <<client, intent>>

-------------------------------------------------------------------------------
WarpNext ==
    \/ ConnectClick \/ DisconnectClick \/ CancelClick \/ RefreshClick \/ ResetClick
    \/ OtherJourney \/ OnFinished
    \/ Status \/ Inspect \/ Dial \/ Verify \/ SetIntent \/ Undo
    \/ ChooseOwn \/ ResetChooses \/ \E k \in {"disconnect", "reset"} : HangUp(k)
    \/ UserConnects \/ UserDisconnects \/ ProgramEnds

WarpSpec == WarpInit /\ [][WarpNext]_warpVars

Clean == odd = {}

-------------------------------------------------------------------------------
\* A connection that the program made is known to it when no operation is at work,
\* also after a restart (official_warp_service.py:302-313, recovery_service.py:86),
\* and one that it did not make, or that is gone, leaves neither the persisted
\* intent nor the preferences of a test behind (official_warp_service.py:318-352) -
\* unless something named in Oddities happened before.
WarpIsAccounted ==
    AtRest /\ odd = {} =>
       IF client.by = "app"
       THEN intent # None /\ intent.expected = client.prefs
       ELSE intent = None /\ client.prefs = Own

\* No operation of the program ends a WARP connection of the user: what was up before
\* is adopted, and what is not its own is not hung up (official_warp_service.py:
\* 219-228, 355-377).
SparesUser ==
    client.up /\ client.by = "user" /\ ~client'.up /\ odd' = {} => UserDisconnects
UserSpared == [][SparesUser]_warpVars

\* The properties above, made inductive: one operation is at work at a time, and
\* between two of them, and until a test dials, what is up is accounted for.
OneAtWork ==
    /\ Changing => inbox = <<>> /\ ~AtWork("status")
    /\ \A k, j \in Kinds \ {"status"} : AtWork(k) /\ AtWork(j) => k = j
    /\ (\E i \in DOMAIN inbox : inbox[i].op # "status")
          => Len(inbox) = 1 /\ ~AtWork("status")

SessionDue == IF inbox = <<>> THEN session ELSE After(Head(inbox))

Accounted(s) ==
    /\ IF client.by = "app"
       THEN client.up /\ intent # None /\ intent.expected = client.prefs
       ELSE /\ intent = None /\ client.prefs = Own /\ s = NoSession
            /\ client.up <=> client.by = "user"
    /\ intent # None => intent.original = Own
    /\ IF s.own THEN s.original = Own ELSE s = NoSession

Testing == task["connect"].pc \in {"dial", "verify", "intent", "undo"}
TestFits ==
    /\ client.by # "user" /\ intent = None /\ session = NoSession
    /\ client.up <=> client.by = "app"
    /\ client.up => client.prefs \in Ways
    /\ task["connect"].original = Own
    /\ At("connect", "intent") => client.up

HangUpFits ==
    /\ AtWork("disconnect") => /\ task["disconnect"].own = session.own
                               /\ task["disconnect"].original = session.original
    /\ \A k \in {"disconnect", "reset"} :
          At(k, "hangup") => task[k].original = Own /\ client.by = "app"

WarpInv ==
    /\ TypeOK
    /\ Testing => task["connect"].original # None
    /\ odd = {} => /\ OneAtWork /\ HangUpFits
                   /\ IF Testing THEN TestFits ELSE Accounted(SessionDue)
===============================================================================
