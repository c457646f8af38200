-------------------------------- MODULE Blackbox --------------------------------
(***************************************************************************)
(* The local crash recorder (crash_service) and its use by main: a marker  *)
(* file tells the next start how the program ended, exceptions and hangs   *)
(* are reported by any thread into a queue of files that each report       *)
(* prunes, and a watchdog looks at the heartbeat of the event loop.        *)
(***************************************************************************)
EXTENDS Naturals, FiniteSets

CONSTANTS Pids,       \* process identifiers; a start takes any that is free
          Reporters,  \* bound: threads that report an exception
          Watchdog,   \* the thread that reports a hang
          MaxReports, \* 20 in the code
          Surplus     \* bound: reports beyond it

VARIABLES marker,   \* session.json
          running,  \* the instances of the program
          enabled,  \* the user's choice
          queue,    \* how many reports there are
          writer,   \* the threads at work on a report
          ui,       \* the event loop, and what the watchdog knows about it
          owed,     \* history: an instance ended without saying so
          wrong,    \* history: a start was wrong about that
          doubts    \* history: why it may be

boxVars == <<marker, running, enabled, queue, writer, ui, owed, wrong, doubts>>

Recorders == Reporters \cup {Watchdog}
Resting == [pc |-> "none", drop |-> 0]

Recordings == [pc : {"none", "mark", "write", "glob", "cut"}, drop : Nat]

BoxTypeOK ==
    /\ marker \in Pids \cup {"none", "garbled"} /\ running \subseteq Pids
    /\ enabled \in BOOLEAN /\ owed \in BOOLEAN /\ wrong \in BOOLEAN
    /\ queue \in 0..(MaxReports + Surplus)
    /\ writer \in [Recorders -> Recordings]
    /\ \A w \in Recorders : /\ writer[w].pc = "mark" => w = Watchdog
                          /\ writer[w].drop <= queue
    /\ ui \in [hung : BOOLEAN, recorded : BOOLEAN, noted : Nat]
    /\ doubts \subseteq {"second", "misread", "kept", "raced", "unpruned"}

BoxInit ==
    /\ marker = "none" /\ running = {} /\ enabled = TRUE /\ queue = 0
    /\ writer = [w \in Recorders |-> Resting]
    /\ ui = [hung |-> FALSE, recorded |-> FALSE, noted |-> 0]
    /\ owed = FALSE /\ wrong = FALSE /\ doubts = {}

BoxClean == doubts \subseteq {"unpruned"}

-------------------------------------------------------------------------------
(* Start and end *)

Remaining(n) == IF n <= MaxReports THEN n ELSE MaxReports

\* The oldest n files go.  Others do not count them any more; one that is between
\* listing the files and reading their age raises, and prunes nothing.
Gone(writers, n, raises) ==
    [v \in Recorders |->
        IF n > 0 /\ raises /\ writers[v].pc = "glob" THEN Resting
        ELSE [writers[v] EXCEPT !.drop = IF @ > n THEN @ - n ELSE 0]]

\* The marker is that of a process which, says _pid_alive, is running.
Alive(alive) == marker \in Pids /\ alive

\* initialize.  The marker of an instance that is alive says nothing about how
\* the last one ended; that the system can tell is not certain (os.kill with 0 is
\* a console event on Windows, and identifiers are used again).
Launch(p, alive) ==
    LET told == marker # "none" /\ ~Alive(alive)
    IN
    /\ p \notin running
    /\ running' = running \cup {p}
    /\ marker' = p
    /\ queue' = IF told /\ enabled THEN Remaining(queue + 1) ELSE queue
    /\ writer' = Gone(writer, IF queue' < queue THEN queue - queue' ELSE 0, FALSE)
    /\ wrong' = (wrong \/ told # owed)
    /\ owed' = FALSE
    /\ doubts' = (doubts \cup (IF running # {} THEN {"second"} ELSE {})
                         \cup (IF marker \in Pids /\ alive # (marker \in running)
                               THEN {"misread"} ELSE {}))
                        \ (IF told /\ enabled THEN {"unpruned"} ELSE {})
    /\ ui' = [hung |-> FALSE, recorded |-> FALSE, noted |-> 0]
    /\ UNCHANGED enabled

\* A crash before the marker is written, or in the middle of it
LaunchDies(garbled) ==
    /\ running = {}
    /\ marker' = IF garbled THEN "garbled" ELSE marker
    /\ owed' = (owed \/ garbled)
    /\ UNCHANGED <<running, enabled, queue, writer, ui, wrong, doubts>>

\* The program ends while a report is written that has not been pruned.
Unpruned == IF \E w \in Recorders : writer[w].pc \in {"glob", "cut"} THEN {"unpruned"} ELSE {}

\* Mutant: the marker stays after a clean end
QuitKeepsMarker(p, removed) ==
    /\ p \in running
    /\ running' = running \ {p}
    /\ doubts' = doubts \cup (IF removed THEN {} ELSE {"kept"}) \cup Unpruned
    /\ writer' = [w \in Recorders |-> Resting]
    /\ UNCHANGED <<marker, enabled, queue, ui, owed, wrong>>

\* mark_clean_shutdown, on aboutToQuit and when the terms are declined
Quit(p, removed) ==
    /\ p \in running
    /\ running' = running \ {p}
    /\ marker' = IF removed THEN "none" ELSE marker
    /\ doubts' = doubts \cup (IF removed THEN {} ELSE {"kept"}) \cup Unpruned
    /\ writer' = [w \in Recorders |-> Resting]
    /\ UNCHANGED <<enabled, queue, ui, owed, wrong>>

Dies(p) ==
    /\ p \in running
    /\ running' = running \ {p}
    /\ owed' = TRUE
    /\ writer' = [w \in Recorders |-> Resting]
    /\ doubts' = doubts \cup Unpruned
    /\ UNCHANGED <<marker, enabled, queue, ui, wrong>>

-------------------------------------------------------------------------------
(* Reports *)

Exception(w) ==
    /\ running # {} /\ enabled
    /\ w \in Reporters /\ writer[w].pc = "none"
    /\ writer' = [writer EXCEPT ![w].pc = "write"]
    /\ UNCHANGED <<marker, running, enabled, queue, ui, owed, wrong, doubts>>

\* _write_report: a rename, and then the pruning, without a lock
WriteReport(w) ==
    /\ writer[w].pc = "write"
    /\ queue < MaxReports + Surplus
    /\ IF enabled
       THEN /\ queue' = queue + 1
            /\ writer' = [writer EXCEPT ![w].pc = "glob"]
       ELSE /\ queue' = queue
            /\ writer' = [writer EXCEPT ![w] = Resting]
    /\ UNCHANGED <<marker, running, enabled, ui, owed, wrong, doubts>>

\* _prune lists the files and reads the age of each ...
List(w) ==
    /\ writer[w].pc = "glob"
    /\ writer' = [writer EXCEPT ![w] = [pc |-> "cut",
                     drop |-> IF queue > MaxReports THEN queue - MaxReports ELSE 0]]
    /\ UNCHANGED <<marker, running, enabled, queue, ui, owed, wrong, doubts>>

\* ... and removes those beyond the bound, and those that are too old.
Cut(w, old, raises) ==
    LET n == IF writer[w].drop > old THEN writer[w].drop ELSE old
    IN
    /\ writer[w].pc = "cut"
    /\ old <= queue
    /\ queue' = queue - n
    /\ writer' = Gone([writer EXCEPT ![w] = Resting], n, raises)
    /\ doubts' = (doubts \ {"unpruned"}) \cup
          (IF \E v \in Recorders : writer[v].pc = "glob" /\ writer'[v].pc = "none"
           THEN {"raced"} ELSE {})
    /\ UNCHANGED <<marker, running, enabled, ui, owed, wrong>>

ClearPending ==
    /\ queue' = 0
    /\ writer' = Gone(writer, queue, TRUE)
    /\ doubts' = doubts \ {"unpruned"}
    /\ UNCHANGED <<marker, running, enabled, ui, owed, wrong>>

SetEnabled(on) ==
    /\ enabled' = on
    /\ UNCHANGED <<marker, running, queue, writer, ui, owed, wrong, doubts>>

-------------------------------------------------------------------------------
(* Hangs *)

UiHangs ==
    /\ running # {}
    /\ ui' = [ui EXCEPT !.hung = TRUE]
    /\ UNCHANGED <<marker, running, enabled, queue, writer, owed, wrong, doubts>>

Heartbeat ==
    /\ running # {}
    /\ ui' = [hung |-> FALSE, recorded |-> FALSE, noted |-> 0]
    /\ UNCHANGED <<marker, running, enabled, queue, writer, owed, wrong, doubts>>

\* start_watchdog: the condition is read, then the flag is set.
WatchdogLooks ==
    /\ running # {} /\ enabled /\ ui.hung /\ ~ui.recorded
    /\ writer[Watchdog].pc = "none"
    /\ writer' = [writer EXCEPT ![Watchdog].pc = "mark"]
    /\ UNCHANGED <<marker, running, enabled, queue, ui, owed, wrong, doubts>>
WatchdogMarks ==
    /\ writer[Watchdog].pc = "mark"
    /\ ui' = [ui EXCEPT !.recorded = TRUE, !.noted = @ + 1]
    /\ writer' = [writer EXCEPT ![Watchdog].pc = "write"]
    /\ UNCHANGED <<marker, running, enabled, queue, owed, wrong, doubts>>

BoxNext ==
    \/ \E p \in Pids : \/ \E yes \in BOOLEAN : Launch(p, yes) \/ Quit(p, yes)
                       \/ Dies(p)
    \/ \E yes \in BOOLEAN : LaunchDies(yes) \/ SetEnabled(yes)
    \/ \E w \in Recorders :
         \/ Exception(w) \/ WriteReport(w) \/ List(w)
         \/ \E old \in 0..queue, raises \in BOOLEAN : Cut(w, old, raises)
    \/ ClearPending \/ UiHangs \/ Heartbeat \/ WatchdogLooks \/ WatchdogMarks

BoxSpec == BoxInit /\ [][BoxNext]_boxVars

-------------------------------------------------------------------------------
\* A start says that the previous run was not closed properly exactly when it was
\* not, also when it ended while it wrote the marker (main.py:83, 129) - while one
\* instance runs at a time and the system can tell which processes are alive; a
\* hang is reported once (crash_service.py:213); and when no report is being
\* written no more than MAX_REPORTS are kept, unless two prunings met or the program
\* ended before the last one.
BlackboxTells ==
    /\ wrong => doubts \cap {"second", "misread", "kept"} # {}
    /\ ui.noted <= 1
    /\ (\A w \in Recorders : writer[w].pc = "none") /\ queue > MaxReports =>
          doubts \cap {"raced", "unpruned"} # {}

\* BlackboxTells, made inductive: the marker is that of the instance that runs, or
\* of the one whose end nobody was told of ...
MarkerTells ==
    \/ doubts \cap {"second", "misread", "kept"} # {}
    \/ /\ running \in {{}, {marker}}
       /\ owed <=> marker # "none" /\ running = {}
       /\ ~wrong

\* ... a hang that was reported is remembered until the next heartbeat ...
HangsOnce ==
    /\ ui.noted <= 1 /\ (ui.noted > 0 => ui.recorded)
    /\ writer[Watchdog].pc = "mark" => ui.noted = 0

\* ... and of the threads that still have to prune, one sees all of the surplus.
Prunes(w) ==
    \/ writer[w].pc = "glob"
    \/ writer[w].pc = "cut" /\ queue <= MaxReports + writer[w].drop
PruningIsDue ==
    \/ "raced" \in doubts \/ queue <= MaxReports
    \/ \E w \in Recorders : Prunes(w)
    \/ /\ "unpruned" \in doubts
       /\ \A w \in Recorders : writer[w].pc \notin {"glob", "cut"}

BoxInv == BoxTypeOK /\ MarkerTells /\ HangsOnce /\ PruningIsDue
===============================================================================
