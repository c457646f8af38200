--------------------------- MODULE AppAccessProofs ----------------------------
(***************************************************************************)
(* Theorems about AppAccess, for every set of profiles: type correctness,  *)
(* one worker at a time, a cancelled search stops, the user's WARP         *)
(* connection survives the program, a search that fails leaves the network *)
(* as it was, and the main page shows the setting in effect.               *)
(***************************************************************************)
EXTENDS AppAccess, TLAPS

\* A search runs only without a session and undoes only what failed; a stop runs
\* only with a session, of which it keeps who connected WARP, and fails only
\* when something outside did.
OperationMatchesSession ==
    /\ worker # None =>
          /\ vm.up
          /\ worker.op = "start" =>
                /\ vm.session = None
                /\ worker.pc \in {"undoWarp", "undoDns"} => ~worker.ok
          /\ worker.op = "stop" =>
                /\ vm.session # None
                /\ worker.pc \in {"undoWarp", "undoDns"}
                /\ worker.tempWarp = vm.session.warp
                /\ ~worker.ok => mishap
    /\ report # None =>
          /\ vm.up
          /\ report.op = "start" => vm.session = None
          /\ report.op = "stop" /\ ~report.ok => mishap

\* Nothing is connected for an operation before connect_best has returned.
BeforeDialled == Waits \ {"dialled", "warpProbe", "conclude", "undoWarp", "undoDns"}

DialledOnce ==
    worker # None /\ worker.pc \in BeforeDialled => worker.tempWarp = "none"

\* A stop has hung up what the session connected.
HungUp ==
    \/ worker # None /\ worker.op = "stop" /\ worker.pc = "undoDns"
    \/ report # None /\ report.op = "stop"

\* What an operation or a session takes for the program's own connection is
\* that, and nobody else's is touched while WARP is being connected.
OwnIsOwn ==
    (~meddled /\ ~mishap) =>
        /\ worker # None /\ worker.tempWarp = "own" /\ worker.pc # "undoDns"
              => warp = "app"
        /\ worker # None /\ worker.pc \in {"dial", "verify", "intent", "dialled"}
              => warp # "user"
        /\ worker # None /\ worker.pc \in {"verify", "intent"} => warp = "app"
        /\ report # None /\ report.op = "start" /\ report.ok /\ report.warp = "own"
              => warp = "app"
        /\ vm.session # None /\ vm.session.warp = "own" /\ ~HungUp => warp = "app"

\* The intent is written when the connection is confirmed, and not before.
Dialling == worker # None /\ worker.pc \in {"dial", "verify", "intent"}

IntentTracksWarp ==
    (~meddled /\ ~mishap) => (intent <=> warp = "app" /\ ~Dialling)

IInv ==
    /\ TypeOK
    /\ BusyTracksWorker
    /\ OperationMatchesSession
    /\ DialledOnce
    /\ OwnIsOwn
    /\ IntentTracksWarp

-------------------------------------------------------------------------------
(***************************************************************************)
(* The records of the threads: one lemma for each form of change. They     *)
(* keep the records opaque in the lemmas about the actions.                *)
(***************************************************************************)
LEMMA GotoStep ==
    ASSUME worker \in Worker, NEW pc \in Waits, Goto(pc)
    PROVE  /\ worker' \in Worker
           /\ worker'.op = worker.op
           /\ worker'.pc = pc
           /\ worker'.tempWarp = worker.tempWarp
           /\ worker'.ok = worker.ok
  BY DEF Worker, Goto

LEMMA TakeStep ==
    ASSUME worker \in Worker, NEW route \in Routes, Take(route)
    PROVE  /\ worker' \in Worker
           /\ worker'.op = worker.op
           /\ worker'.pc = "conclude"
           /\ worker'.tempWarp = worker.tempWarp
           /\ worker'.ok = worker.ok
  BY DEF Worker, Take, Waits

LEMMA AnswerStep ==
    ASSUME worker \in Worker, NEW reply \in Replies, Answer(reply)
    PROVE  /\ worker' \in Worker
           /\ worker'.op = worker.op
           /\ worker'.pc = "answered"
           /\ worker'.tempWarp = worker.tempWarp
           /\ worker'.ok = worker.ok
  BY DEF Worker, Answer, Waits

LEMMA CleanupStep ==
    ASSUME worker \in Worker, NEW c \in BOOLEAN, Cleanup(c)
    PROVE  /\ worker' \in Worker
           /\ worker'.op = worker.op
           /\ worker'.pc = "undoWarp"
           /\ worker'.tempWarp = worker.tempWarp
           /\ worker'.ok = FALSE
  BY DEF Worker, Cleanup, Waits, Replies

LEMMA GiveUpStep ==
    ASSUME worker \in Worker, GiveUp
    PROVE  /\ worker' \in Worker
           /\ worker'.op = worker.op
           /\ worker'.pc = "undoWarp"
           /\ worker'.tempWarp = "none"
           /\ worker'.ok = FALSE
  BY DEF Worker, GiveUp, Waits, Replies, WarpUse

LEMMA RankedStep ==
    ASSUME worker \in Worker, NEW todo \in SUBSET Profiles, NEW pc \in Waits,
           worker' = [worker EXCEPT !.todo = todo, !.pc = pc]
    PROVE  /\ worker' \in Worker
           /\ worker'.op = worker.op
           /\ worker'.pc = pc
           /\ worker'.tempWarp = worker.tempWarp
           /\ worker'.ok = worker.ok
  BY DEF Worker

LEMMA TriedStep ==
    ASSUME worker \in Worker, NEW p \in Profiles,
           worker' = [worker EXCEPT !.todo = @ \ {p}, !.reply = "tried"]
    PROVE  /\ worker' \in Worker
           /\ worker'.op = worker.op
           /\ worker'.pc = worker.pc
           /\ worker'.tempWarp = worker.tempWarp
           /\ worker'.ok = worker.ok
  BY DEF Worker, Replies

LEMMA PickedStep ==
    ASSUME worker \in Worker, NEW p \in Profiles,
           worker' = [worker EXCEPT !.reply = "picked", !.chosen = p,
                                    !.pc = "answered"]
    PROVE  /\ worker' \in Worker
           /\ worker'.op = worker.op
           /\ worker'.pc = "answered"
           /\ worker'.tempWarp = worker.tempWarp
           /\ worker'.ok = worker.ok
  BY DEF Worker, Replies, Waits

LEMMA StoppedStep ==
    ASSUME worker \in Worker, NEW b \in BOOLEAN,
           worker' = [worker EXCEPT !.tempDns = b, !.cancelled = TRUE,
                                    !.ok = FALSE, !.pc = "undoWarp"]
    PROVE  /\ worker' \in Worker
           /\ worker'.op = worker.op
           /\ worker'.pc = "undoWarp"
           /\ worker'.tempWarp = worker.tempWarp
           /\ worker'.ok = FALSE
  BY DEF Worker, Waits

LEMMA AppliedStep ==
    ASSUME worker \in Worker, NEW p \in Profiles, NEW b,
           worker' = [worker EXCEPT !.pc = "probe", !.chosen = p,
                                    !.todo = @ \ {p}, !.tempDns = @ \/ b]
    PROVE  /\ worker' \in Worker
           /\ worker'.op = worker.op
           /\ worker'.pc = "probe"
           /\ worker'.tempWarp = worker.tempWarp
           /\ worker'.ok = worker.ok
  BY DEF Worker, Waits

LEMMA SkippedStep ==
    ASSUME worker \in Worker, NEW p \in Profiles,
           worker' = [worker EXCEPT !.todo = @ \ {p}]
    PROVE  /\ worker' \in Worker
           /\ worker'.op = worker.op
           /\ worker'.pc = worker.pc
           /\ worker'.tempWarp = worker.tempWarp
           /\ worker'.ok = worker.ok
  BY DEF Worker

LEMMA RestoredStep ==
    ASSUME worker \in Worker,
           worker' = [worker EXCEPT !.tempDns = FALSE, !.pc = "warp"]
    PROVE  /\ worker' \in Worker
           /\ worker'.op = worker.op
           /\ worker'.pc = "warp"
           /\ worker'.tempWarp = worker.tempWarp
           /\ worker'.ok = worker.ok
  BY DEF Worker, Waits

LEMMA AdoptedStep ==
    ASSUME worker \in Worker,
           worker' = [worker EXCEPT !.pc = "warpProbe", !.tempWarp = "foreign"]
    PROVE  /\ worker' \in Worker
           /\ worker'.op = worker.op
           /\ worker'.pc = "warpProbe"
           /\ worker'.tempWarp = "foreign"
           /\ worker'.ok = worker.ok
  BY DEF Worker, Waits, WarpUse

LEMMA OwnedStep ==
    ASSUME worker \in Worker,
           worker' = [worker EXCEPT !.tempWarp = "own", !.pc = "dialled"]
    PROVE  /\ worker' \in Worker
           /\ worker'.op = worker.op
           /\ worker'.pc = "dialled"
           /\ worker'.tempWarp = "own"
           /\ worker'.ok = worker.ok
  BY DEF Worker, Waits, WarpUse

LEMMA UndoneStep ==
    ASSUME worker \in Worker, NEW b \in BOOLEAN,
           worker' = [worker EXCEPT !.pc = "undoDns", !.ok = @ /\ b]
    PROVE  /\ worker' \in Worker
           /\ worker'.op = worker.op
           /\ worker'.pc = "undoDns"
           /\ worker'.tempWarp = worker.tempWarp
           /\ worker'.ok = (worker.ok /\ b)
<1>1. (worker.ok /\ b) \in BOOLEAN
  BY DEF Worker
<1> QED
  BY <1>1 DEF Worker, Waits

LEMMA CompleteStep ==
    ASSUME worker \in Worker, NEW ok \in BOOLEAN, Complete(ok)
    PROVE  /\ worker' = None
           /\ report' \in Report
           /\ report'.op = worker.op
           /\ report'.ok = ok
           /\ report'.warp = worker.tempWarp
  BY DEF Complete, Worker, Report, Routes, WarpUse

LEMMA WorkerFields ==
    ASSUME NEW w \in Worker
    PROVE  /\ w.op \in {"start", "stop"}
           /\ w.pc \in Waits
           /\ w.previous \in Profiles \cup {None}
           /\ w.todo \subseteq Profiles
           /\ w.tempDns \in BOOLEAN
           /\ w.tempWarp \in WarpUse
           /\ w.ok \in BOOLEAN
  BY DEF Worker

LEMMA DnsFailsTyped ==
    ASSUME TypeOK, NEW s \in Dns, DnsFails(s)
    PROVE  dns' \in Dns /\ late' \subseteq Dns /\ mishap'
<1>1. dns' \in Dns /\ mishap'
  BY DEF TypeOK, DnsFails
<1>2. late' \subseteq Dns
  BY DEF TypeOK, DnsFails
<1> QED
  BY <1>1, <1>2

LEMMA TargetTyped == ASSUME worker \in Worker PROVE Target \in Dns
  BY WorkerFields DEF Target, Dns

-------------------------------------------------------------------------------
(***************************************************************************)
(* The worker: every action keeps the invariant                            *)
(***************************************************************************)
\* A step of a search that leaves WARP alone keeps OwnIsOwn.
LEMMA WarpUntouched ==
    ASSUME IInv, worker \in Worker, worker # None,
           worker' \in Worker, worker'.op = worker.op,
           worker'.tempWarp = worker.tempWarp,
           worker.pc \notin {"dial", "verify", "intent", "dialled", "undoDns"},
           worker'.pc \notin {"dial", "verify", "intent", "dialled", "undoDns"},
           UNCHANGED <<vm, warp, intent, report, meddled, mishap>>
    PROVE  OwnIsOwn' /\ IntentTracksWarp'
<1>1. OwnIsOwn'
  BY NoneAssumption DEF IInv, TypeOK, OwnIsOwn, HungUp
<1>2. IntentTracksWarp'
  BY DEF IInv, IntentTracksWarp, Dialling
<1> QED
  BY <1>1, <1>2

LEMMA BaselineIInv == ASSUME IInv, Baseline PROVE IInv'
<1> USE ProfilesAssumption, NoneAssumption DEF IInv
<1>1. worker \in Worker /\ worker # None
  BY DEF TypeOK, Baseline, At
<1>2. worker' \in Worker \cup {None} /\ report' \in Report \cup {None}
  BY <1>1, WorkerFields, GotoStep, TakeStep, CleanupStep DEF TypeOK, Baseline,
     Waits, Routes, Replies
<1>3. TypeOK'
  BY <1>1, <1>2 DEF TypeOK, Dns, env, hist, Baseline, At
<1>4. BusyTracksWorker'
  BY <1>1, <1>2, GotoStep, TakeStep, CleanupStep DEF BusyTracksWorker, Baseline,
     At, Waits, Routes, Replies
<1>5. OperationMatchesSession'
  BY <1>1, <1>2, GotoStep, TakeStep, CleanupStep DEF OperationMatchesSession,
     BusyTracksWorker, Baseline, At, Waits, Routes, Replies
<1>6. OwnIsOwn'
  BY <1>1, <1>2, GotoStep, TakeStep, CleanupStep DEF OwnIsOwn, HungUp, env,
     hist, Baseline, At, Waits, Routes, Replies
<1>7. DialledOnce'
  BY <1>1, <1>2, GotoStep, TakeStep, CleanupStep DEF DialledOnce, BeforeDialled,
     Baseline, At, Waits, Routes, Replies
<1>8. IntentTracksWarp'
  BY <1>1, <1>2, GotoStep, TakeStep, CleanupStep DEF IntentTracksWarp, Dialling,
     OwnIsOwn, env, hist, Baseline, At, Waits, Routes, Replies
<1> QED
  BY <1>3, <1>4, <1>5, <1>6, <1>7, <1>8

LEMMA RankIInv == ASSUME IInv, Rank PROVE IInv'
<1> USE ProfilesAssumption, NoneAssumption DEF IInv
<1>1. worker \in Worker /\ worker # None
  BY DEF TypeOK, Rank, At
<1>2. worker' \in Worker \cup {None} /\ report' \in Report \cup {None}
  BY <1>1, WorkerFields, CleanupStep, RankedStep DEF TypeOK, Rank, Waits,
     Routes, Replies
<1>3. TypeOK'
  BY <1>1, <1>2 DEF TypeOK, Dns, env, hist, Rank, At
<1>4. BusyTracksWorker'
  BY <1>1, <1>2, CleanupStep, RankedStep DEF BusyTracksWorker, Rank, At, Waits,
     Routes, Replies
<1>5. OperationMatchesSession'
  BY <1>1, <1>2, CleanupStep, RankedStep DEF OperationMatchesSession,
     BusyTracksWorker, Rank, At, Waits, Routes, Replies
<1>6. OwnIsOwn'
  BY <1>1, <1>2, CleanupStep, RankedStep DEF OwnIsOwn, HungUp, env, hist, Rank,
     At, Waits, Routes, Replies
<1>7. DialledOnce'
  BY <1>1, <1>2, CleanupStep, RankedStep DEF DialledOnce, BeforeDialled, Rank,
     At, Waits, Routes, Replies
<1>8. IntentTracksWarp'
  BY <1>1, <1>2, CleanupStep, RankedStep DEF IntentTracksWarp, Dialling,
     OwnIsOwn, env, hist, Rank, At, Waits, Routes, Replies
<1> QED
  BY <1>3, <1>4, <1>5, <1>6, <1>7, <1>8

LEMMA PromptIInv == ASSUME IInv, Prompt PROVE IInv'
<1> USE ProfilesAssumption, NoneAssumption DEF IInv
<1>1. worker \in Worker /\ worker # None
  BY DEF TypeOK, Prompt, At
<1>2. worker' \in Worker \cup {None} /\ report' \in Report \cup {None}
  BY <1>1, WorkerFields, GotoStep DEF TypeOK, Prompt, Waits, Routes, Replies
<1>3. TypeOK'
  BY <1>1, <1>2 DEF TypeOK, Dns, env, hist, Prompt, At
<1>4. BusyTracksWorker'
  BY <1>1, <1>2, GotoStep DEF BusyTracksWorker, Prompt, At, Waits, Routes,
     Replies
<1>5. OperationMatchesSession'
  BY <1>1, <1>2, GotoStep DEF OperationMatchesSession, BusyTracksWorker, Prompt,
     At, Waits, Routes, Replies
<1>6. OwnIsOwn'
  BY <1>1, <1>2, GotoStep DEF OwnIsOwn, HungUp, env, hist, Prompt, At, Waits,
     Routes, Replies
<1>7. DialledOnce'
  BY <1>1, <1>2, GotoStep DEF DialledOnce, BeforeDialled, Prompt, At, Waits,
     Routes, Replies
<1>8. IntentTracksWarp'
  BY <1>1, <1>2, GotoStep DEF IntentTracksWarp, Dialling, OwnIsOwn, env, hist,
     Prompt, At, Waits, Routes, Replies
<1> QED
  BY <1>3, <1>4, <1>5, <1>6, <1>7, <1>8

LEMMA HelperTriesIInv ==
    ASSUME IInv, NEW p \in Profiles, HelperTries(p) PROVE IInv'
<1> USE ProfilesAssumption, NoneAssumption DEF IInv
<1>1. worker \in Worker /\ worker # None
  BY DEF TypeOK, HelperTries, At
<1>2. worker' \in Worker \cup {None} /\ report' \in Report \cup {None}
  BY <1>1, WorkerFields, TriedStep, PickedStep DEF TypeOK, HelperTries, Waits,
     Routes, Replies
<1>3. TypeOK'
  BY <1>1, <1>2 DEF TypeOK, Dns, hist, HelperTries, At
<1>4. BusyTracksWorker'
  BY <1>1, <1>2, TriedStep, PickedStep DEF BusyTracksWorker, HelperTries, At,
     Routes, Replies
<1>5. OperationMatchesSession'
  BY <1>1, <1>2, TriedStep, PickedStep DEF OperationMatchesSession,
     BusyTracksWorker, HelperTries, At, Routes, Replies
<1>6. OwnIsOwn'
  BY <1>1, <1>2, TriedStep, PickedStep DEF OwnIsOwn, HungUp, hist, HelperTries,
     At, Routes, Replies
<1>7. DialledOnce'
  BY <1>1, <1>2, TriedStep, PickedStep DEF DialledOnce, BeforeDialled,
     HelperTries, At, Waits, Routes, Replies
<1>8. IntentTracksWarp'
  BY <1>1, <1>2, TriedStep, PickedStep DEF IntentTracksWarp, Dialling, OwnIsOwn,
     hist, HelperTries, At, Routes, Replies
<1> QED
  BY <1>3, <1>4, <1>5, <1>6, <1>7, <1>8

LEMMA HelperGivesUpIInv == ASSUME IInv, HelperGivesUp PROVE IInv'
<1> USE ProfilesAssumption, NoneAssumption DEF IInv
<1>1. worker \in Worker /\ worker # None
  BY DEF TypeOK, HelperGivesUp, At
<1>2. worker' \in Worker \cup {None} /\ report' \in Report \cup {None}
  BY <1>1, WorkerFields, AnswerStep DEF TypeOK, HelperGivesUp, Waits, Routes,
     Replies
<1>3. TypeOK'
  BY <1>1, <1>2 DEF TypeOK, Dns, HelperGivesUp, At
<1>4. BusyTracksWorker'
  BY <1>1, <1>2, AnswerStep DEF BusyTracksWorker, HelperGivesUp, At, Routes,
     Replies
<1>5. OperationMatchesSession'
  BY <1>1, <1>2, AnswerStep DEF OperationMatchesSession, HelperGivesUp, At,
     Routes, Replies
<1>6. OwnIsOwn'
  BY <1>1, <1>2, AnswerStep DEF OwnIsOwn, HungUp, HelperGivesUp, At, Routes,
     Replies
<1>7. DialledOnce'
  BY <1>1, <1>2, AnswerStep DEF DialledOnce, BeforeDialled, HelperGivesUp, At,
     Waits, Routes, Replies
<1>8. IntentTracksWarp'
  BY <1>1, <1>2, AnswerStep DEF IntentTracksWarp, Dialling, OwnIsOwn,
     HelperGivesUp, At, Routes, Replies
<1> QED
  BY <1>3, <1>4, <1>5, <1>6, <1>7, <1>8

LEMMA BatchTimesOutIInv == ASSUME IInv, BatchTimesOut PROVE IInv'
<1> USE ProfilesAssumption, NoneAssumption DEF IInv
<1>1. worker \in Worker /\ worker # None
  BY DEF TypeOK, BatchTimesOut, At
<1>2. worker' \in Worker \cup {None} /\ report' \in Report \cup {None}
  BY <1>1, WorkerFields, AnswerStep DEF TypeOK, BatchTimesOut, Waits, Routes,
     Replies
<1>3. TypeOK'
  BY <1>1, <1>2, WorkerFields DEF TypeOK, Dns, BatchTimesOut, At
<1>4. BusyTracksWorker'
  BY <1>1, <1>2, AnswerStep DEF BusyTracksWorker, BatchTimesOut, At, Routes,
     Replies
<1>5. OperationMatchesSession'
  BY <1>1, <1>2, AnswerStep DEF OperationMatchesSession, BatchTimesOut, At,
     Routes, Replies
<1>6. OwnIsOwn'
  BY <1>1, <1>2, AnswerStep DEF OwnIsOwn, HungUp, BatchTimesOut, At
<1>7. DialledOnce'
  BY <1>1, <1>2, AnswerStep DEF DialledOnce, BeforeDialled, BatchTimesOut, At,
     Waits, Routes, Replies
<1>8. IntentTracksWarp'
  BY <1>1, <1>2, AnswerStep DEF IntentTracksWarp, Dialling, OwnIsOwn,
     BatchTimesOut, At
<1> QED
  BY <1>3, <1>4, <1>5, <1>6, <1>7, <1>8

LEMMA AnsweredIInv == ASSUME IInv, Answered PROVE IInv'
<1> USE ProfilesAssumption, NoneAssumption DEF IInv
<1>1. worker \in Worker /\ worker # None
  BY DEF TypeOK, Answered, At
<1>2. worker' \in Worker \cup {None} /\ report' \in Report \cup {None}
  BY <1>1, WorkerFields, GotoStep, TakeStep, CleanupStep, StoppedStep DEF
     TypeOK, Answered, Waits, Routes, Replies
<1>3. TypeOK'
  BY <1>1, <1>2 DEF TypeOK, Dns, env, hist, Answered, At
<1>4. BusyTracksWorker'
  BY <1>1, <1>2, GotoStep, TakeStep, CleanupStep, StoppedStep DEF
     BusyTracksWorker, Answered, At, Waits, Routes, Replies
<1>5. OperationMatchesSession'
  BY <1>1, <1>2, GotoStep, TakeStep, CleanupStep, StoppedStep DEF
     OperationMatchesSession, BusyTracksWorker, Answered, At, Waits, Routes,
     Replies
<1>6. OwnIsOwn'
  BY <1>1, <1>2, GotoStep, TakeStep, CleanupStep, StoppedStep DEF OwnIsOwn,
     HungUp, env, hist, Answered, At, Waits, Routes, Replies
<1>7. DialledOnce'
  BY <1>1, <1>2, GotoStep, TakeStep, CleanupStep, StoppedStep DEF DialledOnce,
     BeforeDialled, Answered, At, Waits, Routes, Replies
<1>8. IntentTracksWarp'
  BY <1>1, <1>2, GotoStep, TakeStep, CleanupStep, StoppedStep DEF
     IntentTracksWarp, Dialling, OwnIsOwn, env, hist, Answered, At, Waits,
     Routes, Replies
<1> QED
  BY <1>3, <1>4, <1>5, <1>6, <1>7, <1>8

LEMMA TryIInv == ASSUME IInv, Try PROVE IInv'
<1> USE ProfilesAssumption, NoneAssumption DEF IInv
<1>1. worker \in Worker /\ worker # None
  BY DEF TypeOK, Try, At
<1>2. worker' \in Worker \cup {None} /\ report' \in Report \cup {None}
  BY <1>1, WorkerFields, GotoStep, CleanupStep, AppliedStep, SkippedStep DEF
     TypeOK, Try, Waits, Routes, Replies
<1>3. TypeOK'
  <2>1. dns' \in Dns
    <3>1. \A p \in worker.todo : p \in Dns
      BY <1>1, WorkerFields DEF Dns
    <3> QED
      BY <3>1 DEF TypeOK, Try, DnsFails
  <2>2. late' \subseteq Dns
    <3>1. \A p \in worker.todo : p \in Dns
      BY <1>1, WorkerFields DEF Dns
    <3>2. CASE late' = late
      BY <3>2 DEF TypeOK
    <3>3. CASE \E p \in worker.todo : DnsFails(p)
      BY <3>1, <3>3 DEF TypeOK, DnsFails
    <3> QED
      BY <3>2, <3>3 DEF Try
  <2> QED
    BY <1>1, <1>2, <2>1, <2>2 DEF TypeOK, hist, Try, DnsFails
<1>4. BusyTracksWorker'
  BY <1>1, <1>2, WorkerFields, GotoStep, CleanupStep, AppliedStep, SkippedStep
     DEF BusyTracksWorker, hist, Try, At, DnsFails, Waits, Routes, Replies
<1>5. OperationMatchesSession'
  BY <1>1, <1>2, WorkerFields, GotoStep, CleanupStep, AppliedStep, SkippedStep
     DEF OperationMatchesSession, BusyTracksWorker, hist, Try, At, DnsFails,
     Waits, Routes, Replies
<1>6. OwnIsOwn' /\ IntentTracksWarp'
  <2> USE DEF Waits
  <2>1. worker.pc = "try" /\ UNCHANGED <<vm, warp, intent, report, meddled>>
    BY DEF Try, At
  <2>2. CASE Goto(IF worker.tempDns THEN "putback" ELSE "warp") /\ UNCHANGED mishap
    <3>1. PICK pc \in {"putback", "warp"} : Goto(pc)
      BY <2>2
    <3> QED
      BY <1>1, <2>1, <2>2, <3>1, GotoStep, WarpUntouched
  <2>3. CASE Cleanup(TRUE) /\ UNCHANGED mishap
    BY <1>1, <2>1, <2>3, CleanupStep, WarpUntouched
  <2>4. CASE \E p \in worker.todo : DnsFails(p)
    BY <2>4 DEF DnsFails, OwnIsOwn, IntentTracksWarp
  <2>5. ASSUME NEW p \in worker.todo,
               worker' = [worker EXCEPT
                  !.pc = "probe", !.chosen = p, !.todo = @ \ {p},
                  !.tempDns = @ \/ ~(vm.connected /\ vm.profile = p)],
               UNCHANGED mishap
        PROVE  OwnIsOwn' /\ IntentTracksWarp'
    <3>1. p \in Profiles
      BY <1>1, WorkerFields
    <3>2. /\ worker' \in Worker
          /\ worker'.op = worker.op
          /\ worker'.pc = "probe"
          /\ worker'.tempWarp = worker.tempWarp
      BY ONLY <1>1, <2>5, <3>1, AppliedStep
    <3> QED
      BY <1>1, <2>1, <2>5, <3>2, WarpUntouched
  <2> QED
    BY <2>2, <2>3, <2>4, <2>5 DEF Try
<1>7. DialledOnce'
  BY <1>1, <1>2, WorkerFields, GotoStep, CleanupStep, AppliedStep, SkippedStep
     DEF DialledOnce, BeforeDialled, Try, At, DnsFails, Waits, Routes, Replies
<1> QED
  BY <1>3, <1>4, <1>5, <1>6, <1>7

LEMMA ProbeIInv == ASSUME IInv, Probe PROVE IInv'
<1> USE ProfilesAssumption, NoneAssumption DEF IInv
<1>1. worker \in Worker /\ worker # None
  BY DEF TypeOK, Probe, At
<1>2. worker' \in Worker \cup {None} /\ report' \in Report \cup {None}
  BY <1>1, WorkerFields, GotoStep, TakeStep, CleanupStep DEF TypeOK, Probe,
     Waits, Routes, Replies
<1>3. TypeOK'
  BY <1>1, <1>2 DEF TypeOK, Dns, env, hist, Probe, At
<1>4. BusyTracksWorker'
  BY <1>1, <1>2, GotoStep, TakeStep, CleanupStep DEF BusyTracksWorker, Probe,
     At, Waits, Routes, Replies
<1>5. OperationMatchesSession'
  BY <1>1, <1>2, GotoStep, TakeStep, CleanupStep DEF OperationMatchesSession,
     BusyTracksWorker, Probe, At, Waits, Routes, Replies
<1>6. OwnIsOwn'
  BY <1>1, <1>2, GotoStep, TakeStep, CleanupStep DEF OwnIsOwn, HungUp, env,
     hist, Probe, At, Waits, Routes, Replies
<1>7. DialledOnce'
  BY <1>1, <1>2, GotoStep, TakeStep, CleanupStep DEF DialledOnce, BeforeDialled,
     Probe, At, Waits, Routes, Replies
<1>8. IntentTracksWarp'
  BY <1>1, <1>2, GotoStep, TakeStep, CleanupStep DEF IntentTracksWarp, Dialling,
     OwnIsOwn, env, hist, Probe, At, Waits, Routes, Replies
<1> QED
  BY <1>3, <1>4, <1>5, <1>6, <1>7, <1>8

LEMMA PutBackIInv == ASSUME IInv, PutBack PROVE IInv'
<1> USE ProfilesAssumption, NoneAssumption DEF IInv
<1>1. worker \in Worker /\ worker # None
  BY DEF TypeOK, PutBack, At
<1>2. worker' \in Worker \cup {None} /\ report' \in Report \cup {None}
  BY <1>1, WorkerFields, CleanupStep, RestoredStep DEF TypeOK, PutBack, Waits,
     Routes, Replies
<1>3. TypeOK'
  <2>1. dns' \in Dns /\ late' \subseteq Dns
    BY <1>1, TargetTyped, DnsFailsTyped DEF TypeOK, PutBack
  <2>2. mishap' \in BOOLEAN
    BY DEF TypeOK, PutBack, DnsFails
  <2> QED
    BY <1>1, <1>2, <2>1, <2>2 DEF TypeOK, PutBack
<1>4. BusyTracksWorker'
  BY <1>1, <1>2, CleanupStep, RestoredStep DEF BusyTracksWorker, PutBack, At,
     DnsFails, Routes, Replies
<1>5. OperationMatchesSession'
  BY <1>1, <1>2, CleanupStep, RestoredStep DEF OperationMatchesSession,
     BusyTracksWorker, PutBack, At, DnsFails, Routes, Replies
<1>6. OwnIsOwn' /\ IntentTracksWarp'
  <2>1. worker.pc = "putback" /\ UNCHANGED <<vm, warp, intent, report, meddled>>
    BY DEF PutBack, At
  <2>2. CASE DnsFails(Target)
    BY <2>2 DEF DnsFails, OwnIsOwn, IntentTracksWarp
  <2>3. ASSUME worker' = [worker EXCEPT !.tempDns = FALSE, !.pc = "warp"],
               UNCHANGED mishap
        PROVE  OwnIsOwn' /\ IntentTracksWarp'
    BY <1>1, <2>1, <2>3, RestoredStep, WarpUntouched
  <2> QED
    BY <2>2, <2>3 DEF PutBack
<1>7. DialledOnce'
  BY <1>1, <1>2, CleanupStep, RestoredStep DEF DialledOnce, BeforeDialled,
     PutBack, At, DnsFails, Waits, Routes, Replies
<1> QED
  BY <1>3, <1>4, <1>5, <1>6, <1>7

LEMMA TryWarpIInv == ASSUME IInv, TryWarp PROVE IInv'
<1> USE ProfilesAssumption, NoneAssumption DEF IInv
<1>1. worker \in Worker /\ worker # None
  BY DEF TypeOK, TryWarp, At
<1>2. worker' \in Worker \cup {None} /\ report' \in Report \cup {None}
  BY <1>1, WorkerFields, GotoStep, CleanupStep, GiveUpStep, AdoptedStep DEF
     TypeOK, TryWarp, Waits, Routes, Replies
<1>3. TypeOK'
  BY <1>1, <1>2 DEF TypeOK, Dns, env, hist, TryWarp, At
<1>4. BusyTracksWorker'
  BY <1>1, <1>2, GotoStep, CleanupStep, GiveUpStep, AdoptedStep DEF
     BusyTracksWorker, TryWarp, At, Waits, Routes, Replies
<1>5. OperationMatchesSession'
  BY <1>1, <1>2, GotoStep, CleanupStep, GiveUpStep, AdoptedStep DEF
     OperationMatchesSession, BusyTracksWorker, TryWarp, At, Waits, Routes,
     Replies
<1>6. OwnIsOwn'
  BY <1>1, <1>2, GotoStep, CleanupStep, GiveUpStep, AdoptedStep DEF OwnIsOwn,
     HungUp, env, hist, TryWarp, At, Waits, Routes, Replies
<1>7. DialledOnce'
  BY <1>1, <1>2, GotoStep, CleanupStep, GiveUpStep, AdoptedStep DEF DialledOnce,
     BeforeDialled, TryWarp, At, Waits, Routes, Replies
<1>8. IntentTracksWarp'
  BY <1>1, <1>2, GotoStep, CleanupStep, GiveUpStep, AdoptedStep DEF
     IntentTracksWarp, Dialling, OwnIsOwn, env, hist, TryWarp, At, Routes,
     Replies
<1> QED
  BY <1>3, <1>4, <1>5, <1>6, <1>7, <1>8

LEMMA DialIInv == ASSUME IInv, Dial PROVE IInv'
<1> USE ProfilesAssumption, NoneAssumption DEF IInv
<1>1. worker \in Worker /\ worker # None
  BY DEF TypeOK, Dial, At
<1>2. worker' \in Worker \cup {None} /\ report' \in Report \cup {None}
  BY <1>1, WorkerFields, GotoStep DEF TypeOK, Dial, Waits, Routes, Replies
<1>3. TypeOK'
  BY <1>1, <1>2 DEF TypeOK, Dns, Dial, At
<1>4. BusyTracksWorker'
  BY <1>1, <1>2, GotoStep DEF BusyTracksWorker, Dial, At, Waits, Routes, Replies
<1>5. OperationMatchesSession'
  BY <1>1, <1>2, GotoStep DEF OperationMatchesSession, Dial, At, Waits, Routes,
     Replies
<1>6. OwnIsOwn'
  <2>1. /\ worker.pc = "dial" /\ UNCHANGED <<vm, report, meddled>>
        /\ UNCHANGED mishap \/ mishap'
    BY DEF Dial, At
  <2>2. CASE Goto("verify") /\ warp' = "app" /\ UNCHANGED mishap
    BY <1>1, <2>1, <2>2, GotoStep, WorkerFields DEF OwnIsOwn, HungUp, TypeOK,
       Waits
  <2>3. CASE mishap'
    BY <2>3 DEF OwnIsOwn
  <2>4. CASE Goto("dialled") /\ warp' = "off" /\ UNCHANGED mishap
    <3>1. worker.op = "start" /\ vm.session = None
      BY <1>1, <2>1, WorkerFields DEF OperationMatchesSession
    <3>2. worker.tempWarp = "none"
      BY <1>1, <2>1 DEF DialledOnce, BeforeDialled, Waits
    <3> QED
      BY <1>1, <2>1, <2>4, <3>1, <3>2, GotoStep DEF OwnIsOwn, HungUp, TypeOK,
         Waits, BusyTracksWorker
  <2> QED
    BY <2>2, <2>3, <2>4 DEF Dial
<1>7. DialledOnce'
  BY <1>1, <1>2, GotoStep DEF DialledOnce, BeforeDialled, Dial, At, Waits,
     Routes, Replies
<1>8. IntentTracksWarp'
  BY <1>1, <1>2, GotoStep DEF IntentTracksWarp, Dialling, OwnIsOwn, Dial, At,
     Waits, Routes, Replies
<1> QED
  BY <1>3, <1>4, <1>5, <1>6, <1>7, <1>8

LEMMA VerifyIInv == ASSUME IInv, Verify PROVE IInv'
<1> USE ProfilesAssumption, NoneAssumption DEF IInv
<1>1. worker \in Worker /\ worker # None
  BY DEF TypeOK, Verify, At
<1>2. worker' \in Worker \cup {None} /\ report' \in Report \cup {None}
  BY <1>1, WorkerFields, GotoStep DEF TypeOK, Verify, Waits, Routes, Replies
<1>3. TypeOK'
  BY <1>1, <1>2 DEF TypeOK, Dns, env, hist, Verify, At
<1>4. BusyTracksWorker'
  BY <1>1, <1>2, GotoStep DEF BusyTracksWorker, Verify, At, Waits, Routes,
     Replies
<1>5. OperationMatchesSession'
  BY <1>1, <1>2, GotoStep DEF OperationMatchesSession, BusyTracksWorker, Verify,
     At, Waits, Routes, Replies
<1>6. OwnIsOwn'
  BY <1>1, <1>2, GotoStep DEF OwnIsOwn, HungUp, env, hist, Verify, At, Routes,
     Replies
<1>7. DialledOnce'
  BY <1>1, <1>2, GotoStep DEF DialledOnce, BeforeDialled, Verify, At, Waits,
     Routes, Replies
<1>8. IntentTracksWarp'
  BY <1>1, <1>2, GotoStep DEF IntentTracksWarp, Dialling, OwnIsOwn, env, hist,
     Verify, At, Waits, Routes, Replies
<1> QED
  BY <1>3, <1>4, <1>5, <1>6, <1>7, <1>8

LEMMA SetIntentIInv == ASSUME IInv, SetIntent PROVE IInv'
<1> USE ProfilesAssumption, NoneAssumption DEF IInv
<1>1. worker \in Worker /\ worker # None
  BY DEF TypeOK, SetIntent, At
<1>2. worker' \in Worker \cup {None} /\ report' \in Report \cup {None}
  BY <1>1, WorkerFields, OwnedStep DEF TypeOK, SetIntent, Waits, Routes, Replies
<1>3. TypeOK'
  BY <1>1, <1>2 DEF TypeOK, Dns, SetIntent, At
<1>4. BusyTracksWorker'
  BY <1>1, <1>2, OwnedStep DEF BusyTracksWorker, SetIntent, At, Routes, Replies
<1>5. OperationMatchesSession'
  BY <1>1, <1>2, OwnedStep DEF OperationMatchesSession, SetIntent, At, Routes,
     Replies
<1>6. OwnIsOwn'
  BY <1>1, <1>2, OwnedStep DEF OwnIsOwn, HungUp, SetIntent, At, Routes, Replies
<1>7. DialledOnce'
  BY <1>1, <1>2, OwnedStep DEF DialledOnce, BeforeDialled, SetIntent, At,
     Routes, Replies
<1>8. IntentTracksWarp'
  BY <1>1, <1>2, OwnedStep DEF IntentTracksWarp, Dialling, OwnIsOwn, SetIntent,
     At, Routes, Replies
<1> QED
  BY <1>3, <1>4, <1>5, <1>6, <1>7, <1>8

LEMMA DialledIInv == ASSUME IInv, Dialled PROVE IInv'
<1> USE ProfilesAssumption, NoneAssumption DEF IInv
<1>1. worker \in Worker /\ worker # None
  BY DEF TypeOK, Dialled, At
<1>2. worker' \in Worker \cup {None} /\ report' \in Report \cup {None}
  BY <1>1, WorkerFields, GotoStep, CleanupStep, GiveUpStep DEF TypeOK, Dialled,
     Waits, Routes, Replies
<1>3. TypeOK'
  BY <1>1, <1>2 DEF TypeOK, Dns, env, hist, Dialled, At
<1>4. BusyTracksWorker'
  BY <1>1, <1>2, GotoStep, CleanupStep, GiveUpStep DEF BusyTracksWorker,
     Dialled, At, Waits, Routes, Replies
<1>5. OperationMatchesSession'
  BY <1>1, <1>2, GotoStep, CleanupStep, GiveUpStep DEF OperationMatchesSession,
     BusyTracksWorker, Dialled, At, Waits, Routes, Replies
<1>6. OwnIsOwn'
  BY <1>1, <1>2, GotoStep, CleanupStep, GiveUpStep DEF OwnIsOwn, HungUp, env,
     hist, Dialled, At, Routes, Replies
<1>7. DialledOnce'
  BY <1>1, <1>2, GotoStep, CleanupStep, GiveUpStep DEF DialledOnce,
     BeforeDialled, Dialled, At, Waits, Routes, Replies
<1>8. IntentTracksWarp'
  BY <1>1, <1>2, GotoStep, CleanupStep, GiveUpStep DEF IntentTracksWarp,
     Dialling, OwnIsOwn, env, hist, Dialled, At, Waits, Routes, Replies
<1> QED
  BY <1>3, <1>4, <1>5, <1>6, <1>7, <1>8

LEMMA WarpProbeIInv == ASSUME IInv, WarpProbe PROVE IInv'
<1> USE ProfilesAssumption, NoneAssumption DEF IInv
<1>1. worker \in Worker /\ worker # None
  BY DEF TypeOK, WarpProbe, At
<1>2. worker' \in Worker \cup {None} /\ report' \in Report \cup {None}
  BY <1>1, WorkerFields, TakeStep, GiveUpStep DEF TypeOK, WarpProbe, Waits,
     Routes, Replies
<1>3. TypeOK'
  BY <1>1, <1>2 DEF TypeOK, Dns, WarpProbe, At, HangUp
<1>4. BusyTracksWorker'
  BY <1>1, <1>2, TakeStep, GiveUpStep DEF BusyTracksWorker, WarpProbe, At,
     HangUp, Routes, Replies
<1>5. OperationMatchesSession'
  BY <1>1, <1>2, TakeStep, GiveUpStep DEF OperationMatchesSession,
     BusyTracksWorker, WarpProbe, At, HangUp, Routes, Replies
<1>6. OwnIsOwn'
  <2>1. worker.pc = "warpProbe" /\ UNCHANGED <<vm, report, meddled>>
    BY DEF WarpProbe, At
  <2>2. CASE Take("warp") /\ UNCHANGED <<warp, intent, mishap>>
    BY <1>1, <2>1, <2>2, TakeStep, WarpUntouched DEF Routes
  <2>3. CASE GiveUp /\ mishap'
    BY <2>3 DEF OwnIsOwn
  <2>4. CASE GiveUp /\ UNCHANGED mishap
    BY <1>1, <2>1, <2>4, GiveUpStep, WorkerFields DEF OwnIsOwn, HungUp,
       OperationMatchesSession, BusyTracksWorker
  <2> QED
    BY <2>2, <2>3, <2>4 DEF WarpProbe, HangUp
<1>7. DialledOnce'
  BY <1>1, <1>2, TakeStep, GiveUpStep DEF DialledOnce, BeforeDialled, WarpProbe,
     At, HangUp, Routes, Replies
<1>8. IntentTracksWarp'
  <2>1. worker.pc = "warpProbe" /\ UNCHANGED meddled
    BY DEF WarpProbe, At
  <2>2. CASE mishap'
    BY <2>2 DEF IntentTracksWarp
  <2>3. worker'.pc \in {"conclude", "undoWarp"}
    BY <1>1, TakeStep, GiveUpStep DEF WarpProbe, Routes
  <2>4. CASE UNCHANGED <<warp, intent, mishap>>
    BY <2>1, <2>3, <2>4 DEF IntentTracksWarp, Dialling
  <2>5. CASE warp' = "off" /\ intent' = FALSE
    BY <2>5 DEF IntentTracksWarp
  <2> QED
    BY <2>2, <2>4, <2>5 DEF WarpProbe, HangUp
<1> QED
  BY <1>3, <1>4, <1>5, <1>6, <1>7, <1>8

LEMMA ConcludeIInv == ASSUME IInv, Conclude PROVE IInv'
<1> USE ProfilesAssumption, NoneAssumption DEF IInv
<1>1. worker \in Worker /\ worker # None
  BY DEF TypeOK, Conclude, At
<1>2. worker' \in Worker \cup {None} /\ report' \in Report \cup {None}
  BY <1>1, WorkerFields, CleanupStep, CompleteStep DEF TypeOK, Conclude, Waits,
     Routes, Replies
<1>3. TypeOK'
  BY <1>1, <1>2 DEF TypeOK, Dns, env, Conclude, At
<1>4. BusyTracksWorker'
  BY <1>1, <1>2, CleanupStep, CompleteStep DEF BusyTracksWorker, Conclude, At,
     Routes, Replies
<1>5. OperationMatchesSession'
  BY <1>1, <1>2, CleanupStep, CompleteStep DEF OperationMatchesSession,
     Conclude, At, Routes, Replies
<1>6. OwnIsOwn'
  <2>1. worker.pc = "conclude" /\ UNCHANGED <<vm, warp, meddled>>
    BY DEF Conclude, At, env
  <2>2. CASE Complete(TRUE) /\ UNCHANGED mishap
    BY <1>1, <2>1, <2>2, CompleteStep, WorkerFields DEF OwnIsOwn, HungUp,
       OperationMatchesSession
  <2>3. CASE mishap'
    BY <2>3 DEF OwnIsOwn
  <2> QED
    BY <2>2, <2>3 DEF Conclude
<1>7. DialledOnce'
  BY <1>1, <1>2, CleanupStep, CompleteStep DEF DialledOnce, BeforeDialled,
     Conclude, At, Routes, Replies
<1>8. IntentTracksWarp'
  <2>1. worker.pc = "conclude" /\ UNCHANGED <<warp, intent, meddled>>
    BY DEF Conclude, At, env
  <2>2. CASE mishap'
    BY <2>2 DEF IntentTracksWarp
  <2>3. CASE Complete(TRUE) /\ UNCHANGED mishap
    BY <1>1, <2>1, <2>3, CompleteStep DEF IntentTracksWarp, Dialling
  <2> QED
    BY <2>2, <2>3 DEF Conclude
<1> QED
  BY <1>3, <1>4, <1>5, <1>6, <1>7, <1>8

LEMMA UndoWarpIInv == ASSUME IInv, UndoWarp PROVE IInv'
<1> USE ProfilesAssumption, NoneAssumption DEF IInv
<1>1. worker \in Worker /\ worker # None
  BY DEF TypeOK, UndoWarp, At
<1>2. worker' \in Worker \cup {None} /\ report' \in Report \cup {None}
  BY <1>1, WorkerFields, UndoneStep DEF TypeOK, UndoWarp, Waits, Routes, Replies
<1>3. TypeOK'
  BY <1>1, <1>2 DEF TypeOK, Dns, UndoWarp, At, HangUp
<1>4. BusyTracksWorker'
  BY <1>1, <1>2, UndoneStep DEF BusyTracksWorker, UndoWarp, At, HangUp, Routes,
     Replies
<1>5. OperationMatchesSession'
  <2>1. PICK ok \in BOOLEAN :
              /\ HangUp(worker.tempWarp = "own", ok)
              /\ worker' = [worker EXCEPT !.pc = "undoDns", !.ok = @ /\ ok]
    BY DEF UndoWarp
  <2>2. /\ worker' \in Worker
        /\ worker'.op = worker.op
        /\ worker'.pc = "undoDns"
        /\ worker'.tempWarp = worker.tempWarp
        /\ worker'.ok = (worker.ok /\ ok)
    BY ONLY <1>1, <2>1, UndoneStep
  <2>3. (ok \/ mishap') /\ (mishap => mishap')
    BY <2>1 DEF HangUp, TypeOK
  <2> QED
    BY <1>1, <2>2, <2>3, WorkerFields DEF UndoWarp, At, OperationMatchesSession,
       BusyTracksWorker
<1>6. OwnIsOwn'
  BY <1>1, <1>2, WorkerFields, UndoneStep DEF OwnIsOwn, HungUp,
     OperationMatchesSession, BusyTracksWorker, env, hist, UndoWarp, At, HangUp,
     Routes, Replies
<1>7. DialledOnce'
  BY <1>1, <1>2, UndoneStep DEF DialledOnce, BeforeDialled, UndoWarp, At,
     HangUp, Routes, Replies
<1>8. IntentTracksWarp'
  <2>1. worker.pc = "undoWarp" /\ UNCHANGED meddled
    BY DEF UndoWarp, At
  <2>2. CASE mishap'
    BY <2>2 DEF IntentTracksWarp
  <2>3. worker'.pc = "undoDns"
    BY <1>1, UndoneStep DEF UndoWarp
  <2>4. CASE UNCHANGED <<warp, intent, mishap>>
    BY <2>1, <2>3, <2>4 DEF IntentTracksWarp, Dialling
  <2>5. CASE warp' = "off" /\ intent' = FALSE
    BY <2>5 DEF IntentTracksWarp
  <2> QED
    BY <2>2, <2>4, <2>5 DEF UndoWarp, HangUp
<1> QED
  BY <1>3, <1>4, <1>5, <1>6, <1>7, <1>8

LEMMA UndoDnsIInv == ASSUME IInv, UndoDns PROVE IInv'
<1> USE ProfilesAssumption, NoneAssumption DEF IInv
<1>1. worker \in Worker /\ worker # None
  BY DEF TypeOK, UndoDns, At
<1>2. worker' \in Worker \cup {None} /\ report' \in Report \cup {None}
  BY <1>1, WorkerFields, CompleteStep DEF UndoDns, Waits, Routes, Replies
<1>3. TypeOK'
  <2>1. dns' \in Dns /\ late' \subseteq Dns
    BY <1>1, TargetTyped, DnsFailsTyped DEF TypeOK, UndoDns
  <2>2. mishap' \in BOOLEAN
    BY DEF TypeOK, UndoDns, DnsFails
  <2> QED
    BY <1>1, <1>2, <2>1, <2>2 DEF TypeOK, UndoDns
<1>4. BusyTracksWorker'
  BY <1>1, <1>2, WorkerFields, CompleteStep DEF BusyTracksWorker, hist, UndoDns,
     At, DnsFails, Routes, Replies
<1>5. OperationMatchesSession'
  <2>1. CASE Complete(worker.ok) /\ UNCHANGED mishap
    BY <1>1, <2>1, CompleteStep, WorkerFields DEF UndoDns, At,
       OperationMatchesSession, BusyTracksWorker
  <2>2. CASE Complete(FALSE) /\ mishap' = TRUE
    BY <1>1, <2>2, CompleteStep, WorkerFields DEF UndoDns, At,
       OperationMatchesSession, BusyTracksWorker
  <2> QED
    BY <2>1, <2>2 DEF UndoDns, DnsFails
<1>6. OwnIsOwn'
  <2>1. worker.pc = "undoDns" /\ UNCHANGED <<vm, warp, meddled>>
    BY DEF UndoDns, At
  <2>2. CASE mishap'
    BY <2>2 DEF OwnIsOwn
  <2>3. CASE Complete(worker.ok) /\ UNCHANGED mishap
    <3>1. /\ worker' = None /\ report'.op = worker.op
          /\ report'.ok = worker.ok /\ report'.warp = worker.tempWarp
      BY <1>1, <2>3, CompleteStep, WorkerFields
    <3>2. CASE worker.op = "start"
      <4>1. ~report'.ok /\ vm'.session = None
        BY <1>1, <2>1, <3>1, <3>2 DEF OperationMatchesSession
      <4> QED
        BY <3>1, <4>1 DEF OwnIsOwn
    <3>3. CASE worker.op = "stop"
      <4>1. report' # None /\ report'.op = "stop"
        BY <1>1, <2>3, <3>1, <3>3, CompleteStep, WorkerFields
      <4> QED
        BY <3>1, <4>1 DEF OwnIsOwn, HungUp
    <3> QED
      BY <1>1, <3>2, <3>3, WorkerFields
  <2> QED
    BY <2>2, <2>3 DEF UndoDns, DnsFails
<1>7. DialledOnce'
  BY <1>1, <1>2, WorkerFields, CompleteStep DEF DialledOnce, BeforeDialled,
     UndoDns, At, DnsFails, Routes, Replies
<1>8. IntentTracksWarp'
  <2>1. worker.pc = "undoDns" /\ UNCHANGED <<warp, intent, meddled>>
    BY DEF UndoDns, At
  <2>2. CASE mishap'
    BY <2>2 DEF IntentTracksWarp
  <2>3. CASE Complete(worker.ok) /\ UNCHANGED mishap
    BY <1>1, <2>1, <2>3, CompleteStep, WorkerFields DEF IntentTracksWarp,
       Dialling
  <2> QED
    BY <2>2, <2>3 DEF UndoDns, DnsFails
<1> QED
  BY <1>3, <1>4, <1>5, <1>6, <1>7, <1>8

-------------------------------------------------------------------------------
(***************************************************************************)
(* The GUI thread and the environment                                      *)
(***************************************************************************)
LEMMA VmFields ==
    ASSUME NEW v \in ViewModel
    PROVE  /\ v.up \in BOOLEAN
           /\ v.busy \in BOOLEAN
           /\ v.connected \in BOOLEAN
           /\ v.profile \in Profiles \cup {None}
           /\ v.session \in Report \cup {None}
           /\ v.seen \in BOOLEAN
           /\ v.cancelled \in BOOLEAN
  BY DEF ViewModel

LEMMA SearchWorker ==
    ASSUME NEW previous \in Profiles \cup {None},
           worker' = NewWorker("start", "baseline", previous)
    PROVE  /\ worker' \in Worker
           /\ worker'.op = "start"
           /\ worker'.pc = "baseline"
           /\ worker'.tempWarp = "none"
  BY DEF NewWorker, Worker, Waits, Replies, Routes, WarpUse

LEMMA StoppingWorker ==
    ASSUME vm.session \in Report, worker' = StopWorker
    PROVE  /\ worker' \in Worker
           /\ worker'.op = "stop"
           /\ worker'.pc = "undoWarp"
           /\ worker'.tempWarp = vm.session.warp
           /\ worker'.ok
<1>1. /\ vm.session.previous \in Profiles \cup {None}
      /\ vm.session.route \in Routes
      /\ vm.session.dnsChanged \in BOOLEAN
      /\ vm.session.warp \in WarpUse
  BY DEF Report
<1> QED
  BY <1>1 DEF StopWorker, NewWorker, Worker, Waits, Replies, Routes, WarpUse

\* What the transition on a completion leaves in the view-model.
LEMMA CompletedVm ==
    ASSUME vm \in ViewModel, report \in Report, OnCompleted
    PROVE  /\ vm' \in ViewModel
           /\ vm'.up = vm.up
           /\ ~vm'.busy
           /\ vm'.session = IF ~report.ok THEN vm.session
                            ELSE IF report.op = "start" THEN report ELSE None
<1>1. /\ Idle \in ViewModel
      /\ Idle.up = vm.up /\ ~Idle.busy
      /\ Idle.session = vm.session
      /\ Idle.connected \in BOOLEAN
      /\ Idle.profile \in Profiles \cup {None}
  <2>1. Idle \in ViewModel
    BY DEF Idle, ViewModel
  <2>2. Idle.up = vm.up /\ ~Idle.busy /\ Idle.session = vm.session
    BY DEF Idle, ViewModel
  <2> QED
    BY <2>1, <2>2, VmFields
<1>2. /\ report.name \in Profiles \cup {None}
      /\ report.previous \in Profiles \cup {None}
      /\ report.op \in {"start", "stop"}
      /\ report.ok \in BOOLEAN
  BY DEF Report
<1>3. /\ SessionStarted \in ViewModel
      /\ SessionStarted.up = vm.up
      /\ ~SessionStarted.busy
      /\ SessionStarted.session = report
  <2>1. /\ (Idle.connected \/ report.route = "dns") \in BOOLEAN
        /\ (IF report.route = "dns" THEN report.name ELSE Idle.profile)
              \in Profiles \cup {None}
    BY <1>1, <1>2
  <2>2. SessionStarted \in ViewModel
    BY <1>1, <2>1 DEF SessionStarted, ViewModel
  <2>3. /\ SessionStarted.up = Idle.up /\ SessionStarted.busy = Idle.busy
        /\ SessionStarted.session = report
    BY <1>1 DEF SessionStarted, ViewModel
  <2> QED
    BY <1>1, <2>2, <2>3
<1>4. /\ SessionStopped \in ViewModel
      /\ SessionStopped.up = vm.up
      /\ ~SessionStopped.busy
      /\ SessionStopped.session = None
  BY <1>1, <1>2 DEF SessionStopped, ViewModel
<1>5. CASE report.ok /\ report.op = "start"
  BY <1>3, <1>5 DEF OnCompleted
<1>6. CASE report.ok /\ report.op = "stop"
  BY <1>4, <1>6 DEF OnCompleted
<1>7. CASE ~report.ok
  BY <1>1, <1>7 DEF OnCompleted
<1> QED
  BY <1>2, <1>5, <1>6, <1>7

LEMMA InitIInv == Init => IInv
<1> SUFFICES ASSUME Init PROVE IInv
  OBVIOUS
<1> USE ProfilesAssumption, NoneAssumption DEF Init
<1>1. TypeOK
  BY DEF TypeOK, Dns, Network, Down, ViewModel
<1>2. BusyTracksWorker /\ OperationMatchesSession /\ DialledOnce /\ OwnIsOwn
      /\ IntentTracksWarp
  BY DEF BusyTracksWorker, OperationMatchesSession, DialledOnce, OwnIsOwn,
     IntentTracksWarp, Dialling, Down
<1> QED
  BY <1>1, <1>2 DEF IInv

LEMMA StartIInv == ASSUME IInv, Start PROVE IInv'
<1> USE NoneAssumption DEF IInv, Start
<1>1. /\ vm' \in ViewModel /\ vm'.up /\ ~vm'.busy /\ vm'.session = None
  BY DEF Down, ViewModel
<1>2. worker = None /\ report = None
  BY DEF OperationMatchesSession
<1>3. TypeOK'
  <2>1. dns' \in Dns /\ mishap' \in BOOLEAN
    BY DEF TypeOK, Dns
  <2> QED
    BY <1>1, <2>1 DEF TypeOK
<1>4. BusyTracksWorker' /\ OperationMatchesSession' /\ DialledOnce' /\ OwnIsOwn'
      /\ IntentTracksWarp'
  BY <1>1, <1>2 DEF BusyTracksWorker, OperationMatchesSession, DialledOnce,
     OwnIsOwn, HungUp, IntentTracksWarp, Dialling
<1> QED
  BY <1>3, <1>4

LEMMA StartAppAccessIInv == ASSUME IInv, StartAppAccess PROVE IInv'
<1> USE NoneAssumption DEF IInv, StartAppAccess
<1>1. vm \in ViewModel
  BY DEF TypeOK
<1>2. vm' \in ViewModel /\ vm'.up /\ vm'.busy /\ vm'.session = None
  BY <1>1 DEF ViewModel
<1>3. /\ worker' \in Worker /\ worker'.op = "start"
      /\ worker'.pc = "baseline" /\ worker'.tempWarp = "none"
  BY ONLY <1>1, StartAppAccess, VmFields, SearchWorker DEF StartAppAccess
<1>4. worker = None /\ report = None
  BY DEF BusyTracksWorker
<1>5. TypeOK'
  <2>1. before' \in [dns : Dns, own : BOOLEAN]
    BY DEF Network, TypeOK
  <2>2. mishap' \in BOOLEAN /\ swapped' \in BOOLEAN /\ meddled' \in BOOLEAN
    BY DEF TypeOK
  <2> QED
    BY <1>2, <1>3, <2>1, <2>2 DEF TypeOK, env
<1>6. BusyTracksWorker' /\ OperationMatchesSession' /\ DialledOnce'
  BY <1>2, <1>3, <1>4 DEF BusyTracksWorker, OperationMatchesSession, DialledOnce
<1>7. OwnIsOwn'
  BY <1>2, <1>3, <1>4 DEF OwnIsOwn
<1>8. IntentTracksWarp'
  BY <1>3, <1>4 DEF IntentTracksWarp, Dialling, AsShown, env, hist
<1> QED
  BY <1>5, <1>6, <1>7, <1>8

LEMMA CancelAppAccessIInv == ASSUME IInv, CancelAppAccess PROVE IInv'
<1> USE NoneAssumption DEF IInv, CancelAppAccess, hist, env
<1>1. vm \in ViewModel
  BY DEF TypeOK
<1>2. /\ vm' \in ViewModel
      /\ vm'.up = vm.up /\ vm'.busy = vm.busy /\ vm'.session = vm.session
  BY <1>1 DEF ViewModel
<1>3. TypeOK'
  BY <1>2 DEF TypeOK
<1>4. BusyTracksWorker' /\ OperationMatchesSession' /\ DialledOnce'
  BY <1>2 DEF BusyTracksWorker, OperationMatchesSession, DialledOnce
<1>5. OwnIsOwn' /\ IntentTracksWarp'
  BY <1>2 DEF OwnIsOwn, HungUp, IntentTracksWarp, Dialling
<1> QED
  BY <1>3, <1>4, <1>5

LEMMA StopAppAccessIInv == ASSUME IInv, StopAppAccess PROVE IInv'
<1> USE NoneAssumption DEF IInv, StopAppAccess, hist, env
<1>1. vm \in ViewModel
  BY DEF TypeOK
<1>2. vm' \in ViewModel /\ vm'.up /\ vm'.busy /\ vm'.session = vm.session
  BY <1>1 DEF ViewModel
<1>3. /\ worker' \in Worker /\ worker'.op = "stop" /\ worker'.pc = "undoWarp"
      /\ worker'.tempWarp = vm.session.warp /\ worker'.ok
  BY ONLY <1>1, StopAppAccess, VmFields, StoppingWorker DEF StopAppAccess
<1>4. worker = None /\ report = None
  BY DEF BusyTracksWorker
<1>5. TypeOK'
  BY <1>2, <1>3 DEF TypeOK
<1>6. BusyTracksWorker' /\ OperationMatchesSession' /\ DialledOnce'
  BY <1>2, <1>3, <1>4 DEF BusyTracksWorker, OperationMatchesSession,
     DialledOnce,
     BeforeDialled, Waits
<1>7. OwnIsOwn' /\ IntentTracksWarp'
  BY <1>2, <1>3, <1>4 DEF OwnIsOwn, HungUp, IntentTracksWarp, Dialling
<1> QED
  BY <1>5, <1>6, <1>7

LEMMA WatchTickIInv == ASSUME IInv, WatchTick PROVE IInv'
<1>1. CASE StopAppAccess
  BY <1>1, StopAppAccessIInv
<1>2. CASE /\ vm' = [vm EXCEPT !.seen = TRUE]
           /\ UNCHANGED <<env, elevated, worker, report, hist>>
  <2> USE DEF IInv, hist, env
  <2>1. vm \in ViewModel
    BY DEF TypeOK
  <2>2. /\ vm' \in ViewModel
        /\ vm'.up = vm.up /\ vm'.busy = vm.busy /\ vm'.session = vm.session
    BY <1>2, <2>1 DEF ViewModel
  <2>3. TypeOK'
    BY <1>2, <2>2 DEF TypeOK
  <2>4. BusyTracksWorker' /\ OperationMatchesSession' /\ DialledOnce'
    BY <1>2, <2>2 DEF BusyTracksWorker, OperationMatchesSession, DialledOnce
  <2>5. OwnIsOwn' /\ IntentTracksWarp'
    BY <1>2, <2>2 DEF OwnIsOwn, HungUp, IntentTracksWarp, Dialling
  <2> QED
    BY <2>3, <2>4, <2>5
<1> QED
  BY <1>1, <1>2 DEF WatchTick

LEMMA OnCompletedIInv == ASSUME IInv, OnCompleted PROVE IInv'
<1> USE NoneAssumption DEF IInv, hist, env
<1>1. /\ vm \in ViewModel /\ report \in Report /\ worker = None
      /\ worker' = None /\ report' = None
  BY DEF TypeOK, OnCompleted, BusyTracksWorker
<1>2. /\ vm' \in ViewModel /\ vm'.up = vm.up /\ ~vm'.busy
      /\ vm'.session = IF ~report.ok THEN vm.session
                       ELSE IF report.op = "start" THEN report ELSE None
  BY <1>1, CompletedVm
<1>3. UNCHANGED <<env, elevated, hist>>
  BY DEF OnCompleted
<1>4. TypeOK'
  BY <1>1, <1>2, <1>3 DEF TypeOK
<1>5. BusyTracksWorker' /\ OperationMatchesSession' /\ DialledOnce'
  BY <1>1, <1>2 DEF BusyTracksWorker, OperationMatchesSession, DialledOnce
<1>6. OwnIsOwn'
  <2>1. SUFFICES ASSUME ~meddled, ~mishap, vm'.session # None,
                        vm'.session.warp = "own"
                 PROVE  warp = "app"
    BY <1>1, <1>3 DEF OwnIsOwn
  <2>2. report.op \in {"start", "stop"} /\ report.ok \in BOOLEAN
    BY <1>1 DEF Report
  <2>3. CASE report.ok
    BY <1>1, <1>2, <2>1, <2>2, <2>3 DEF OwnIsOwn
  <2>4. CASE ~report.ok
    <3>1. report.op = "start" /\ vm.session = None
      BY <1>1, <2>1, <2>2, <2>4 DEF OperationMatchesSession
    <3> QED
      BY <1>2, <2>1, <2>4, <3>1
  <2> QED
    BY <2>3, <2>4
<1>7. IntentTracksWarp'
  BY <1>1, <1>3 DEF IntentTracksWarp, Dialling
<1> QED
  BY <1>4, <1>5, <1>6, <1>7

\* Both actions on the main page.
LEMMA MainPageIInv ==
    ASSUME IInv, vm.up, ~vm.busy,
           dns' \in Dns, mishap' \in BOOLEAN, meddled' \in BOOLEAN,
           vm' \in ViewModel, vm'.up, ~vm'.busy, vm'.session = vm.session,
           mishap => mishap', meddled => meddled',
           UNCHANGED <<warp, intent, elevated, worker, report, late, before, swapped>>
    PROVE  IInv'
<1> USE DEF IInv
<1>1. worker = None /\ report = None
  BY DEF BusyTracksWorker
<1>2. TypeOK'
  BY DEF TypeOK
<1>3. BusyTracksWorker' /\ OperationMatchesSession' /\ DialledOnce' /\ OwnIsOwn'
      /\ IntentTracksWarp'
  BY <1>1 DEF BusyTracksWorker, OperationMatchesSession, DialledOnce, OwnIsOwn,
     HungUp,
     IntentTracksWarp, Dialling
<1> QED
  BY <1>2, <1>3

LEMMA ConnectDnsIInv == ASSUME IInv, NEW p \in Profiles, ConnectDns(p) PROVE IInv'
<1>1. vm' \in ViewModel /\ vm'.up /\ ~vm'.busy /\ vm'.session = vm.session
  BY DEF IInv, TypeOK, ViewModel, ConnectDns
<1>2. dns' \in Dns /\ mishap' \in BOOLEAN /\ meddled' \in BOOLEAN
  BY DEF IInv, TypeOK, Dns, ConnectDns
<1>3. mishap' = mishap /\ meddled => meddled'
  BY DEF ConnectDns
<1> QED
  BY <1>1, <1>2, <1>3, MainPageIInv DEF ConnectDns

LEMMA DisconnectDnsIInv == ASSUME IInv, DisconnectDns PROVE IInv'
<1>1. vm' \in ViewModel /\ vm'.up /\ ~vm'.busy /\ vm'.session = vm.session
  BY DEF IInv, TypeOK, ViewModel, DisconnectDns
<1>2. dns' \in Dns /\ mishap' \in BOOLEAN /\ meddled' \in BOOLEAN
  BY DEF IInv, TypeOK, Dns, DisconnectDns
<1>3. mishap => mishap'
  BY DEF TypeOK, DisconnectDns
<1>4. meddled => meddled'
  BY DEF DisconnectDns
<1> QED
  BY <1>1, <1>2, <1>3, <1>4, MainPageIInv DEF DisconnectDns

LEMMA LateHelperIInv == ASSUME IInv, NEW s \in Dns, LateHelper(s) PROVE IInv'
<1> USE DEF IInv, LateHelper, hist
<1>1. TypeOK'
  BY DEF TypeOK, Dns
<1>2. BusyTracksWorker' /\ OperationMatchesSession' /\ DialledOnce' /\ OwnIsOwn'
      /\ IntentTracksWarp'
  BY DEF BusyTracksWorker, OperationMatchesSession, DialledOnce, OwnIsOwn,
     HungUp,
     IntentTracksWarp, Dialling
<1> QED
  BY <1>1, <1>2

LEMMA UserWarpIInv == ASSUME IInv, UserWarp PROVE IInv'
<1> USE DEF IInv, UserWarp
<1>1. TypeOK'
  BY DEF TypeOK
<1>2. BusyTracksWorker' /\ OperationMatchesSession' /\ DialledOnce'
  BY DEF BusyTracksWorker, OperationMatchesSession, DialledOnce
<1>3. OwnIsOwn'
  <2>1. CASE warp = "app"
    BY <2>1 DEF OwnIsOwn
  <2>2. CASE warp # "app"
    BY <2>2 DEF OwnIsOwn, HungUp
  <2> QED
    BY <2>1, <2>2
<1>4. IntentTracksWarp'
  BY DEF IntentTracksWarp, Dialling
<1> QED
  BY <1>1, <1>2, <1>3, <1>4

LEMMA ExitIInv == ASSUME IInv, Exit PROVE IInv'
<1> USE NoneAssumption DEF IInv, Exit
<1>1. vm' \in ViewModel /\ ~vm'.up /\ vm'.session = None
  BY DEF Down, ViewModel
<1>2. dns' \in Dns
  BY DEF TypeOK, Dns
<1>3. late' \subseteq Dns
  <2>1. CASE worker = None
    BY <2>1 DEF TypeOK, At
  <2>2. CASE worker \in Worker
    BY <2>2, WorkerFields DEF TypeOK, Dns, Target
  <2> QED
    BY <2>1, <2>2 DEF TypeOK
<1>4. TypeOK'
  BY <1>1, <1>2, <1>3 DEF TypeOK
<1>5. BusyTracksWorker' /\ OperationMatchesSession' /\ DialledOnce' /\ OwnIsOwn'
      /\ IntentTracksWarp'
  BY <1>1 DEF BusyTracksWorker, OperationMatchesSession, DialledOnce, OwnIsOwn,
     IntentTracksWarp, Dialling
<1> QED
  BY <1>4, <1>5

LEMMA StutterIInv == ASSUME IInv, UNCHANGED vars PROVE IInv'
  BY DEF IInv, vars, TypeOK, BusyTracksWorker, OperationMatchesSession,
     DialledOnce,
     OwnIsOwn, HungUp, IntentTracksWarp, Dialling

-------------------------------------------------------------------------------
(***************************************************************************)
(* The invariant and the theorems about it                                 *)
(***************************************************************************)
LEMMA WorkerStepIInv == ASSUME IInv, WorkerStep PROVE IInv'
  BY BaselineIInv, RankIInv, PromptIInv, HelperTriesIInv, HelperGivesUpIInv,
     BatchTimesOutIInv, AnsweredIInv, TryIInv, ProbeIInv, PutBackIInv, TryWarpIInv,
     DialIInv, VerifyIInv, SetIntentIInv, DialledIInv, WarpProbeIInv, ConcludeIInv,
     UndoWarpIInv, UndoDnsIInv DEF WorkerStep

LEMMA NextIInv == IInv /\ [Next]_vars => IInv'
<1> SUFFICES ASSUME IInv, [Next]_vars PROVE IInv'
  OBVIOUS
<1> QED
  BY StartIInv, StartAppAccessIInv, CancelAppAccessIInv, StopAppAccessIInv,
     WatchTickIInv, OnCompletedIInv, DisconnectDnsIInv, ConnectDnsIInv,
     WorkerStepIInv, UserWarpIInv, ExitIInv, LateHelperIInv, StutterIInv DEF Next

LEMMA Inductive == Spec => []IInv
  BY InitIInv, NextIInv, PTL DEF Spec

\* Every variable keeps its type: in particular a worker that gives up, is
\* cancelled or completes leaves no half-made state behind.
THEOREM TypeCorrect == Spec => []TypeOK
<1>1. IInv => TypeOK
  BY DEF IInv
<1> QED
  BY <1>1, Inductive, PTL

\* The busy flag is raised exactly while a worker is at work or its completion is
\* unhandled, and there is never a second worker.
THEOREM OneWorker == Spec => []BusyTracksWorker
<1>1. IInv => BusyTracksWorker
  BY DEF IInv
<1> QED
  BY <1>1, Inductive, PTL

\* The persisted intent is there exactly while the program has a WARP connection,
\* whenever no operation runs, and after an exit or a crash.
THEOREM IntentKept == Spec => []IntentIsExact
<1>1. ASSUME IInv PROVE IntentIsExact
  <2>1. ~vm.busy => worker = None
    BY <1>1 DEF IInv, BusyTracksWorker, OperationMatchesSession
  <2> QED
    BY <1>1, <2>1 DEF IInv, IntentTracksWarp, Dialling, IntentIsExact
<1> QED
  BY <1>1, Inductive, PTL

\* No step of the program, whatever it does, disconnects WARP that the user
\* connected.
THEOREM UserWarpKept == Spec => UserWarpUntouched
<1>1. ASSUME IInv, [Next]_vars, ~meddled, ~mishap, warp = "user", warp' # "user"
      PROVE  UNCHANGED <<vm, worker, report>>
  <2> USE <1>1
  <2>1. CASE UserWarp
    BY <2>1 DEF UserWarp
  <2>2. ASSUME NEW ok \in BOOLEAN, At("warpProbe") \/ At("undoWarp"),
               HangUp(worker.tempWarp = "own", ok)
        PROVE  FALSE
    BY <2>2 DEF IInv, OwnIsOwn, At, HangUp
  <2>3. ~WarpProbe /\ ~UndoWarp
    BY <2>2 DEF WarpProbe, UndoWarp
  <2>4. ~Dial
    BY DEF Dial, At, IInv, OwnIsOwn
  <2>5. CASE WorkerStep
    BY <2>3, <2>4, <2>5 DEF WorkerStep, Baseline, Rank, Prompt, HelperGivesUp,
       BatchTimesOut, Answered, HelperTries, Try, Probe, PutBack, TryWarp, Verify,
       SetIntent, Dialled, Conclude, UndoDns, env
  <2> QED
    BY <2>1, <2>5 DEF Next, vars, Start, StartAppAccess, CancelAppAccess,
       StopAppAccess,
       WatchTick, OnCompleted, DisconnectDns, ConnectDns, Exit, LateHelper, env
<1> QED
  BY <1>1, Inductive, PTL DEF Spec, UserWarpUntouched

\* A search that is cancelled before its last test of the request stops, whatever
\* it was waiting for.
THEOREM CancelledStops == Spec => CancelStopsSearch
<1>1. ASSUME IInv, [Next]_vars, vm.cancelled, worker # None, worker.op = "start",
             ~PastLastTest(worker)
      PROVE  worker' = None \/ ~PastLastTest(worker')
  <2> USE <1>1 DEF PastLastTest
  <2>1. worker \in Worker /\ vm.up /\ vm.busy /\ worker.pc \in Waits
    BY WorkerFields DEF IInv, TypeOK, OperationMatchesSession, BusyTracksWorker
  <2>2. CASE UNCHANGED worker
    BY <2>2
  <2>3. CASE worker' = None
    BY <2>3
  <2>4. CASE Baseline
    BY <2>1, <2>4, CleanupStep DEF Baseline, At, Waits, Replies
  <2>5. CASE Rank
    BY <2>1, <2>5, CleanupStep DEF Rank, At, Waits, Replies
  <2>6. CASE Prompt
    BY <2>1, <2>6, GotoStep DEF Prompt, At, Waits, Replies
  <2>7. CASE HelperGivesUp
    BY <2>1, <2>7, AnswerStep DEF HelperGivesUp, At, Waits, Replies
  <2>8. CASE BatchTimesOut
    BY <2>1, <2>8, AnswerStep DEF BatchTimesOut, At, Waits, Replies
  <2>9. CASE Answered
    BY <2>1, <2>9, StoppedStep DEF Answered, At, Waits, Replies
  <2>10. CASE Probe
    BY <2>1, <2>10, CleanupStep DEF Probe, At, Waits, Replies
  <2>11. CASE PutBack
    BY <2>1, <2>11, CleanupStep, RestoredStep DEF PutBack, At, Waits, Replies
  <2>12. CASE TryWarp
    BY <2>1, <2>12, GiveUpStep, CleanupStep DEF TryWarp, At, Waits, Replies
  <2>13. CASE Dial
    BY <2>1, <2>13, GotoStep DEF Dial, At, Waits, Replies
  <2>14. CASE Verify
    BY <2>1, <2>14, GotoStep DEF Verify, At, Waits, Replies
  <2>15. CASE SetIntent
    BY <2>1, <2>15, OwnedStep DEF SetIntent, At, Waits, Replies
  <2>16. CASE Dialled
    BY <2>1, <2>16, CleanupStep DEF Dialled, At, Waits, Replies
  <2>17. CASE UndoWarp
    BY <2>1, <2>17, UndoneStep DEF UndoWarp, At, Waits, Replies
  <2>18. ~Conclude
    BY DEF Conclude, At
  <2>19. ~WarpProbe
    BY DEF WarpProbe, At
  <2>20. CASE UndoDns
    BY <2>1, <2>20, CompleteStep, WorkerFields DEF UndoDns, At, Waits, Replies
  <2>21. CASE Try
    <3>1. CASE Goto(IF worker.tempDns THEN "putback" ELSE "warp")
      BY <2>1, <3>1, GotoStep DEF Waits
    <3>2. CASE Cleanup(TRUE)
      BY <2>1, <3>2, CleanupStep
    <3> QED
      BY <2>21, <3>1, <3>2 DEF Try
  <2>22. CASE \E p \in Profiles : HelperTries(p)
    BY <2>1, <2>22, TriedStep, PickedStep DEF HelperTries, At, Waits, Replies
  <2>23. CASE WorkerStep
    BY <2>23, <2>4, <2>5, <2>6, <2>7, <2>8, <2>9, <2>10, <2>11, <2>12, <2>13,
       <2>14, <2>15, <2>16, <2>17, <2>18, <2>19, <2>20, <2>21, <2>22 DEF
       WorkerStep
  <2> QED
    BY <2>1, <2>2, <2>3, <2>23 DEF Next, vars, Start, StartAppAccess,
       CancelAppAccess,
       StopAppAccess, WatchTick, OnCompleted, DisconnectDns, ConnectDns, UserWarp,
       Exit, LateHelper
<1> QED
  BY <1>1, Inductive, PTL DEF Spec, CancelStopsSearch

-------------------------------------------------------------------------------
(***************************************************************************)
(* The invariant of the network: where DNS and WARP stand at each wait of  *)
(* a search or a stop, in what its report says and in what the session     *)
(* remembers.  It is kept by the steps that IInv keeps.                    *)
(***************************************************************************)
\* Nothing outside failed, and neither the helper nor the user changed the network
\* under the program.
Undisturbed == ~mishap /\ ~swapped /\ ~meddled

Setting(profile) == IF profile = None THEN Original ELSE profile

\* The main page shows a profile exactly while it says that it is connected; what
\* waits to come too late has been noted; and the end of the program left nothing.
PageFits ==
    /\ vm.connected <=> vm.profile # None
    /\ ~vm.up => vm = Down /\ worker = None /\ report = None
    /\ late # {} => mishap
    /\ ~vm.up /\ ~mishap => dns = Original

\* What a successful search reports of DNS, and its session remembers, is so.
OutcomeFits(s) ==
    /\ ~s.dnsChanged => dns = Setting(s.previous)
    /\ s.route = "dns" => s.name # None /\ (~NamedPrevious(s) => dns = s.name)
    /\ s.route # "dns" => ~s.dnsChanged

\* Between a session's beginning and its end the main page shows its profile.
SessionFits ==
    vm.session # None =>
       /\ vm.profile = IF vm.session.route = "dns" THEN vm.session.name
                       ELSE vm.session.previous
       /\ (report = None => OutcomeFits(vm.session))

\* Where the setting of DNS is as before the search, at whichever wait.
Unchanged == {"baseline", "ranking", "prompt", "warp", "dial", "verify", "intent",
              "dialled", "warpProbe"}

SearchKeepsDns ==
    /\ before.dns = Setting(worker.previous) /\ vm.profile = worker.previous
    /\ worker.pc \in Unchanged => dns = before.dns
    /\ worker.pc \in Unchanged \cup {"batch", "answered"} => ~worker.tempDns
    /\ worker.pc \in Unchanged \cup {"batch", "try", "probe", "putback"} =>
          worker.reply # "picked"
    /\ worker.pc \in {"try", "probe", "undoWarp", "undoDns"} =>
          (~worker.tempDns => dns = before.dns)
    /\ worker.pc = "answered" =>
          IF worker.reply = "picked" THEN worker.chosen # None /\ dns = worker.chosen
          ELSE dns = before.dns
    /\ worker.pc = "probe" =>
          /\ worker.chosen # None
          /\ worker.chosen # worker.previous => worker.tempDns /\ dns = worker.chosen
    /\ worker.pc = "conclude" =>
          /\ worker.route = "dns" =>
                /\ worker.chosen # None
                /\ worker.chosen # worker.previous => dns = worker.chosen
          /\ worker.route # "dns" => ~worker.tempDns /\ worker.reply # "picked"
          /\ ~worker.tempDns /\ worker.reply # "picked" => dns = before.dns

\* Who has connected WARP, at whichever wait.
SearchKeepsWarp ==
    /\ worker.pc \in {"dial", "verify", "intent", "dialled"} \/ worker.tempWarp = "own"
          => ~before.own
    /\ \/ worker.pc \in {"dial", "verify", "intent"}
       \/ worker.tempWarp = "own" /\ worker.pc # "undoDns"
       \/ warp = "app" <=> before.own

SearchFits ==
    worker # None /\ worker.op = "start" => SearchKeepsDns /\ SearchKeepsWarp

\* A stop undoes what the session remembers.
StopFits ==
    worker # None /\ worker.op = "stop" =>
       /\ worker.previous = vm.session.previous
       /\ worker.tempDns = vm.session.dnsChanged
       /\ worker.reply = "none"

\* What waits to be handled is so.
ReportFits ==
    report # None =>
       /\ report.op = "start" =>
             /\ vm.profile = report.previous
             /\ report.ok => OutcomeFits(report)
             /\ ~report.ok => dns = Setting(report.previous) /\ Network = before
       /\ report.op = "stop" => dns = Setting(report.previous)

Shown == IF vm.connected THEN vm.profile ELSE Original
AtRestFits == vm.up /\ ~vm.busy /\ vm.session = None => dns = Shown

NetInv ==
    /\ PageFits
    /\ Undisturbed => AtRestFits /\ SessionFits /\ SearchFits /\ StopFits /\ ReportFits

\* A profile that is tried, picked or reported as the route is one.
Chosen ==
    /\ (/\ worker # None
        /\ \/ worker.pc = "probe"
           \/ worker.reply = "picked"
           \/ worker.pc = "conclude" /\ worker.route = "dns") => worker.chosen # None
    /\ (report # None /\ report.op = "start" /\ report.ok /\ report.route = "dns")
           => report.name # None

-------------------------------------------------------------------------------
(***************************************************************************)
(* What a step leaves of the records, for the invariant of the network     *)
(***************************************************************************)
LEMMA GotoFields ==
    ASSUME worker \in Worker, NEW pc \in Waits, Goto(pc)
    PROVE  /\ worker' \in Worker
           /\ worker'.op = worker.op /\ worker'.previous = worker.previous
           /\ worker'.chosen = worker.chosen /\ worker'.reply = worker.reply
           /\ worker'.route = worker.route /\ worker'.tempDns = worker.tempDns
           /\ worker'.tempWarp = worker.tempWarp /\ worker'.pc = pc
  BY DEF Worker, Waits, Replies, Routes, WarpUse, Goto

LEMMA TakeFields ==
    ASSUME worker \in Worker, NEW route \in Routes, Take(route)
    PROVE  /\ worker' \in Worker
           /\ worker'.op = worker.op /\ worker'.previous = worker.previous
           /\ worker'.chosen = worker.chosen /\ worker'.reply = worker.reply
           /\ worker'.route = route /\ worker'.tempDns = worker.tempDns
           /\ worker'.tempWarp = worker.tempWarp /\ worker'.pc = "conclude"
  BY DEF Worker, Waits, Replies, Routes, WarpUse, Take

LEMMA AnswerFields ==
    ASSUME worker \in Worker, NEW reply \in Replies, Answer(reply)
    PROVE  /\ worker' \in Worker
           /\ worker'.op = worker.op /\ worker'.previous = worker.previous
           /\ worker'.chosen = worker.chosen /\ worker'.reply = reply
           /\ worker'.route = worker.route /\ worker'.tempDns = worker.tempDns
           /\ worker'.tempWarp = worker.tempWarp /\ worker'.pc = "answered"
  BY DEF Worker, Waits, Replies, Routes, WarpUse, Answer

LEMMA CleanupFields ==
    ASSUME worker \in Worker, NEW c \in BOOLEAN, Cleanup(c)
    PROVE  /\ worker' \in Worker
           /\ worker'.op = worker.op /\ worker'.previous = worker.previous
           /\ worker'.reply = "none" /\ worker'.tempDns = worker.tempDns
           /\ worker'.tempWarp = worker.tempWarp /\ worker'.pc = "undoWarp"
  BY DEF Worker, Waits, Replies, Routes, WarpUse, Cleanup

LEMMA GiveUpFields ==
    ASSUME worker \in Worker, GiveUp
    PROVE  /\ worker' \in Worker
           /\ worker'.op = worker.op /\ worker'.previous = worker.previous
           /\ worker'.reply = "none" /\ worker'.tempDns = worker.tempDns
           /\ worker'.tempWarp = "none" /\ worker'.pc = "undoWarp"
  BY DEF Worker, Waits, Replies, Routes, WarpUse, GiveUp

LEMMA RankedFields ==
    ASSUME worker \in Worker, NEW todo \in SUBSET Profiles, NEW pc \in Waits, 
           worker' = [worker EXCEPT !.todo = todo, !.pc = pc]
    PROVE  /\ worker' \in Worker
           /\ worker'.op = worker.op /\ worker'.previous = worker.previous
           /\ worker'.chosen = worker.chosen /\ worker'.reply = worker.reply
           /\ worker'.route = worker.route /\ worker'.tempDns = worker.tempDns
           /\ worker'.tempWarp = worker.tempWarp /\ worker'.pc = pc
  BY DEF Worker, Waits, Replies, Routes, WarpUse

LEMMA TriedFields ==
    ASSUME worker \in Worker, NEW p \in Profiles, 
           worker' = [worker EXCEPT !.todo = @ \ {p}, !.reply = "tried"]
    PROVE  /\ worker' \in Worker
           /\ worker'.op = worker.op /\ worker'.previous = worker.previous
           /\ worker'.chosen = worker.chosen /\ worker'.reply = "tried"
           /\ worker'.route = worker.route /\ worker'.tempDns = worker.tempDns
           /\ worker'.tempWarp = worker.tempWarp /\ worker'.pc = worker.pc
  BY DEF Worker, Waits, Replies, Routes, WarpUse

LEMMA PickedFields ==
    ASSUME worker \in Worker, NEW p \in Profiles, 
           worker' = [worker EXCEPT !.reply = "picked", !.chosen = p,
                                    !.pc = "answered"]
    PROVE  /\ worker' \in Worker
           /\ worker'.op = worker.op /\ worker'.previous = worker.previous
           /\ worker'.chosen = p /\ worker'.reply = "picked"
           /\ worker'.route = worker.route /\ worker'.tempDns = worker.tempDns
           /\ worker'.tempWarp = worker.tempWarp /\ worker'.pc = "answered"
  BY DEF Worker, Waits, Replies, Routes, WarpUse

LEMMA StoppedFields ==
    ASSUME worker \in Worker, NEW b \in BOOLEAN, 
           worker' = [worker EXCEPT !.tempDns = b, !.cancelled = TRUE,
                                    !.ok = FALSE, !.pc = "undoWarp"]
    PROVE  /\ worker' \in Worker
           /\ worker'.op = worker.op /\ worker'.previous = worker.previous
           /\ worker'.chosen = worker.chosen /\ worker'.reply = worker.reply
           /\ worker'.route = worker.route /\ worker'.tempDns = b
           /\ worker'.tempWarp = worker.tempWarp /\ worker'.pc = "undoWarp"
  BY DEF Worker, Waits, Replies, Routes, WarpUse

LEMMA AppliedFields ==
    ASSUME worker \in Worker, NEW p \in Profiles, NEW b \in BOOLEAN, 
           worker' = [worker EXCEPT !.pc = "probe", !.chosen = p,
                                    !.todo = @ \ {p}, !.tempDns = b]
    PROVE  /\ worker' \in Worker
           /\ worker'.op = worker.op /\ worker'.previous = worker.previous
           /\ worker'.chosen = p /\ worker'.reply = worker.reply
           /\ worker'.route = worker.route /\ worker'.tempDns = b
           /\ worker'.tempWarp = worker.tempWarp /\ worker'.pc = "probe"
  BY DEF Worker, Waits, Replies, Routes, WarpUse

LEMMA SkippedFields ==
    ASSUME worker \in Worker, NEW p \in Profiles, 
           worker' = [worker EXCEPT !.todo = @ \ {p}]
    PROVE  /\ worker' \in Worker
           /\ worker'.op = worker.op /\ worker'.previous = worker.previous
           /\ worker'.chosen = worker.chosen /\ worker'.reply = worker.reply
           /\ worker'.route = worker.route /\ worker'.tempDns = worker.tempDns
           /\ worker'.tempWarp = worker.tempWarp /\ worker'.pc = worker.pc
  BY DEF Worker, Waits, Replies, Routes, WarpUse

LEMMA RestoredFields ==
    ASSUME worker \in Worker, 
           worker' = [worker EXCEPT !.tempDns = FALSE, !.pc = "warp"]
    PROVE  /\ worker' \in Worker
           /\ worker'.op = worker.op /\ worker'.previous = worker.previous
           /\ worker'.chosen = worker.chosen /\ worker'.reply = worker.reply
           /\ worker'.route = worker.route /\ worker'.tempDns = FALSE
           /\ worker'.tempWarp = worker.tempWarp /\ worker'.pc = "warp"
  BY DEF Worker, Waits, Replies, Routes, WarpUse

LEMMA AdoptedFields ==
    ASSUME worker \in Worker, 
           worker' = [worker EXCEPT !.pc = "warpProbe", !.tempWarp = "foreign"]
    PROVE  /\ worker' \in Worker
           /\ worker'.op = worker.op /\ worker'.previous = worker.previous
           /\ worker'.chosen = worker.chosen /\ worker'.reply = worker.reply
           /\ worker'.route = worker.route /\ worker'.tempDns = worker.tempDns
           /\ worker'.tempWarp = "foreign" /\ worker'.pc = "warpProbe"
  BY DEF Worker, Waits, Replies, Routes, WarpUse

LEMMA OwnedFields ==
    ASSUME worker \in Worker, 
           worker' = [worker EXCEPT !.tempWarp = "own", !.pc = "dialled"]
    PROVE  /\ worker' \in Worker
           /\ worker'.op = worker.op /\ worker'.previous = worker.previous
           /\ worker'.chosen = worker.chosen /\ worker'.reply = worker.reply
           /\ worker'.route = worker.route /\ worker'.tempDns = worker.tempDns
           /\ worker'.tempWarp = "own" /\ worker'.pc = "dialled"
  BY DEF Worker, Waits, Replies, Routes, WarpUse

LEMMA UndoneFields ==
    ASSUME worker \in Worker, NEW b \in BOOLEAN, 
           worker' = [worker EXCEPT !.pc = "undoDns", !.ok = @ /\ b]
    PROVE  /\ worker' \in Worker
           /\ worker'.op = worker.op /\ worker'.previous = worker.previous
           /\ worker'.chosen = worker.chosen /\ worker'.reply = worker.reply
           /\ worker'.route = worker.route /\ worker'.tempDns = worker.tempDns
           /\ worker'.tempWarp = worker.tempWarp /\ worker'.pc = "undoDns"
<1>1. (worker.ok /\ b) \in BOOLEAN
  BY DEF Worker
<1> QED
  BY <1>1 DEF Worker, Waits

LEMMA CompletedFields ==
    ASSUME worker \in Worker, NEW ok \in BOOLEAN, Complete(ok)
    PROVE  /\ worker' = None /\ report' \in Report
           /\ report'.op = worker.op /\ report'.ok = ok
           /\ report'.route = worker.route /\ report'.previous = worker.previous
           /\ report'.dnsChanged = (worker.tempDns \/ worker.reply = "picked")
           /\ report'.name = (IF worker.route = "dns" THEN worker.chosen ELSE None)
  BY DEF Complete, Worker, Report, Routes, WarpUse, Replies

-------------------------------------------------------------------------------
(***************************************************************************)
(* The worker of a search                                                  *)
(***************************************************************************)
LEMMA Searching ==
    ASSUME IInv, worker # None, worker.pc \notin {"undoWarp", "undoDns"}
    PROVE  worker \in Worker /\ worker.op = "start"
  BY WorkerFields DEF IInv, TypeOK, OperationMatchesSession

\* A step of a search that goes on.
LEMMA SearchStep ==
    ASSUME IInv, NetInv, worker # None, worker.op = "start",
           worker' \in Worker, worker'.op = "start",
           UNCHANGED <<vm, report>>, late' # {} => mishap',
           Undisturbed' => Undisturbed /\ SearchKeepsDns' /\ SearchKeepsWarp'
    PROVE  NetInv'
<1>1. /\ report = None /\ vm.up /\ vm.busy /\ vm.session = None
  BY DEF IInv, BusyTracksWorker, OperationMatchesSession
<1>2. PageFits'
  BY <1>1, NoneAssumption DEF NetInv, PageFits
<1>3. AtRestFits' /\ SessionFits' /\ StopFits' /\ ReportFits'
  BY <1>1 DEF AtRestFits, SessionFits, StopFits, ReportFits
<1>4. Undisturbed' => SearchFits'
  BY DEF SearchFits
<1> QED
  BY <1>2, <1>3, <1>4 DEF NetInv

\* What the invariant says of a search that is at work.
LEMMA SearchKnows ==
    ASSUME NetInv, Undisturbed, worker # None, worker.op = "start"
    PROVE  SearchKeepsDns /\ SearchKeepsWarp
  BY DEF NetInv, SearchFits

\* A step of a search that leaves the network and the rest of the program alone.
LEMMA QuietStep ==
    ASSUME IInv, NetInv, worker # None, worker.op = "start",
           worker' \in Worker, worker'.op = "start",
           UNCHANGED <<env, vm, report, hist>>,
           SearchKeepsDns /\ SearchKeepsWarp => SearchKeepsDns' /\ SearchKeepsWarp'
    PROVE  NetInv'
<1>1. UNCHANGED <<vm, report, late, mishap>> /\ (Undisturbed' <=> Undisturbed)
  BY DEF env, hist, Undisturbed
<1>2. late' # {} => mishap'
  BY <1>1 DEF NetInv, PageFits
<1>3. Undisturbed' => Undisturbed /\ SearchKeepsDns' /\ SearchKeepsWarp'
  BY <1>1, SearchKnows
<1> QED
  BY <1>1, <1>2, <1>3, SearchStep

\* Before it has dialled a search may be given up at any wait but some.
LEMMA CleanupKeeps ==
    ASSUME worker \in Worker, NEW c \in BOOLEAN, Cleanup(c), UNCHANGED <<env, vm, hist>>,
           SearchKeepsDns, SearchKeepsWarp,
           worker.pc \in {"baseline", "ranking", "try", "probe", "warp", "dialled"}
    PROVE  SearchKeepsDns' /\ SearchKeepsWarp'
  BY CleanupFields DEF SearchKeepsDns, SearchKeepsWarp, Unchanged, env, hist

LEMMA GiveUpKeeps ==
    ASSUME worker \in Worker, GiveUp, UNCHANGED <<vm, dns, before>>,
           SearchKeepsDns, SearchKeepsWarp,
           worker.pc \in {"warp", "dialled", "warpProbe"},
           (warp' = "app") <=> before.own
    PROVE  SearchKeepsDns' /\ SearchKeepsWarp'
  BY GiveUpFields DEF SearchKeepsDns, SearchKeepsWarp, Unchanged

LEMMA BaselineNet == ASSUME IInv, NetInv, Baseline PROVE NetInv'
<1>1. worker # None /\ worker.pc = "baseline" /\ UNCHANGED <<env, vm, report, hist>>
  BY DEF Baseline, At
<1>2. worker \in Worker /\ worker.op = "start"
  BY <1>1, Searching
<1>3. CASE Cleanup(TRUE)
  <2>1. worker' \in Worker /\ worker'.op = "start"
    BY <1>2, <1>3, CleanupFields DEF Waits, Routes, Replies
  <2>2. ASSUME SearchKeepsDns, SearchKeepsWarp PROVE SearchKeepsDns' /\ SearchKeepsWarp'
    BY <1>1, <1>2, <1>3, <2>2, CleanupKeeps
  <2> QED
    BY <1>1, <1>2, <2>1, <2>2, QuietStep
<1>4. CASE Take("current")
  <2>1. worker' \in Worker /\ worker'.op = "start"
    BY <1>2, <1>4, TakeFields DEF Waits, Routes, Replies
  <2>2. ASSUME SearchKeepsDns, SearchKeepsWarp PROVE SearchKeepsDns' /\ SearchKeepsWarp'
    BY <1>1, <1>2, <1>4, <2>2, TakeFields
       DEF SearchKeepsDns, SearchKeepsWarp, Unchanged, env, hist, Waits, Routes, Replies
  <2> QED
    BY <1>1, <1>2, <2>1, <2>2, QuietStep
<1>5. CASE Goto("ranking")
  <2>1. worker' \in Worker /\ worker'.op = "start"
    BY <1>2, <1>5, GotoFields DEF Waits, Routes, Replies
  <2>2. ASSUME SearchKeepsDns, SearchKeepsWarp PROVE SearchKeepsDns' /\ SearchKeepsWarp'
    BY <1>1, <1>2, <1>5, <2>2, GotoFields
       DEF SearchKeepsDns, SearchKeepsWarp, Unchanged, env, hist, Waits, Routes, Replies
  <2> QED
    BY <1>1, <1>2, <2>1, <2>2, QuietStep
<1> QED
  BY <1>3, <1>4, <1>5 DEF Baseline

LEMMA PromptNet == ASSUME IInv, NetInv, Prompt PROVE NetInv'
<1>1. worker # None /\ worker.pc = "prompt" /\ UNCHANGED <<env, vm, report, hist>>
  BY DEF Prompt, At
<1>2. worker \in Worker /\ worker.op = "start"
  BY <1>1, Searching
<1>3. CASE Goto("batch")
  <2>1. worker' \in Worker /\ worker'.op = "start"
    BY <1>2, <1>3, GotoFields DEF Waits, Routes, Replies
  <2>2. ASSUME SearchKeepsDns, SearchKeepsWarp PROVE SearchKeepsDns' /\ SearchKeepsWarp'
    BY <1>1, <1>2, <1>3, <2>2, GotoFields
       DEF SearchKeepsDns, SearchKeepsWarp, Unchanged, env, hist, Waits, Routes, Replies
  <2> QED
    BY <1>1, <1>2, <2>1, <2>2, QuietStep
<1>4. CASE Goto("answered")
  <2>1. worker' \in Worker /\ worker'.op = "start"
    BY <1>2, <1>4, GotoFields DEF Waits, Routes, Replies
  <2>2. ASSUME SearchKeepsDns, SearchKeepsWarp PROVE SearchKeepsDns' /\ SearchKeepsWarp'
    BY <1>1, <1>2, <1>4, <2>2, GotoFields
       DEF SearchKeepsDns, SearchKeepsWarp, Unchanged, env, hist, Waits, Routes, Replies
  <2> QED
    BY <1>1, <1>2, <2>1, <2>2, QuietStep
<1> QED
  BY <1>3, <1>4 DEF Prompt

LEMMA ProbeNet == ASSUME IInv, NetInv, Probe PROVE NetInv'
<1>1. worker # None /\ worker.pc = "probe" /\ UNCHANGED <<env, vm, report, hist>>
  BY DEF Probe, At
<1>2. worker \in Worker /\ worker.op = "start"
  BY <1>1, Searching
<1>3. CASE Cleanup(TRUE)
  <2>1. worker' \in Worker /\ worker'.op = "start"
    BY <1>2, <1>3, CleanupFields DEF Waits, Routes, Replies
  <2>2. ASSUME SearchKeepsDns, SearchKeepsWarp PROVE SearchKeepsDns' /\ SearchKeepsWarp'
    BY <1>1, <1>2, <1>3, <2>2, CleanupKeeps
  <2> QED
    BY <1>1, <1>2, <2>1, <2>2, QuietStep
<1>4. CASE Take("dns")
  <2>1. worker' \in Worker /\ worker'.op = "start"
    BY <1>2, <1>4, TakeFields DEF Waits, Routes, Replies
  <2>2. ASSUME SearchKeepsDns, SearchKeepsWarp PROVE SearchKeepsDns' /\ SearchKeepsWarp'
    BY <1>1, <1>2, <1>4, <2>2, TakeFields
       DEF SearchKeepsDns, SearchKeepsWarp, Unchanged, env, hist, Waits, Routes, Replies
  <2> QED
    BY <1>1, <1>2, <2>1, <2>2, QuietStep
<1>5. CASE Goto("try")
  <2>1. worker' \in Worker /\ worker'.op = "start"
    BY <1>2, <1>5, GotoFields DEF Waits, Routes, Replies
  <2>2. ASSUME SearchKeepsDns, SearchKeepsWarp PROVE SearchKeepsDns' /\ SearchKeepsWarp'
    BY <1>1, <1>2, <1>5, <2>2, GotoFields
       DEF SearchKeepsDns, SearchKeepsWarp, Unchanged, env, hist, Waits, Routes, Replies
  <2> QED
    BY <1>1, <1>2, <2>1, <2>2, QuietStep
<1> QED
  BY <1>3, <1>4, <1>5 DEF Probe

LEMMA VerifyNet == ASSUME IInv, NetInv, Verify PROVE NetInv'
<1>1. worker # None /\ worker.pc = "verify" /\ UNCHANGED <<env, vm, report, hist>>
  BY DEF Verify, At
<1>2. worker \in Worker /\ worker.op = "start"
  BY <1>1, Searching
<1>3. CASE Goto("intent")
  <2>1. worker' \in Worker /\ worker'.op = "start"
    BY <1>2, <1>3, GotoFields DEF Waits, Routes, Replies
  <2>2. ASSUME SearchKeepsDns, SearchKeepsWarp PROVE SearchKeepsDns' /\ SearchKeepsWarp'
    BY <1>1, <1>2, <1>3, <2>2, GotoFields
       DEF SearchKeepsDns, SearchKeepsWarp, Unchanged, env, hist, Waits, Routes, Replies
  <2> QED
    BY <1>1, <1>2, <2>1, <2>2, QuietStep
<1>4. CASE Goto("dial")
  <2>1. worker' \in Worker /\ worker'.op = "start"
    BY <1>2, <1>4, GotoFields DEF Waits, Routes, Replies
  <2>2. ASSUME SearchKeepsDns, SearchKeepsWarp PROVE SearchKeepsDns' /\ SearchKeepsWarp'
    BY <1>1, <1>2, <1>4, <2>2, GotoFields
       DEF SearchKeepsDns, SearchKeepsWarp, Unchanged, env, hist, Waits, Routes, Replies
  <2> QED
    BY <1>1, <1>2, <2>1, <2>2, QuietStep
<1> QED
  BY <1>3, <1>4 DEF Verify

LEMMA RankNet == ASSUME IInv, NetInv, Rank PROVE NetInv'
<1>1. worker # None /\ worker.pc = "ranking" /\ UNCHANGED <<env, vm, report, hist>>
  BY DEF Rank, At
<1>2. worker \in Worker /\ worker.op = "start"
  BY <1>1, Searching
<1>3. CASE Cleanup(TRUE)
  <2>1. worker' \in Worker /\ worker'.op = "start"
    BY <1>2, <1>3, CleanupFields
  <2>2. ASSUME SearchKeepsDns, SearchKeepsWarp PROVE SearchKeepsDns' /\ SearchKeepsWarp'
    BY <1>1, <1>2, <1>3, <2>2, CleanupKeeps
  <2> QED
    BY <1>1, <1>2, <2>1, <2>2, QuietStep
<1>4. CASE ~Cleanup(TRUE)
  <2>1. PICK todo \in SUBSET Profiles, pc \in {"warp", "try", "prompt"} :
                worker' = [worker EXCEPT !.todo = todo, !.pc = pc]
    <3>1. PICK ranking \in SUBSET Profiles :
             worker' = [worker EXCEPT !.todo = ranking,
                          !.pc = IF ranking = {} THEN "warp"
                                 ELSE IF elevated THEN "try" ELSE "prompt"]
      BY <1>4 DEF Rank
    <3> DEFINE pc == IF ranking = {} THEN "warp" ELSE IF elevated THEN "try" ELSE "prompt"
    <3>2. pc \in {"warp", "try", "prompt"} /\ worker' = [worker EXCEPT !.todo = ranking, !.pc = pc]
      BY <3>1
    <3> HIDE DEF pc
    <3> QED
      BY <3>2
  <2>2. /\ worker' \in Worker /\ worker'.op = worker.op /\ worker'.previous = worker.previous
        /\ worker'.chosen = worker.chosen /\ worker'.reply = worker.reply
        /\ worker'.tempDns = worker.tempDns /\ worker'.tempWarp = worker.tempWarp
        /\ worker'.pc = pc /\ worker'.route = worker.route
    BY <1>2, <2>1, RankedFields DEF Waits
  <2>3. ASSUME SearchKeepsDns, SearchKeepsWarp PROVE SearchKeepsDns' /\ SearchKeepsWarp'
    BY <1>1, <1>2, <2>1, <2>2, <2>3
       DEF SearchKeepsDns, SearchKeepsWarp, Unchanged, env, hist
  <2> QED
    BY <1>1, <1>2, <2>2, <2>3, QuietStep
<1> QED
  BY <1>3, <1>4

LEMMA TryWarpNet == ASSUME IInv, NetInv, TryWarp PROVE NetInv'
<1>1. worker # None /\ worker.pc = "warp" /\ UNCHANGED <<env, vm, report, hist>>
  BY DEF TryWarp, At
<1>2. worker \in Worker /\ worker.op = "start" /\ worker.tempWarp = "none"
  BY <1>1, Searching DEF IInv, DialledOnce, BeforeDialled, Waits
<1>3. CASE GiveUp
  <2>1. worker' \in Worker /\ worker'.op = "start"
    BY <1>2, <1>3, GiveUpFields
  <2>2. ASSUME SearchKeepsDns, SearchKeepsWarp PROVE SearchKeepsDns' /\ SearchKeepsWarp'
    <3>1. (warp' = "app") <=> before.own
      BY <1>1, <1>2, <2>2 DEF SearchKeepsWarp, env
    <3> QED
      BY <1>1, <1>2, <1>3, <2>2, <3>1, GiveUpKeeps DEF env, hist
  <2> QED
    BY <1>1, <1>2, <2>1, <2>2, QuietStep
<1>4. CASE Cleanup(TRUE)
  <2>1. worker' \in Worker /\ worker'.op = "start"
    BY <1>2, <1>4, CleanupFields
  <2>2. ASSUME SearchKeepsDns, SearchKeepsWarp PROVE SearchKeepsDns' /\ SearchKeepsWarp'
    BY <1>1, <1>2, <1>4, <2>2, CleanupKeeps
  <2> QED
    BY <1>1, <1>2, <2>1, <2>2, QuietStep
<1>5. CASE worker' = [worker EXCEPT !.pc = "warpProbe", !.tempWarp = "foreign"]
  <2>1. worker' \in Worker /\ worker'.op = "start"
    BY <1>2, <1>5, AdoptedFields
  <2>2. ASSUME SearchKeepsDns, SearchKeepsWarp PROVE SearchKeepsDns' /\ SearchKeepsWarp'
    BY <1>1, <1>2, <1>5, <2>2, AdoptedFields
       DEF SearchKeepsDns, SearchKeepsWarp, Unchanged, env, hist
  <2> QED
    BY <1>1, <1>2, <2>1, <2>2, QuietStep
<1>6. CASE warp = "off" /\ Goto("dial")
  <2>1. worker' \in Worker /\ worker'.op = "start"
    BY <1>2, <1>6, GotoFields DEF Waits
  <2>2. ASSUME SearchKeepsDns, SearchKeepsWarp PROVE SearchKeepsDns' /\ SearchKeepsWarp'
    BY <1>1, <1>2, <1>6, <2>2, GotoFields
       DEF SearchKeepsDns, SearchKeepsWarp, Unchanged, env, hist, Waits
  <2> QED
    BY <1>1, <1>2, <2>1, <2>2, QuietStep
<1> QED
  BY <1>3, <1>4, <1>5, <1>6 DEF TryWarp

LEMMA DialledNet == ASSUME IInv, NetInv, Dialled PROVE NetInv'
<1>1. worker # None /\ worker.pc = "dialled" /\ UNCHANGED <<env, vm, report, hist>>
  BY DEF Dialled, At
<1>2. worker \in Worker /\ worker.op = "start"
  BY <1>1, Searching
<1>3. CASE Cleanup(TRUE)
  <2>1. worker' \in Worker /\ worker'.op = "start"
    BY <1>2, <1>3, CleanupFields
  <2>2. ASSUME SearchKeepsDns, SearchKeepsWarp PROVE SearchKeepsDns' /\ SearchKeepsWarp'
    BY <1>1, <1>2, <1>3, <2>2, CleanupKeeps
  <2> QED
    BY <1>1, <1>2, <2>1, <2>2, QuietStep
<1>4. CASE worker.tempWarp = "own" /\ Goto("warpProbe")
  <2>1. worker' \in Worker /\ worker'.op = "start"
    BY <1>2, <1>4, GotoFields DEF Waits
  <2>2. ASSUME SearchKeepsDns, SearchKeepsWarp PROVE SearchKeepsDns' /\ SearchKeepsWarp'
    BY <1>1, <1>2, <1>4, <2>2, GotoFields
       DEF SearchKeepsDns, SearchKeepsWarp, Unchanged, env, hist, Waits
  <2> QED
    BY <1>1, <1>2, <2>1, <2>2, QuietStep
<1>5. CASE worker.tempWarp = "none" /\ GiveUp
  <2>1. worker' \in Worker /\ worker'.op = "start"
    BY <1>2, <1>5, GiveUpFields
  <2>2. ASSUME SearchKeepsDns, SearchKeepsWarp PROVE SearchKeepsDns' /\ SearchKeepsWarp'
    <3>1. (warp' = "app") <=> before.own
      BY <1>1, <1>5, <2>2 DEF SearchKeepsWarp, env
    <3> QED
      BY <1>1, <1>2, <1>5, <2>2, <3>1, GiveUpKeeps DEF env, hist
  <2> QED
    BY <1>1, <1>2, <2>1, <2>2, QuietStep
<1> QED
  BY <1>3, <1>4, <1>5 DEF Dialled

LEMMA AnsweredNet == ASSUME IInv, NetInv, Answered PROVE NetInv'
<1>1. worker # None /\ worker.pc = "answered" /\ UNCHANGED <<env, vm, report, hist>>
  BY DEF Answered, At
<1>2. worker \in Worker /\ worker.op = "start"
  BY <1>1, Searching
<1>3. CASE worker' = [worker EXCEPT !.tempDns = (worker.reply = "picked"),
                                    !.cancelled = TRUE, !.ok = FALSE, !.pc = "undoWarp"]
  <2>1. /\ worker' \in Worker /\ worker'.op = worker.op /\ worker'.previous = worker.previous
        /\ worker'.tempDns = (worker.reply = "picked")
        /\ worker'.tempWarp = worker.tempWarp /\ worker'.pc = "undoWarp"
    <3> DEFINE b == worker.reply = "picked"
    <3>1. b \in BOOLEAN /\ worker' = [worker EXCEPT !.tempDns = b,
                               !.cancelled = TRUE, !.ok = FALSE, !.pc = "undoWarp"]
      BY <1>3
    <3>2. /\ worker' \in Worker /\ worker'.op = worker.op /\ worker'.tempDns = b
          /\ worker'.previous = worker.previous
          /\ worker'.tempWarp = worker.tempWarp /\ worker'.pc = "undoWarp"
      <4> HIDE DEF b
      <4> QED
        BY <1>2, <3>1, StoppedFields
    <3> QED
      BY <3>2
  <2>2. ASSUME SearchKeepsDns, SearchKeepsWarp PROVE SearchKeepsDns' /\ SearchKeepsWarp'
    BY <1>1, <2>1, <2>2 DEF SearchKeepsDns, SearchKeepsWarp, Unchanged, env, hist
  <2> QED
    BY <1>1, <1>2, <2>1, <2>2, QuietStep
<1>4. CASE worker.reply = "picked" /\ Take("dns")
  <2>1. worker' \in Worker /\ worker'.op = "start"
    BY <1>2, <1>4, TakeFields DEF Routes
  <2>2. ASSUME SearchKeepsDns, SearchKeepsWarp PROVE SearchKeepsDns' /\ SearchKeepsWarp'
    BY <1>1, <1>2, <1>4, <2>2, TakeFields
       DEF SearchKeepsDns, SearchKeepsWarp, Unchanged, env, hist, Routes
  <2> QED
    BY <1>1, <1>2, <2>1, <2>2, QuietStep
<1>5. CASE worker.reply # "picked" /\ Cleanup(FALSE)
  <2>1. worker' \in Worker /\ worker'.op = "start"
    BY <1>2, <1>5, CleanupFields
  <2>2. ASSUME SearchKeepsDns, SearchKeepsWarp PROVE SearchKeepsDns' /\ SearchKeepsWarp'
    BY <1>1, <1>2, <1>5, <2>2, CleanupFields
       DEF SearchKeepsDns, SearchKeepsWarp, Unchanged, env, hist
  <2> QED
    BY <1>1, <1>2, <2>1, <2>2, QuietStep
<1>6. CASE worker.reply # "picked" /\ Goto("warp")
  <2>1. worker' \in Worker /\ worker'.op = "start"
    BY <1>2, <1>6, GotoFields DEF Waits
  <2>2. ASSUME SearchKeepsDns, SearchKeepsWarp PROVE SearchKeepsDns' /\ SearchKeepsWarp'
    BY <1>1, <1>2, <1>6, <2>2, GotoFields
       DEF SearchKeepsDns, SearchKeepsWarp, Unchanged, env, hist, Waits
  <2> QED
    BY <1>1, <1>2, <2>1, <2>2, QuietStep
<1> QED
  BY <1>3, <1>4, <1>5, <1>6 DEF Answered

-------------------------------------------------------------------------------
(***************************************************************************)
(* The steps of a search that change the network                           *)
(***************************************************************************)
LEMMA MishapsStay ==
    ASSUME NetInv, UNCHANGED <<late>>, mishap => mishap'
    PROVE  late' # {} => mishap'
  BY DEF NetInv, PageFits

LEMMA HelperTriesNet ==
    ASSUME IInv, NetInv, NEW p \in Profiles, HelperTries(p) PROVE NetInv'
<1>1. /\ worker # None /\ worker.pc = "batch"
      /\ UNCHANGED <<warp, intent, vm, report, late, hist>>
  BY DEF HelperTries, At
<1>2. worker \in Worker /\ worker.op = "start"
  BY <1>1, Searching
<1>3. (late' # {} => mishap') /\ (Undisturbed' <=> Undisturbed)
  BY <1>1, MishapsStay DEF hist, Undisturbed
<1>4. CASE worker' = [worker EXCEPT !.todo = @ \ {p}, !.reply = "tried"]
  <2>1. worker' \in Worker /\ worker'.op = "start"
    BY <1>2, <1>4, TriedFields
  <2>2. ASSUME SearchKeepsDns, SearchKeepsWarp PROVE SearchKeepsDns' /\ SearchKeepsWarp'
    BY <1>1, <1>2, <1>4, <2>2, TriedFields
       DEF SearchKeepsDns, SearchKeepsWarp, Unchanged, hist
  <2> QED
    BY <1>1, <1>2, <1>3, <2>1, <2>2, SearchStep, SearchKnows
<1>5. CASE /\ dns' = p
           /\ worker' = [worker EXCEPT !.reply = "picked", !.chosen = p, !.pc = "answered"]
  <2>1. worker' \in Worker /\ worker'.op = "start"
    BY <1>2, <1>5, PickedFields
  <2>2. ASSUME SearchKeepsDns, SearchKeepsWarp PROVE SearchKeepsDns' /\ SearchKeepsWarp'
    BY <1>1, <1>2, <1>5, <2>2, PickedFields, ProfilesAssumption
       DEF SearchKeepsDns, SearchKeepsWarp, Unchanged, hist
  <2> QED
    BY <1>1, <1>2, <1>3, <2>1, <2>2, SearchStep, SearchKnows
<1> QED
  BY <1>4, <1>5 DEF HelperTries

LEMMA HelperGivesUpNet == ASSUME IInv, NetInv, HelperGivesUp PROVE NetInv'
<1>1. /\ worker # None /\ worker.pc = "batch"
      /\ UNCHANGED <<warp, vm, report, late, before, meddled>>
  BY DEF HelperGivesUp, At
<1>2. worker \in Worker /\ worker.op = "start"
  BY <1>1, Searching
<1>3. CASE /\ dns' = Original /\ Answer("restored") /\ UNCHANGED mishap
           /\ swapped' = (swapped \/ worker.previous # None)
  <2>1. /\ worker' \in Worker /\ worker'.op = worker.op /\ worker'.previous = worker.previous
        /\ worker'.tempDns = worker.tempDns /\ worker'.tempWarp = worker.tempWarp
        /\ worker'.pc = "answered" /\ worker'.reply = "restored"
    BY <1>2, <1>3, AnswerFields DEF Replies
  <2>2. late' # {} => mishap'
    BY <1>1, <1>3, MishapsStay
  <2>3. ASSUME Undisturbed' PROVE Undisturbed /\ SearchKeepsDns' /\ SearchKeepsWarp'
    <3>1. Undisturbed /\ worker.previous = None
      BY <1>1, <1>3, <2>3 DEF Undisturbed
    <3>2. SearchKeepsDns /\ SearchKeepsWarp
      BY <1>1, <1>2, <3>1, SearchKnows
    <3> QED
      BY <1>1, <1>3, <2>1, <3>1, <3>2 DEF SearchKeepsDns, SearchKeepsWarp, Unchanged, Setting
  <2> QED
    BY <1>1, <1>2, <2>1, <2>2, <2>3, SearchStep
<1>4. CASE mishap' /\ (Answer("stuck") \/ Answer("none"))
  <2>1. worker' \in Worker /\ worker'.op = "start"
    BY <1>2, <1>4, AnswerFields DEF Replies
  <2> QED
    BY <1>1, <1>2, <1>4, <2>1, SearchStep DEF Undisturbed
<1> QED
  BY <1>3, <1>4 DEF HelperGivesUp

LEMMA BatchTimesOutNet == ASSUME IInv, NetInv, BatchTimesOut PROVE NetInv'
<1>1. worker # None /\ worker.pc = "batch" /\ Answer("none") /\ mishap' /\ UNCHANGED <<vm, report>>
  BY DEF BatchTimesOut, At
<1>2. worker \in Worker /\ worker.op = "start"
  BY <1>1, Searching
<1>3. worker' \in Worker /\ worker'.op = "start"
  BY <1>1, <1>2, AnswerFields DEF Replies
<1> QED
  BY <1>1, <1>2, <1>3, SearchStep DEF Undisturbed

LEMMA TryNet == ASSUME IInv, NetInv, Try PROVE NetInv'
<1>1. /\ worker # None /\ worker.pc = "try"
      /\ UNCHANGED <<warp, intent, vm, report, before, swapped, meddled>>
  BY DEF Try, At
<1>2. worker \in Worker /\ worker.op = "start" /\ worker.tempDns \in BOOLEAN
      /\ worker.todo \subseteq Profiles
  BY <1>1, Searching, WorkerFields
<1>3. CASE Goto(IF worker.tempDns THEN "putback" ELSE "warp") /\ UNCHANGED <<dns, late, mishap>>
  <2>1. PICK pc \in {"putback", "warp"} : Goto(pc) /\ (pc = "warp" => ~worker.tempDns)
    BY <1>3
  <2>2. /\ worker' \in Worker /\ worker'.op = worker.op /\ worker'.previous = worker.previous
        /\ worker'.tempDns = worker.tempDns /\ worker'.tempWarp = worker.tempWarp
        /\ worker'.pc = pc /\ worker'.reply = worker.reply
    BY <1>2, <2>1, GotoFields DEF Waits
  <2>3. UNCHANGED <<env, vm, report, hist>>
    BY <1>1, <1>3 DEF env, hist
  <2>4. ASSUME SearchKeepsDns, SearchKeepsWarp PROVE SearchKeepsDns' /\ SearchKeepsWarp'
    BY <1>1, <1>3, <2>1, <2>2, <2>4 DEF SearchKeepsDns, SearchKeepsWarp, Unchanged
  <2> QED
    BY <1>1, <1>2, <2>2, <2>3, <2>4, QuietStep
<1>4. CASE Cleanup(TRUE) /\ UNCHANGED <<dns, late, mishap>>
  <2>1. worker' \in Worker /\ worker'.op = "start"
    BY <1>2, <1>4, CleanupFields
  <2>2. UNCHANGED <<env, vm, report, hist>>
    BY <1>1, <1>4 DEF env, hist
  <2>3. ASSUME SearchKeepsDns, SearchKeepsWarp PROVE SearchKeepsDns' /\ SearchKeepsWarp'
    BY <1>1, <1>2, <1>4, <2>2, <2>3, CleanupKeeps
  <2> QED
    BY <1>1, <1>2, <2>1, <2>2, <2>3, QuietStep
<1>5. ASSUME NEW p \in worker.todo,
             dns' = IF vm.connected /\ vm.profile = p THEN dns ELSE p,
             worker' = [worker EXCEPT
                !.pc = "probe", !.chosen = p, !.todo = @ \ {p},
                !.tempDns = @ \/ ~(vm.connected /\ vm.profile = p)],
             UNCHANGED <<late, mishap>>
      PROVE  NetInv'
  <2> DEFINE b == worker.tempDns \/ ~(vm.connected /\ vm.profile = p)
  <2>1. p \in Profiles /\ p # None
    BY <1>2, ProfilesAssumption
  <2>2. b \in BOOLEAN /\ (~b => ~worker.tempDns /\ dns' = dns)
        /\ (p # vm.profile => b /\ dns' = p)
    BY <1>2, <1>5
  <2>3. worker' = [worker EXCEPT !.pc = "probe", !.chosen = p, !.todo = @ \ {p}, !.tempDns = b]
    BY <1>2, <1>5 DEF Worker
  <2> HIDE DEF b
  <2>4. /\ worker' \in Worker /\ worker'.op = worker.op /\ worker'.previous = worker.previous
        /\ worker'.chosen = p /\ worker'.reply = worker.reply
        /\ worker'.tempDns = b /\ worker'.tempWarp = worker.tempWarp
        /\ worker'.pc = "probe"
    BY <1>2, <2>1, <2>2, <2>3, AppliedFields
  <2>5. (late' # {} => mishap') /\ (Undisturbed' <=> Undisturbed)
    BY <1>1, <1>5, MishapsStay DEF Undisturbed
  <2>6. ASSUME SearchKeepsDns, SearchKeepsWarp PROVE SearchKeepsDns' /\ SearchKeepsWarp'
    BY <1>1, <2>1, <2>2, <2>4, <2>6 DEF SearchKeepsDns, SearchKeepsWarp, Unchanged
  <2> QED
    BY <1>1, <1>2, <2>4, <2>5, <2>6, SearchStep, SearchKnows
<1>6. ASSUME NEW p \in worker.todo, DnsFails(p), worker' = [worker EXCEPT !.todo = @ \ {p}]
      PROVE  NetInv'
  <2>1. worker' \in Worker /\ worker'.op = "start"
    BY <1>2, <1>6, SkippedFields
  <2>2. mishap'
    BY <1>6 DEF DnsFails
  <2> QED
    BY <1>1, <1>2, <2>1, <2>2, SearchStep DEF Undisturbed
<1> QED
  BY <1>3, <1>4, <1>5, <1>6 DEF Try

LEMMA PutBackNet == ASSUME IInv, NetInv, PutBack PROVE NetInv'
<1>1. /\ worker # None /\ worker.pc = "putback"
      /\ UNCHANGED <<warp, intent, vm, report, before, swapped, meddled>>
  BY DEF PutBack, At
<1>2. worker \in Worker /\ worker.op = "start"
  BY <1>1, Searching
<1>3. CASE /\ dns' = Target /\ UNCHANGED <<late, mishap>>
           /\ worker' = [worker EXCEPT !.tempDns = FALSE, !.pc = "warp"]
  <2>1. worker' \in Worker /\ worker'.op = "start"
    BY <1>2, <1>3, RestoredFields
  <2>2. (late' # {} => mishap') /\ (Undisturbed' <=> Undisturbed)
    BY <1>1, <1>3, MishapsStay DEF Undisturbed
  <2>3. ASSUME SearchKeepsDns, SearchKeepsWarp PROVE SearchKeepsDns' /\ SearchKeepsWarp'
    BY <1>1, <1>2, <1>3, <2>3, RestoredFields
       DEF SearchKeepsDns, SearchKeepsWarp, Unchanged, Target, Setting
  <2> QED
    BY <1>1, <1>2, <2>1, <2>2, <2>3, SearchStep, SearchKnows
<1>4. CASE DnsFails(Target) /\ Cleanup(FALSE)
  <2>1. worker' \in Worker /\ worker'.op = "start"
    BY <1>2, <1>4, CleanupFields
  <2>2. mishap'
    BY <1>4 DEF DnsFails
  <2> QED
    BY <1>1, <1>2, <2>1, <2>2, SearchStep DEF Undisturbed
<1> QED
  BY <1>3, <1>4 DEF PutBack

LEMMA DialNet == ASSUME IInv, NetInv, Dial PROVE NetInv'
<1>1. /\ worker # None /\ worker.pc = "dial"
      /\ UNCHANGED <<dns, intent, late, vm, report, before, swapped, meddled>>
      /\ mishap => mishap'
  BY DEF Dial, At
<1>2. worker \in Worker /\ worker.op = "start" /\ worker.tempWarp = "none"
  BY <1>1, Searching DEF IInv, DialledOnce, BeforeDialled, Waits
<1>3. late' # {} => mishap'
  BY <1>1, MishapsStay
<1>4. PICK pc \in {"verify", "dialled"} : Goto(pc) /\ (pc = "dialled" /\ ~mishap' => warp' = "off")
  BY DEF Dial
<1>5. /\ worker' \in Worker /\ worker'.op = worker.op /\ worker'.previous = worker.previous
      /\ worker'.tempDns = worker.tempDns /\ worker'.tempWarp = worker.tempWarp
      /\ worker'.pc = pc /\ worker'.reply = worker.reply
  BY <1>2, <1>4, GotoFields DEF Waits
<1>6. ASSUME Undisturbed' PROVE Undisturbed /\ SearchKeepsDns' /\ SearchKeepsWarp'
  <2>1. Undisturbed /\ ~mishap'
    BY <1>1, <1>6 DEF Undisturbed
  <2>2. SearchKeepsDns /\ SearchKeepsWarp
    BY <1>1, <1>2, <2>1, SearchKnows
  <2> QED
    BY <1>1, <1>2, <1>4, <1>5, <2>1, <2>2 DEF SearchKeepsDns, SearchKeepsWarp, Unchanged
<1> QED
  BY <1>1, <1>2, <1>3, <1>5, <1>6, SearchStep

LEMMA SetIntentNet == ASSUME IInv, NetInv, SetIntent PROVE NetInv'
<1>1. /\ worker # None /\ worker.pc = "intent"
      /\ UNCHANGED <<dns, warp, late, vm, report, before, swapped, meddled>>
      /\ mishap => mishap'
      /\ worker' = [worker EXCEPT !.tempWarp = "own", !.pc = "dialled"]
  BY DEF SetIntent, At
<1>2. worker \in Worker /\ worker.op = "start"
  BY <1>1, Searching
<1>3. late' # {} => mishap'
  BY <1>1, MishapsStay
<1>4. worker' \in Worker /\ worker'.op = "start"
  BY <1>1, <1>2, OwnedFields
<1>5. ASSUME Undisturbed' PROVE Undisturbed /\ SearchKeepsDns' /\ SearchKeepsWarp'
  <2>1. Undisturbed
    BY <1>1, <1>5 DEF Undisturbed
  <2>2. SearchKeepsDns /\ SearchKeepsWarp
    BY <1>1, <1>2, <2>1, SearchKnows
  <2> QED
    BY <1>1, <1>2, <2>1, <2>2, OwnedFields DEF SearchKeepsDns, SearchKeepsWarp, Unchanged
<1> QED
  BY <1>1, <1>2, <1>3, <1>4, <1>5, SearchStep

LEMMA WarpProbeNet == ASSUME IInv, NetInv, WarpProbe PROVE NetInv'
<1>1. /\ worker # None /\ worker.pc = "warpProbe"
      /\ UNCHANGED <<dns, late, vm, report, before, swapped, meddled>>
  BY DEF WarpProbe, At
<1>2. worker \in Worker /\ worker.op = "start"
  BY <1>1, Searching
<1>3. CASE Take("warp") /\ UNCHANGED <<warp, intent, mishap>>
  <2>1. worker' \in Worker /\ worker'.op = "start"
    BY <1>2, <1>3, TakeFields DEF Routes
  <2>2. UNCHANGED <<env, vm, report, hist>>
    BY <1>1, <1>3 DEF env, hist
  <2>3. ASSUME SearchKeepsDns, SearchKeepsWarp PROVE SearchKeepsDns' /\ SearchKeepsWarp'
    BY <1>1, <1>2, <1>3, <2>3, TakeFields
       DEF SearchKeepsDns, SearchKeepsWarp, Unchanged, Routes
  <2> QED
    BY <1>1, <1>2, <2>1, <2>2, <2>3, QuietStep
<1>4. CASE (\E ok \in BOOLEAN : HangUp(worker.tempWarp = "own", ok)) /\ GiveUp
  <2>1. worker' \in Worker /\ worker'.op = "start"
    BY <1>2, <1>4, GiveUpFields
  <2>2. mishap => mishap'
    BY <1>4 DEF HangUp
  <2>3. ~mishap' => IF worker.tempWarp = "own" THEN warp' = "off" ELSE UNCHANGED warp
    BY <1>4 DEF HangUp
  <2>4. late' # {} => mishap'
    BY <1>1, <2>2, MishapsStay
  <2>5. ASSUME Undisturbed' PROVE Undisturbed /\ SearchKeepsDns' /\ SearchKeepsWarp'
    <3>1. Undisturbed /\ ~mishap'
      BY <1>1, <2>2, <2>5 DEF Undisturbed
    <3>2. SearchKeepsDns /\ SearchKeepsWarp
      BY <1>1, <1>2, <3>1, SearchKnows
    <3>3. (warp' = "app") <=> before.own
      BY <1>1, <2>3, <3>1, <3>2 DEF SearchKeepsWarp
    <3> QED
      BY <1>1, <1>2, <1>4, <3>1, <3>2, <3>3, GiveUpKeeps
  <2> QED
    BY <1>1, <1>2, <2>1, <2>4, <2>5, SearchStep
<1> QED
  BY <1>3, <1>4 DEF WarpProbe

-------------------------------------------------------------------------------
(***************************************************************************)
(* The end of an operation                                                 *)
(***************************************************************************)
\* What is reported of a search, and of a stop
LEMMA ReportStep ==
    ASSUME IInv, IInv', NetInv, worker # None, worker' = None, report' \in Report,
           report'.op = worker.op, UNCHANGED vm, late' # {} => mishap',
           Undisturbed' =>
              /\ report'.op = "start" =>
                    /\ vm.profile = report'.previous
                    /\ report'.ok => OutcomeFits(report)'
                    /\ ~report'.ok => dns' = Setting(report'.previous) /\ (Network = before)'
              /\ report'.op = "stop" =>
                    /\ vm.session # None
                    /\ vm.profile = IF vm.session.route = "dns" THEN vm.session.name
                                    ELSE vm.session.previous
                    /\ dns' = Setting(report'.previous)
    PROVE  NetInv'
<1>1. report' # None /\ vm.up /\ vm.busy /\ (report'.op = "start" => vm.session = None)
      /\ report'.op \in {"start", "stop"}
  BY NoneAssumption DEF IInv, OperationMatchesSession, BusyTracksWorker, Report
<1>2. PageFits'
  BY <1>1, NoneAssumption DEF NetInv, PageFits
<1>3. Undisturbed' => AtRestFits' /\ SearchFits' /\ StopFits'
  BY <1>1 DEF AtRestFits, SearchFits, StopFits
<1>4. Undisturbed' => SessionFits' /\ ReportFits'
  BY <1>1 DEF SessionFits, ReportFits, Setting
<1> QED
  BY <1>2, <1>3, <1>4 DEF NetInv

LEMMA ConcludeNet == ASSUME IInv, IInv', NetInv, Conclude PROVE NetInv'
<1>1. /\ worker # None /\ worker.pc = "conclude"
      /\ UNCHANGED <<dns, warp, late, vm, before, swapped, meddled>>
  BY DEF Conclude, At, env
<1>2. worker \in Worker /\ worker.op = "start"
  BY <1>1, Searching
<1>3. CASE Complete(TRUE) /\ UNCHANGED mishap
  <2>1. (late' # {} => mishap') /\ (Undisturbed' <=> Undisturbed)
    BY <1>1, <1>3, MishapsStay DEF Undisturbed
  <2>2. /\ worker' = None /\ report' \in Report
        /\ report'.op = worker.op /\ report'.ok = TRUE
        /\ report'.route = worker.route /\ report'.previous = worker.previous
        /\ report'.dnsChanged = (worker.tempDns \/ worker.reply = "picked")
        /\ report'.name = (IF worker.route = "dns" THEN worker.chosen ELSE None)
    BY <1>2, <1>3, CompletedFields
  <2>3. ASSUME Undisturbed
        PROVE  vm.profile = report'.previous /\ OutcomeFits(report)'
    <3>1. SearchKeepsDns
      BY <1>1, <1>2, <2>3, SearchKnows
    <3>2. vm.profile = report'.previous
      BY <2>2, <3>1 DEF SearchKeepsDns
    <3>3. ~report'.dnsChanged => dns' = Setting(report'.previous)
      BY <1>1, <2>2, <3>1 DEF SearchKeepsDns
    <3>4. report'.route = "dns" =>
             report'.name # None /\ (~NamedPrevious(report)' => dns' = report'.name)
      BY <1>1, <2>2, <3>1, <3>3 DEF SearchKeepsDns, NamedPrevious, Setting
    <3>5. report'.route # "dns" => ~report'.dnsChanged
      BY <1>1, <2>2, <3>1 DEF SearchKeepsDns
    <3> QED
      BY <3>2, <3>3, <3>4, <3>5 DEF OutcomeFits, NamedPrevious, Setting
  <2> QED
    BY <1>1, <1>2, <2>1, <2>2, <2>3, ReportStep
<1>4. CASE Cleanup(FALSE) /\ mishap' /\ UNCHANGED report
  <2>1. worker' \in Worker /\ worker'.op = "start"
    BY <1>2, <1>4, CleanupFields
  <2> QED
    BY <1>1, <1>2, <1>4, <2>1, SearchStep DEF Undisturbed
<1> QED
  BY <1>3, <1>4 DEF Conclude

LEMMA UndoWarpNet == ASSUME IInv, IInv', NetInv, UndoWarp PROVE NetInv'
<1>1. /\ worker # None /\ worker.pc = "undoWarp"
      /\ UNCHANGED <<dns, late, vm, report, before, swapped, meddled>>
  BY DEF UndoWarp, At
<1>2. PICK ok \in BOOLEAN :
         /\ HangUp(worker.tempWarp = "own", ok)
         /\ worker' = [worker EXCEPT !.pc = "undoDns", !.ok = @ /\ ok]
  BY DEF UndoWarp
<1>3. worker \in Worker /\ worker.op \in {"start", "stop"}
  BY <1>1, WorkerFields DEF IInv, TypeOK
<1>4. /\ worker' \in Worker /\ worker'.op = worker.op /\ worker'.previous = worker.previous
      /\ worker'.tempDns = worker.tempDns /\ worker'.tempWarp = worker.tempWarp
      /\ worker'.pc = "undoDns" /\ worker'.reply = worker.reply
  BY <1>2, <1>3, UndoneFields
<1>5. mishap => mishap'
  BY <1>2 DEF HangUp
<1>6. ~mishap' => IF worker.tempWarp = "own" THEN warp' = "off" ELSE UNCHANGED warp
  BY <1>2 DEF HangUp
<1>7. late' # {} => mishap'
  BY <1>1, <1>5, MishapsStay
<1>8. Undisturbed' => Undisturbed /\ ~mishap'
  BY <1>1, <1>5 DEF Undisturbed
<1>9. CASE worker.op = "start"
  <2>1. ASSUME Undisturbed' PROVE SearchKeepsDns' /\ SearchKeepsWarp'
    <3>1. SearchKeepsDns /\ SearchKeepsWarp
      BY <1>1, <1>8, <1>9, <2>1, SearchKnows
    <3>2. (warp' = "app") <=> before.own
      BY <1>1, <1>6, <1>8, <2>1, <3>1 DEF SearchKeepsWarp
    <3> QED
      BY <1>1, <1>4, <3>1, <3>2 DEF SearchKeepsDns, SearchKeepsWarp, Unchanged
  <2> QED
    BY <1>1, <1>4, <1>7, <1>8, <1>9, <2>1, SearchStep
<1>10. CASE worker.op = "stop"
  <2>1. vm.up /\ vm.busy /\ vm.session # None /\ report = None
    BY <1>1, <1>10 DEF IInv, OperationMatchesSession, BusyTracksWorker
  <2>2. PageFits'
    BY <1>1, <1>7, <2>1, NoneAssumption DEF NetInv, PageFits
  <2>3. Undisturbed' => AtRestFits' /\ SearchFits' /\ ReportFits'
    BY <1>1, <1>4, <1>10, <2>1 DEF AtRestFits, SearchFits, ReportFits
  <2>4. Undisturbed' => StopFits'
    BY <1>1, <1>4, <1>8, <1>10 DEF NetInv, StopFits
  <2>5. Undisturbed' => SessionFits'
    BY <1>1, <1>8 DEF NetInv, SessionFits, OutcomeFits, NamedPrevious
  <2> QED
    BY <2>2, <2>3, <2>4, <2>5 DEF NetInv
<1> QED
  BY <1>3, <1>9, <1>10

LEMMA UndoDnsNet == ASSUME IInv, IInv', NetInv, UndoDns PROVE NetInv'
<1>1. /\ worker # None /\ worker.pc = "undoDns" /\ report = None
      /\ UNCHANGED <<warp, vm, before, swapped, meddled>>
  BY DEF UndoDns, At, IInv, BusyTracksWorker
<1>2. worker \in Worker /\ worker.op \in {"start", "stop"} /\ worker.ok \in BOOLEAN
  BY <1>1, WorkerFields DEF IInv, TypeOK
<1>3. CASE /\ dns' = IF worker.tempDns THEN Target ELSE dns
           /\ Complete(worker.ok) /\ UNCHANGED <<late, mishap>>
  <2>1. (late' # {} => mishap') /\ (Undisturbed' <=> Undisturbed)
    BY <1>1, <1>3, MishapsStay DEF Undisturbed
  <2>2. /\ worker' = None /\ report' \in Report
        /\ report'.op = worker.op /\ report'.ok = worker.ok
        /\ report'.previous = worker.previous
    BY <1>2, <1>3, CompletedFields
  <2>3. Target = Setting(worker.previous)
    BY DEF Target, Setting
  <2>4. CASE worker.op = "start"
    <3>1. ~worker.ok
      BY <1>1, <2>4 DEF IInv, OperationMatchesSession
    <3>2. ASSUME Undisturbed
          PROVE  /\ vm.profile = report'.previous /\ dns' = Setting(report'.previous)
                 /\ (Network = before)'
      <4>1. SearchKeepsDns /\ SearchKeepsWarp
        BY <1>1, <2>4, <3>2, SearchKnows
      <4>2. vm.profile = worker.previous /\ dns' = Setting(worker.previous)
            /\ dns' = before.dns
        BY <1>1, <1>3, <2>3, <4>1 DEF SearchKeepsDns
      <4>3. (warp' = "app") <=> before.own
        BY <1>1, <4>1 DEF SearchKeepsWarp
      <4>4. before \in [dns : Dns, own : BOOLEAN]
        BY DEF IInv, TypeOK
      <4>5. before = [dns |-> before.dns, own |-> before.own]
        BY <4>4
      <4>6. (warp' = "app") = before.own
        BY <4>3, <4>4
      <4>7. (Network = before)'
        BY <1>1, <4>2, <4>5, <4>6 DEF Network
      <4> QED
        BY <2>2, <4>2, <4>7
    <3> QED
      BY <1>1, <2>1, <2>2, <2>4, <3>1, <3>2, ReportStep
  <2>5. CASE worker.op = "stop"
    <3>1. vm.session # None
      BY <1>1, <2>5 DEF IInv, OperationMatchesSession
    <3>2. ASSUME Undisturbed
          PROVE  /\ vm.profile = IF vm.session.route = "dns" THEN vm.session.name
                                 ELSE vm.session.previous
                 /\ dns' = Setting(report'.previous)
      <4>1. StopFits /\ SessionFits
        BY <3>2 DEF NetInv
      <4>2. ~worker.tempDns => dns = Setting(worker.previous)
        BY <1>1, <2>5, <3>1, <4>1 DEF StopFits, SessionFits, OutcomeFits
      <4> QED
        BY <1>1, <1>3, <2>2, <2>3, <3>1, <4>1, <4>2 DEF SessionFits
    <3> QED
      BY <1>1, <2>1, <2>2, <2>5, <3>1, <3>2, ReportStep
  <2> QED
    BY <1>2, <2>4, <2>5
<1>4. CASE DnsFails(Target) /\ Complete(FALSE)
  <2>1. worker' = None /\ report' \in Report /\ report'.op = worker.op
    BY <1>2, <1>4, CompletedFields
  <2>2. mishap'
    BY <1>4 DEF DnsFails
  <2> QED
    BY <1>1, <2>1, <2>2, ReportStep DEF Undisturbed
<1> QED
  BY <1>3, <1>4 DEF UndoDns

-------------------------------------------------------------------------------
(***************************************************************************)
(* The GUI thread and the environment, for the invariant of the network    *)
(***************************************************************************)
LEMMA StartedVm ==
    ASSUME vm \in ViewModel, report \in Report, vm' = SessionStarted
    PROVE  /\ vm'.up = vm.up /\ ~vm'.busy /\ vm'.session = report
           /\ vm'.connected = (vm.connected \/ report.route = "dns")
           /\ vm'.profile = IF report.route = "dns" THEN report.name ELSE vm.profile
<1>1. /\ Idle \in ViewModel /\ Idle.up = vm.up /\ ~Idle.busy
      /\ Idle.connected = vm.connected /\ Idle.profile = vm.profile
  BY DEF Idle, ViewModel
<1> QED
  BY <1>1 DEF SessionStarted, ViewModel

LEMMA StoppedVm ==
    ASSUME vm \in ViewModel, report \in Report, vm' = SessionStopped
    PROVE  /\ vm'.up = vm.up /\ ~vm'.busy /\ vm'.session = None
           /\ vm'.connected = (report.previous # None)
           /\ vm'.profile = report.previous
<1>1. Idle \in ViewModel /\ Idle.up = vm.up /\ ~Idle.busy
  BY DEF Idle, ViewModel
<1> QED
  BY <1>1 DEF SessionStopped, ViewModel

LEMMA IdleVm ==
    ASSUME vm \in ViewModel, vm' = Idle
    PROVE  /\ vm'.up = vm.up /\ ~vm'.busy /\ vm'.session = vm.session
           /\ vm'.connected = vm.connected /\ vm'.profile = vm.profile
  BY DEF Idle, ViewModel

LEMMA StartNet == ASSUME IInv, NetInv, Start PROVE NetInv'
<1>1. worker = None /\ report = None
  BY DEF NetInv, PageFits, Start
<1>2. /\ vm'.up /\ vm'.session = None /\ ~vm'.connected /\ vm'.profile = None
  BY DEF Start, Down
<1>3. worker' = None /\ report' = None /\ late' = late
  BY <1>1 DEF Start
<1>4. mishap => mishap'
  BY DEF Start
<1>5. Undisturbed' => dns' = Original
  BY DEF Start, Undisturbed
<1> QED
  BY <1>2, <1>3, <1>4, <1>5 DEF NetInv, PageFits, AtRestFits, Shown, SessionFits,
     SearchFits, StopFits, ReportFits

LEMMA StartAppAccessNet == ASSUME IInv, NetInv, StartAppAccess PROVE NetInv'
<1>1. /\ vm \in ViewModel /\ vm.up /\ ~vm.busy /\ vm.session = None
      /\ worker = None /\ report = None /\ report' = None
      /\ UNCHANGED <<dns, warp, late>>
  BY DEF StartAppAccess, IInv, TypeOK, BusyTracksWorker, env
<1>2. /\ vm'.up /\ vm'.busy /\ vm'.session = None
      /\ vm'.connected = vm.connected /\ vm'.profile = vm.profile
  BY <1>1 DEF StartAppAccess, ViewModel
<1>3. (IF vm.connected THEN vm.profile ELSE None) = vm.profile
      /\ Shown = Setting(vm.profile)
  BY DEF NetInv, PageFits, Shown, Setting
<1>4. vm.profile \in Profiles \cup {None}
  BY <1>1, VmFields
<1>5. worker' = NewWorker("start", "baseline", vm.profile)
  BY <1>3 DEF StartAppAccess
<1>6. /\ worker' \in Worker /\ worker' # None
      /\ worker'.op = "start" /\ worker'.pc = "baseline" /\ worker'.tempWarp = "none"
  BY <1>4, <1>5, SearchWorker, NoneAssumption
<1>7. worker'.previous = vm.profile /\ ~worker'.tempDns /\ worker'.reply = "none"
  BY <1>5 DEF NewWorker
<1>8. before'.dns = dns /\ before'.own = (warp = "app")
  BY DEF StartAppAccess, Network
<1>9. PageFits'
  BY <1>1, <1>2 DEF NetInv, PageFits, StartAppAccess, AsShown
<1>10. ASSUME Undisturbed' PROVE SearchKeepsDns' /\ SearchKeepsWarp'
  <2>1. dns = Setting(vm.profile)
    <3>1. CASE AsShown
      BY <1>3, <3>1 DEF AsShown, Shown
    <3>2. CASE ~AsShown
      BY <1>1, <1>3, <1>10, <3>2 DEF StartAppAccess, Undisturbed, NetInv, AtRestFits
    <3> QED
      BY <3>1, <3>2
  <2> QED
    BY <1>1, <1>2, <1>6, <1>7, <1>8, <2>1 DEF SearchKeepsDns, SearchKeepsWarp, Unchanged,
       Setting
<1> QED
  BY <1>1, <1>2, <1>6, <1>9, <1>10 DEF NetInv, AtRestFits, SessionFits, SearchFits,
     StopFits, ReportFits

\* A step of the main page that shows nothing else.
LEMMA SameNet ==
    ASSUME NetInv, vm.up, vm'.up, vm'.busy = vm.busy,
           vm'.connected = vm.connected, vm'.profile = vm.profile,
           vm'.session = vm.session,
           UNCHANGED <<env, worker, report, hist>>
    PROVE  NetInv'
<1>1. PageFits'
  BY DEF NetInv, PageFits, env, hist
<1>2. AtRestFits => AtRestFits'
  BY DEF AtRestFits, Shown, env
<1>3. SessionFits => SessionFits'
  BY DEF SessionFits, OutcomeFits, NamedPrevious, Setting, env
<1>4. SearchFits => SearchFits'
  BY DEF SearchFits, SearchKeepsDns, SearchKeepsWarp, Setting, Unchanged, env, hist
<1>5. (StopFits => StopFits') /\ (ReportFits => ReportFits')
  BY DEF StopFits, ReportFits, OutcomeFits, NamedPrevious, Setting, Network, env, hist
<1> QED
  BY <1>1, <1>2, <1>3, <1>4, <1>5 DEF NetInv, Undisturbed, hist

LEMMA CancelAppAccessNet == ASSUME IInv, NetInv, CancelAppAccess PROVE NetInv'
<1>1. /\ vm.up /\ vm'.up /\ vm'.busy = vm.busy /\ vm'.connected = vm.connected
      /\ vm'.profile = vm.profile /\ vm'.session = vm.session
  BY DEF IInv, TypeOK, CancelAppAccess, ViewModel
<1> QED
  BY <1>1, SameNet DEF CancelAppAccess

LEMMA StopAppAccessNet == ASSUME IInv, NetInv, StopAppAccess PROVE NetInv'
<1>1. /\ vm \in ViewModel /\ vm.up /\ ~vm.busy /\ vm.session # None
      /\ worker = None /\ report = None /\ report' = None
      /\ UNCHANGED <<dns, warp, intent, late, before, mishap, swapped, meddled>>
  BY DEF StopAppAccess, IInv, TypeOK, BusyTracksWorker, env, hist
<1>2. /\ vm'.up /\ vm'.busy /\ vm'.session = vm.session
      /\ vm'.connected = vm.connected /\ vm'.profile = vm.profile
  BY <1>1 DEF StopAppAccess, ViewModel
<1>3. vm.session \in Report
  BY <1>1, VmFields
<1>4. worker' \in Worker /\ worker' # None /\ worker'.op = "stop"
  BY <1>3, StoppingWorker, NoneAssumption DEF StopAppAccess
<1>5. /\ worker'.previous = vm.session.previous
      /\ worker'.tempDns = vm.session.dnsChanged /\ worker'.reply = "none"
  BY DEF StopAppAccess, StopWorker, NewWorker
<1>6. PageFits' /\ (Undisturbed' <=> Undisturbed)
  BY <1>1, <1>2 DEF NetInv, PageFits, Undisturbed
<1>7. SessionFits => SessionFits'
  BY <1>1, <1>2 DEF SessionFits, OutcomeFits, NamedPrevious, Setting
<1>8. AtRestFits' /\ SearchFits' /\ StopFits' /\ ReportFits'
  BY <1>1, <1>2, <1>4, <1>5 DEF AtRestFits, SearchFits, StopFits, ReportFits
<1> QED
  BY <1>6, <1>7, <1>8 DEF NetInv

LEMMA WatchTickNet == ASSUME IInv, NetInv, WatchTick PROVE NetInv'
<1>1. CASE StopAppAccess
  BY <1>1, StopAppAccessNet
<1>2. CASE vm.up /\ vm' = [vm EXCEPT !.seen = TRUE]
           /\ UNCHANGED <<env, elevated, worker, report, hist>>
  <2>1. /\ vm'.up /\ vm'.busy = vm.busy /\ vm'.connected = vm.connected
        /\ vm'.profile = vm.profile /\ vm'.session = vm.session
    BY <1>2 DEF IInv, TypeOK, ViewModel
  <2> QED
    BY <1>2, <2>1, SameNet
<1> QED
  BY <1>1, <1>2 DEF WatchTick

LEMMA OnCompletedNet == ASSUME IInv, NetInv, Chosen, OnCompleted PROVE NetInv'
<1>1. /\ vm \in ViewModel /\ vm.up /\ report \in Report /\ report # None
      /\ worker = None /\ worker' = None /\ report' = None
      /\ UNCHANGED <<dns, warp, intent, late, before, mishap, swapped, meddled>>
  BY DEF IInv, TypeOK, OnCompleted, BusyTracksWorker, env, hist
<1>2. report.op \in {"start", "stop"} /\ report.ok \in BOOLEAN
  BY <1>1 DEF Report
<1>3. Undisturbed' <=> Undisturbed
  BY <1>1 DEF Undisturbed
<1>4. SearchFits' /\ StopFits' /\ ReportFits'
  BY <1>1 DEF SearchFits, StopFits, ReportFits
<1>5. CASE report.ok /\ report.op = "start"
  <2>1. vm' = SessionStarted
    BY <1>5 DEF OnCompleted
  <2>2. /\ vm'.up /\ ~vm'.busy /\ vm'.session = report
        /\ vm'.connected = (vm.connected \/ report.route = "dns")
        /\ vm'.profile = IF report.route = "dns" THEN report.name ELSE vm.profile
    BY <1>1, <2>1, StartedVm
  <2>3. PageFits'
    BY <1>1, <1>5, <2>2 DEF NetInv, PageFits, Chosen
  <2>4. Undisturbed => vm.profile = report.previous /\ OutcomeFits(report)
    BY <1>1, <1>5 DEF NetInv, ReportFits
  <2>5. Undisturbed => SessionFits'
    BY <1>1, <2>2, <2>4 DEF SessionFits, OutcomeFits, NamedPrevious, Setting
  <2>6. AtRestFits'
    BY <1>1, <2>2 DEF AtRestFits
  <2> QED
    BY <1>3, <1>4, <2>3, <2>5, <2>6 DEF NetInv
<1>6. CASE report.ok /\ report.op = "stop"
  <2>1. vm' = SessionStopped
    BY <1>6 DEF OnCompleted
  <2>2. /\ vm'.up /\ ~vm'.busy /\ vm'.session = None
        /\ vm'.connected = (report.previous # None) /\ vm'.profile = report.previous
    BY <1>1, <2>1, StoppedVm
  <2>3. PageFits' /\ SessionFits'
    BY <1>1, <2>2 DEF NetInv, PageFits, SessionFits
  <2>4. Undisturbed => dns = Setting(report.previous)
    BY <1>1, <1>6 DEF NetInv, ReportFits
  <2>5. Undisturbed => AtRestFits'
    BY <1>1, <2>2, <2>4 DEF AtRestFits, Shown, Setting
  <2> QED
    BY <1>3, <1>4, <2>3, <2>5 DEF NetInv
<1>7. CASE ~report.ok
  <2>1. vm' = Idle
    BY <1>7 DEF OnCompleted
  <2>2. /\ vm'.up /\ ~vm'.busy /\ vm'.session = vm.session
        /\ vm'.connected = vm.connected /\ vm'.profile = vm.profile
    BY <1>1, <2>1, IdleVm
  <2>3. PageFits'
    BY <1>1, <2>2 DEF NetInv, PageFits
  <2>4. ASSUME Undisturbed PROVE AtRestFits' /\ SessionFits'
    <3>1. report.op = "start" /\ vm.session = None
      BY <1>1, <1>2, <1>7, <2>4 DEF Undisturbed, IInv, OperationMatchesSession
    <3>2. vm.profile = report.previous /\ dns = Setting(report.previous)
      BY <1>1, <1>7, <2>4, <3>1 DEF NetInv, ReportFits
    <3>3. vm.connected <=> vm.profile # None
      BY DEF NetInv, PageFits
    <3> QED
      BY <1>1, <2>2, <3>1, <3>2, <3>3 DEF AtRestFits, SessionFits, Shown, Setting
  <2> QED
    BY <1>3, <1>4, <2>3, <2>4 DEF NetInv
<1> QED
  BY <1>2, <1>5, <1>6, <1>7

\* DNS is connected and disconnected by hand only while no operation is at work;
\* while there is a session, that is meddling.
LEMMA MainPageNet ==
    ASSUME IInv, NetInv, vm.up, ~vm.busy, vm'.up, vm'.session = vm.session,
           vm'.connected <=> vm'.profile # None, mishap => mishap',
           UNCHANGED <<worker, report, late>>,
           meddled' = (meddled \/ vm.session # None),
           ~mishap' => dns' = IF vm'.connected THEN vm'.profile ELSE Original
    PROVE  NetInv'
<1>1. worker = None /\ report = None
  BY DEF IInv, BusyTracksWorker
<1>2. PageFits'
  BY DEF NetInv, PageFits
<1>3. Undisturbed' => vm.session = None /\ ~mishap'
  BY DEF Undisturbed
<1>4. Undisturbed' => AtRestFits' /\ SessionFits'
  BY <1>3 DEF AtRestFits, SessionFits, Shown
<1>5. SearchFits' /\ StopFits' /\ ReportFits'
  BY <1>1 DEF SearchFits, StopFits, ReportFits
<1> QED
  BY <1>2, <1>4, <1>5 DEF NetInv

LEMMA ConnectDnsNet ==
    ASSUME IInv, NetInv, NEW p \in Profiles, ConnectDns(p) PROVE NetInv'
<1>1. /\ vm'.up /\ vm'.session = vm.session /\ vm'.connected /\ vm'.profile = p
  BY DEF IInv, TypeOK, ViewModel, ConnectDns
<1>2. p # None
  BY ProfilesAssumption
<1> QED
  BY <1>1, <1>2, MainPageNet DEF ConnectDns

LEMMA DisconnectDnsNet == ASSUME IInv, NetInv, DisconnectDns PROVE NetInv'
<1>1. /\ vm'.up /\ vm'.session = vm.session /\ ~vm'.connected /\ vm'.profile = None
  BY DEF IInv, TypeOK, ViewModel, DisconnectDns
<1>2. (mishap => mishap') /\ (~mishap' => dns' = Original)
  BY DEF DisconnectDns
<1> QED
  BY <1>1, <1>2, MainPageNet DEF DisconnectDns

LEMMA LateHelperNet == ASSUME IInv, NetInv, NEW s \in Dns, LateHelper(s) PROVE NetInv'
<1>1. mishap /\ mishap' /\ UNCHANGED <<vm, worker, report>>
  BY DEF NetInv, PageFits, LateHelper, hist
<1> QED
  BY <1>1 DEF NetInv, PageFits, Undisturbed

LEMMA UserWarpNet == ASSUME IInv, NetInv, UserWarp PROVE NetInv'
<1>1. UNCHANGED <<dns, vm, worker, report, late, before, mishap, swapped>>
  BY DEF UserWarp
<1>2. PageFits'
  BY <1>1 DEF NetInv, PageFits
<1>3. Undisturbed' => Undisturbed /\ (warp = "app" <=> warp' = "app")
  BY DEF UserWarp, Undisturbed
<1>4. ASSUME Undisturbed'
      PROVE  AtRestFits' /\ SessionFits' /\ SearchFits' /\ StopFits' /\ ReportFits'
  <2>1. AtRestFits /\ SessionFits /\ SearchFits /\ StopFits /\ ReportFits
    BY <1>3, <1>4 DEF NetInv
  <2>2. AtRestFits' /\ SessionFits' /\ StopFits'
    BY <1>1, <2>1 DEF AtRestFits, Shown, SessionFits, StopFits, OutcomeFits, NamedPrevious,
       Setting
  <2>3. SearchFits'
    BY <1>1, <1>3, <1>4, <2>1 DEF SearchFits, SearchKeepsDns, SearchKeepsWarp, Setting,
       Unchanged
  <2>4. Network' = Network
    BY <1>1, <1>3, <1>4 DEF Network
  <2>5. ReportFits'
    BY <1>1, <2>1, <2>4 DEF ReportFits, OutcomeFits, NamedPrevious, Setting
  <2> QED
    BY <2>2, <2>3, <2>5
<1> QED
  BY <1>2, <1>4 DEF NetInv

LEMMA ExitNet == ASSUME IInv, NetInv, Exit PROVE NetInv'
<1>1. worker' = None /\ report' = None /\ vm' = Down
  BY DEF Exit
<1>2. ~vm'.up /\ vm'.session = None /\ ~vm'.connected /\ vm'.profile = None
  BY <1>1 DEF Down
<1>3. late' # {} => mishap'
  <2>1. CASE worker = None
    BY <2>1 DEF Exit, At, NetInv, PageFits
  <2>2. CASE worker # None
    BY <2>2 DEF Exit, IInv, BusyTracksWorker
  <2> QED
    BY <2>1, <2>2
<1>4. ~mishap' => dns' = Original
  BY DEF Exit
<1> QED
  BY <1>1, <1>2, <1>3, <1>4 DEF NetInv, PageFits, AtRestFits, SessionFits, SearchFits,
     StopFits, ReportFits

LEMMA StutterNet == ASSUME NetInv, UNCHANGED vars PROVE NetInv'
<1>1. UNCHANGED <<dns, warp, intent, elevated, vm, worker, report, late,
                  before, mishap, swapped, meddled>>
  BY DEF vars
<1>2. (PageFits => PageFits') /\ (AtRestFits => AtRestFits') /\ (StopFits => StopFits')
  BY <1>1 DEF PageFits, AtRestFits, Shown, StopFits
<1>3. (SessionFits => SessionFits') /\ (ReportFits => ReportFits')
  BY <1>1 DEF SessionFits, ReportFits, OutcomeFits, NamedPrevious, Setting, Network
<1>4. SearchFits => SearchFits'
  BY <1>1 DEF SearchFits, SearchKeepsDns, SearchKeepsWarp, Setting, Unchanged
<1> QED
  BY <1>1, <1>2, <1>3, <1>4 DEF NetInv, Undisturbed

LEMMA InitNet == Init => NetInv /\ Chosen
<1> SUFFICES ASSUME Init PROVE NetInv /\ Chosen
  OBVIOUS
<1>1. worker = None /\ report = None /\ vm = Down /\ late = {} /\ dns = Original
  BY DEF Init
<1>2. ~vm.up /\ vm.session = None /\ ~vm.connected /\ vm.profile = None
  BY <1>1 DEF Down
<1> QED
  BY <1>1, <1>2 DEF NetInv, PageFits, AtRestFits, SessionFits, SearchFits, StopFits,
     ReportFits, Chosen

-------------------------------------------------------------------------------
(***************************************************************************)
(* A route is a profile                                                    *)
(***************************************************************************)
LEMMA WorkerStepChosen == ASSUME IInv, Chosen, WorkerStep PROVE Chosen'
<1>1. worker \in Worker /\ worker # None /\ report = None
  BY DEF IInv, TypeOK, BusyTracksWorker, WorkerStep, Baseline, Rank, Prompt, HelperGivesUp,
     BatchTimesOut, Answered, HelperTries, Try, Probe, PutBack, TryWarp, Dial, Verify,
     SetIntent, Dialled, WarpProbe, Conclude, UndoWarp, UndoDns, At
<1> DEFINE Held == /\ worker' \in Worker /\ report' = None
                   /\ (\/ worker'.pc = "probe"
                       \/ worker'.reply = "picked"
                       \/ worker'.pc = "conclude" /\ worker'.route = "dns")
                          => worker'.chosen # None
<1>2. Held => Chosen'
  BY NoneAssumption DEF Chosen
<1> HIDE DEF Held
<1> USE <1>2
<1>3. ASSUME NEW c \in BOOLEAN, Cleanup(c), UNCHANGED report PROVE Held
  BY <1>1, <1>3, CleanupFields DEF Held, Chosen
<1>4. ASSUME GiveUp, UNCHANGED report PROVE Held
  BY <1>1, <1>4, GiveUpFields DEF Held, Chosen
<1>5. ASSUME NEW pc \in Waits \ {"probe", "answered", "conclude"}, Goto(pc), UNCHANGED report
      PROVE  Held
  BY <1>1, <1>5, GotoFields DEF Held, Chosen
<1>6. ASSUME NEW route \in {"current", "warp"}, Take(route), UNCHANGED report PROVE Held
  BY <1>1, <1>6, TakeFields DEF Held, Chosen, Routes
<1>7. ASSUME NEW reply \in Replies \ {"picked"}, Answer(reply), UNCHANGED report PROVE Held
  BY <1>1, <1>7, AnswerFields DEF Held, Chosen
<1>8. CASE Baseline
  BY <1>3, <1>5, <1>6, <1>8 DEF Baseline, Waits
<1>9. CASE Rank
  <2>1. CASE ~Cleanup(TRUE)
    <3>1. PICK todo \in SUBSET Profiles :
             worker' = [worker EXCEPT !.todo = todo,
                          !.pc = IF todo = {} THEN "warp"
                                 ELSE IF elevated THEN "try" ELSE "prompt"]
      BY <1>9, <2>1 DEF Rank
    <3> DEFINE pc == IF todo = {} THEN "warp" ELSE IF elevated THEN "try" ELSE "prompt"
    <3>2. pc \in Waits /\ pc \notin {"probe", "answered", "conclude"}
      BY DEF Waits
    <3>3. worker' = [worker EXCEPT !.todo = todo, !.pc = pc]
      BY <3>1
    <3> HIDE DEF pc
    <3> QED
      BY <1>1, <1>9, <3>2, <3>3, RankedFields DEF Held, Chosen, Rank
  <2> QED
    BY <1>3, <1>9, <2>1 DEF Rank
<1>10. CASE Prompt
  <2>1. CASE Goto("batch")
    BY <1>5, <1>10, <2>1 DEF Prompt, Waits
  <2>2. CASE Goto("answered")
    BY <1>1, <1>10, <2>2, GotoFields DEF Held, Chosen, Prompt, Waits
  <2> QED
    BY <1>10, <2>1, <2>2 DEF Prompt
<1>11. CASE HelperGivesUp
  BY <1>7, <1>11 DEF HelperGivesUp, Replies
<1>12. CASE BatchTimesOut
  BY <1>7, <1>12 DEF BatchTimesOut, Replies
<1>13. CASE Answered
  <2>1. worker.reply = "picked" => worker.chosen # None
    BY <1>1, <1>13 DEF Answered, At, Chosen
  <2>2. CASE Take("dns") /\ worker.reply = "picked"
    BY <1>1, <1>13, <2>1, <2>2, TakeFields DEF Held, Chosen, Answered, Routes
  <2>3. CASE worker' = [worker EXCEPT !.tempDns = (worker.reply = "picked"),
                                      !.cancelled = TRUE, !.ok = FALSE, !.pc = "undoWarp"]
    BY <1>1, <1>13, <2>3, StoppedFields DEF Held, Chosen, Answered
  <2> QED
    BY <1>3, <1>5, <1>13, <2>2, <2>3 DEF Answered, Waits
<1>14. CASE \E p \in Profiles : HelperTries(p)
  <2>1. PICK p \in Profiles : HelperTries(p)
    BY <1>14
  <2>2. CASE worker' = [worker EXCEPT !.todo = @ \ {p}, !.reply = "tried"]
    BY <1>1, <2>1, <2>2, TriedFields DEF Held, Chosen, HelperTries, At
  <2>3. CASE worker' = [worker EXCEPT !.reply = "picked", !.chosen = p, !.pc = "answered"]
    BY <1>1, <2>1, <2>3, PickedFields, ProfilesAssumption DEF Held, Chosen, HelperTries
  <2> QED
    BY <2>1, <2>2, <2>3 DEF HelperTries
<1>15. CASE Try
  <2>1. CASE Goto(IF worker.tempDns THEN "putback" ELSE "warp")
    BY <1>5, <1>15, <2>1 DEF Try, Waits
  <2>2. ASSUME NEW p \in worker.todo,
               worker' = [worker EXCEPT !.pc = "probe", !.chosen = p, !.todo = @ \ {p},
                             !.tempDns = @ \/ ~(vm.connected /\ vm.profile = p)]
        PROVE  Held
    <3>1. p \in Profiles /\ p # None
      BY <1>1, WorkerFields, ProfilesAssumption
    <3> DEFINE b == worker.tempDns \/ ~(vm.connected /\ vm.profile = p)
    <3>2. b \in BOOLEAN
      BY <1>1, WorkerFields
    <3>3. worker' = [worker EXCEPT !.pc = "probe", !.chosen = p, !.todo = @ \ {p},
                                   !.tempDns = b]
      BY <1>1, <2>2 DEF Worker
    <3> HIDE DEF b
    <3> QED
      BY <1>1, <1>15, <3>1, <3>2, <3>3, AppliedFields DEF Held, Chosen, Try
  <2>3. ASSUME NEW p \in worker.todo, worker' = [worker EXCEPT !.todo = @ \ {p}]
        PROVE  Held
    <3>1. p \in Profiles
      BY <1>1, WorkerFields
    <3> QED
      BY <1>1, <1>15, <2>3, <3>1, SkippedFields DEF Held, Chosen, Try, At
  <2> QED
    BY <1>3, <1>15, <2>1, <2>2, <2>3 DEF Try
<1>16. CASE Probe
  <2>1. CASE Take("dns")
    BY <1>1, <1>16, <2>1, TakeFields DEF Held, Chosen, Probe, At, Routes
  <2> QED
    BY <1>3, <1>5, <1>16, <2>1 DEF Probe, Waits
<1>17. CASE PutBack
  <2>1. CASE worker' = [worker EXCEPT !.tempDns = FALSE, !.pc = "warp"]
    BY <1>1, <1>17, <2>1, RestoredFields DEF Held, Chosen, PutBack
  <2> QED
    BY <1>3, <1>17, <2>1 DEF PutBack
<1>18. CASE TryWarp
  <2>1. CASE worker' = [worker EXCEPT !.pc = "warpProbe", !.tempWarp = "foreign"]
    BY <1>1, <1>18, <2>1, AdoptedFields DEF Held, Chosen, TryWarp
  <2> QED
    BY <1>3, <1>4, <1>5, <1>18, <2>1 DEF TryWarp, Waits
<1>19. CASE Dial
  BY <1>5, <1>19 DEF Dial, Waits
<1>20. CASE Verify
  BY <1>5, <1>20 DEF Verify, Waits
<1>21. CASE SetIntent
  BY <1>1, <1>21, OwnedFields DEF Held, Chosen, SetIntent
<1>22. CASE Dialled
  BY <1>3, <1>4, <1>5, <1>22 DEF Dialled, Waits
<1>23. CASE WarpProbe
  BY <1>4, <1>6, <1>23 DEF WarpProbe
<1>24. CASE Conclude
  <2>1. CASE Complete(TRUE)
    <3>1. worker.route = "dns" => worker.chosen # None
      BY <1>1, <1>24 DEF Conclude, At, Chosen
    <3> QED
      BY <1>1, <2>1, <3>1, CompletedFields DEF Chosen
  <2> QED
    BY <1>2, <1>3, <1>24, <2>1 DEF Conclude
<1>25. CASE UndoWarp
  BY <1>1, <1>25, UndoneFields DEF Held, Chosen, UndoWarp
<1>26. CASE UndoDns
  <2>1. PICK ok \in BOOLEAN : Complete(ok) /\ (worker.op = "start" => ~ok)
    BY <1>1, <1>26, WorkerFields DEF UndoDns, At, IInv, OperationMatchesSession
  <2> QED
    BY <1>1, <2>1, CompletedFields DEF Chosen
<1> QED
  BY <1>2, <1>8, <1>9, <1>10, <1>11, <1>12, <1>13, <1>14, <1>15, <1>16, <1>17, <1>18,
     <1>19, <1>20, <1>21, <1>22, <1>23, <1>24, <1>25, <1>26 DEF WorkerStep

LEMMA NextChosen == ASSUME IInv, Chosen, [Next]_vars PROVE Chosen'
<1>1. CASE WorkerStep
  BY <1>1, WorkerStepChosen
<1>2. CASE UNCHANGED <<worker, report>>
  BY <1>2 DEF Chosen
<1>3. CASE StartAppAccess
  <2>1. worker'.pc = "baseline" /\ worker'.reply = "none" /\ report' = report
    BY <1>3 DEF StartAppAccess, NewWorker
  <2> QED
    BY <2>1 DEF Chosen
<1>4. CASE StopAppAccess
  <2>1. worker'.pc = "undoWarp" /\ worker'.reply = "none" /\ report' = report
    BY <1>4 DEF StopAppAccess, StopWorker, NewWorker
  <2> QED
    BY <2>1 DEF Chosen
<1>5. CASE report' = None /\ (worker' = None \/ UNCHANGED worker)
  BY <1>5 DEF Chosen
<1> QED
  BY <1>1, <1>2, <1>3, <1>4, <1>5 DEF Next, vars, Start, CancelAppAccess, WatchTick,
     OnCompleted, DisconnectDns, ConnectDns, UserWarp, Exit, LateHelper, hist

-------------------------------------------------------------------------------
(***************************************************************************)
(* The invariant of the network, and the theorems about it                 *)
(***************************************************************************)
LEMMA NextNet == IInv /\ NetInv /\ Chosen /\ [Next]_vars => IInv' /\ NetInv' /\ Chosen'
<1> SUFFICES ASSUME IInv, NetInv, Chosen, [Next]_vars PROVE IInv' /\ NetInv' /\ Chosen'
  OBVIOUS
<1>1. IInv' /\ Chosen'
  BY NextIInv, NextChosen
<1>2. CASE WorkerStep
  BY <1>1, <1>2, BaselineNet, RankNet, PromptNet, HelperTriesNet, HelperGivesUpNet,
     BatchTimesOutNet, AnsweredNet, TryNet, ProbeNet, PutBackNet, TryWarpNet, DialNet,
     VerifyNet, SetIntentNet, DialledNet, WarpProbeNet, ConcludeNet, UndoWarpNet,
     UndoDnsNet DEF WorkerStep
<1> QED
  BY <1>1, <1>2, StartNet, StartAppAccessNet, CancelAppAccessNet, StopAppAccessNet,
     WatchTickNet, OnCompletedNet, DisconnectDnsNet, ConnectDnsNet, UserWarpNet, ExitNet,
     LateHelperNet, StutterNet DEF Next

LEMMA NetworkInductive == Spec => [](IInv /\ NetInv)
<1>1. Init => IInv /\ NetInv /\ Chosen
  BY InitIInv, InitNet
<1> QED
  BY <1>1, NextNet, PTL DEF Spec

\* A search that found no route, was cancelled at any wait or failed has put DNS and
\* WARP back as they were before it - unless something outside failed, or the helper
\* put back the user's own setting and not the profile in effect.
THEOREM FailedIsUndone == Spec => []FailedLeavesNothing
<1>1. IInv /\ NetInv => FailedLeavesNothing
  BY DEF NetInv, Undisturbed, ReportFits, FailedLeavesNothing
<1> QED
  BY <1>1, NetworkInductive, PTL

\* While no operation is at work the main page shows the setting in effect, with or
\* without a session - but for a session that names the profile it started from though
\* it changed DNS.
THEOREM ShownHolds == Spec => []ShownIsReal
<1>1. ASSUME IInv, NetInv PROVE ShownIsReal
  <2>1. SUFFICES ASSUME vm.up, ~vm.busy, Undisturbed,
                        vm.session # None => ~NamedPrevious(vm.session)
                 PROVE  dns = IF vm.connected THEN vm.profile ELSE Original
    BY DEF ShownIsReal, Undisturbed
  <2>2. report = None /\ (vm.connected <=> vm.profile # None)
    BY <1>1, <2>1 DEF IInv, BusyTracksWorker, NetInv, PageFits
  <2>3. CASE vm.session = None
    BY <1>1, <2>1, <2>3 DEF NetInv, AtRestFits, Shown
  <2>4. CASE vm.session # None
    <3>1. /\ vm.profile = IF vm.session.route = "dns" THEN vm.session.name
                          ELSE vm.session.previous
          /\ OutcomeFits(vm.session)
      BY <1>1, <2>1, <2>2, <2>4 DEF NetInv, SessionFits
    <3> QED
      BY <2>1, <2>2, <2>4, <3>1 DEF OutcomeFits, Setting
  <2> QED
    BY <2>3, <2>4
<1> QED
  BY <1>1, NetworkInductive, PTL
===============================================================================
