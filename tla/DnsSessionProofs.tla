--------------------------- MODULE DnsSessionProofs ---------------------------
(***************************************************************************)
(* Theorems about DnsSession, for every number of workers, settings and    *)
(* (where nothing else is said) adapters: type correctness, the view-model *)
(* believes what is so, and, on a machine with one adapter on which no two *)
(* calls ever overlapped, the program keeps the contract of the service,   *)
(* the user's configuration is always recoverable and a disconnection that *)
(* is reported as done is exact.                                           *)
(*                                                                         *)
(* SP is the proofs about the service: once the callers are shown to keep  *)
(* its contract, its inductive invariant is theirs.                        *)
(***************************************************************************)
EXTENDS DnsSession, Integers, SequenceTheorems, FiniteSetTheorems, TLAPS

SP == INSTANCE DnsServiceProofs

-------------------------------------------------------------------------------
(***************************************************************************)
(* The inductive invariant                                                 *)
(***************************************************************************)
\* The local variables of a call are what its steps need, and an ended call
\* leaves none.
CallsTyped ==
    \A c \in Callers :
       /\ call[c].pc = "idle" => call[c] = Service!Idle
       /\ call[c].pc \in Service!SetSteps \cup {"reset", "drop"} =>
             call[c].adapter \in Adapters /\ call[c].setting \in Settings
       /\ call[c].pc = "write" => call[c].state \in Settings

\* What a worker may be waiting for; only one that waits for its call, or none
\* at all, leaves a call running.
WorkersShaped ==
    \A c \in Callers :
       /\ worker[c].role = "none" => worker[c] = NoWorker
       /\ worker[c].role = "guard" => worker[c].at = "testing"
       /\ worker[c].role = "apply" =>
             /\ worker[c].at # "asking"
             /\ worker[c].adapter \in Adapters /\ worker[c].setting \in Settings
       /\ worker[c].role \notin {"apply", "guard"} => worker[c].at # "testing"
       /\ worker[c].at \in {"testing", "asking"} => ~Service!Running(c)

\* The busy flag stands for one operation, or for its one report.
OneOperation ==
    /\ vm.busy <=> Operations # {} \/ Reports # {}
    /\ Operations = {} \/ Reports = {}
    /\ \A c, d \in Operations : c = d
    /\ \A i, j \in Reports : i = j

\* Everything that can still end in a warning is counted.
WorkBounded ==
    /\ IsFiniteSet(Working)
    /\ Cardinality(Working) + Len(inbox) + vm.warnings <= MaxWork

DownIsStopped == vm.phase = "down" => vm = Stopped

WatchedAsAsked == vm.watchdog <=> (vm.killSwitch /\ vm.connected)

\* On a machine where no two calls ever overlapped, one runs at most.
OneCall ==
    ~overlapped =>
       \A c, d \in Callers : Service!Running(c) /\ Service!Running(d) => c = d

IInv == /\ TypeOK /\ CallsTyped /\ WorkersShaped /\ OneOperation /\ WorkBounded
        /\ DownIsStopped /\ WatchedAsAsked /\ OneCall

\* A user's disconnection is at the service, or on its way back from there; it
\* has restored.
Disconnecting ==
    \/ \E c \in Callers : worker[c].role = "disconnect" /\ worker[c].at # "asking"
    \/ \E i \in DOMAIN inbox : inbox[i].kind = "disconnect"

Restored ==
    \/ \E c \in Callers :
          /\ worker[c].role = "disconnect"
          /\ \/ worker[c].at = "answered" /\ worker[c].ok
             \/ /\ worker[c].at = "calling" /\ ~Service!Running(c)
                /\ result[c] = "ok"
    \/ \E i \in DOMAIN inbox : inbox[i].kind = "disconnect" /\ inbox[i].ok

\* Nothing is changed from there on, and nothing is left to restore.
RestoredStays ==
    ~overlapped =>
       /\ Disconnecting => \A c \in Callers : call[c].pc \notin Service!SetSteps
       /\ Restored => backup = NoFile

\* A call that runs has not answered.
Undecided == \A c \in Callers : Service!Running(c) => result[c] = "none"

SInv == /\ Undecided /\ RestoredStays
        /\ ~overlapped => SP!IInv
-------------------------------------------------------------------------------
VmType == [phase : {"down", "running", "exiting"}, busy : BOOLEAN,
           connected : BOOLEAN, active : Adapters \cup {None},
           killSwitch : BOOLEAN, watchdog : BOOLEAN, warnings : 0..MaxWork]

Ops == {"apply", "disconnect"}

LEMMA NoWorkerFields ==
  /\ NoWorker \in Worker
  /\ NoWorker.role = "none" /\ NoWorker.at = "answered"
BY DEF NoWorker, Worker, Roles

LEMMA StoppedFields ==
  /\ Stopped \in VmType
  /\ Stopped.phase = "down" /\ Stopped.busy = FALSE /\ Stopped.connected = FALSE
  /\ Stopped.killSwitch = FALSE /\ Stopped.watchdog = FALSE
  /\ Stopped.warnings = 0
BY MaxWorkAssumption DEF Stopped, VmType

LEMMA TypeSplit ==
  TypeOK <=> /\ Service!TypeOK /\ elevated \in BOOLEAN /\ vm \in VmType
             /\ worker \in [Callers -> Worker] /\ inbox \in Seq(Message)
             /\ overlapped \in BOOLEAN
BY DEF TypeOK, VmType

LEMMA TypeJoin ==
  ASSUME Service!TypeOK', elevated' \in BOOLEAN, vm' \in VmType,
         worker' \in [Callers -> Worker], inbox' \in Seq(Message),
         overlapped' \in BOOLEAN
  PROVE  TypeOK'
BY DEF TypeOK, VmType

-------------------------------------------------------------------------------
(***************************************************************************)
(* The steps of a call, whoever else runs one                              *)
(***************************************************************************)
LEMMA CallFields ==
  ASSUME Service!TypeOK, NEW c \in Callers
  PROVE  /\ call[c] \in Service!Call
         /\ call[c].adapter \in Adapters \cup {None}
         /\ call[c].setting \in Settings \cup {None}
         /\ call[c].state \in Settings \cup {None}
BY DEF Service!TypeOK, Service!Call

LEMMA IdleFields ==
  /\ Service!Idle \in Service!Call
  /\ Service!Idle.pc = "idle"
BY DEF Service!Idle, Service!Call

\* What a step may do to one call.
OneCallChanges(c) ==
  \A d \in Callers \ {c} : call'[d] = call[d] /\ result'[d] = result[d]

CallTyped(e) ==
   /\ e.pc = "idle" => e = Service!Idle
   /\ e.pc \in Service!SetSteps \cup {"reset", "drop"} =>
         e.adapter \in Adapters /\ e.setting \in Settings
   /\ e.pc = "write" => e.state \in Settings

LEMMA TypedCalls == CallsTyped <=> \A c \in Callers : CallTyped(call[c])
BY DEF CallsTyped, CallTyped

LEMMA ReturnStep ==
  ASSUME Service!TypeOK, CallsTyped, NEW c \in Callers,
         NEW answer \in {"ok", "failed"}, Service!Return(c, answer)
  PROVE  /\ call' \in [Callers -> Service!Call]
         /\ result' \in [Callers -> {"none", "ok", "failed"}]
         /\ CallsTyped'
         /\ OneCallChanges(c)
         /\ call'[c] = Service!Idle
         /\ result'[c] = answer
<1>1. /\ call' = [call EXCEPT ![c] = Service!Idle]
      /\ result' = [result EXCEPT ![c] = answer]
  BY DEF Service!Return
<1>2. \A d \in Callers : call'[d] = IF d = c THEN Service!Idle ELSE call[d]
  BY <1>1 DEF Service!TypeOK
<1>3. CallTyped(Service!Idle)
  BY IdleFields DEF CallTyped, Service!SetSteps
<1>4. CallsTyped'
  BY <1>2, <1>3, TypedCalls DEF CallsTyped, CallTyped
<1> QED
  BY <1>1, <1>2, <1>4, IdleFields DEF Service!TypeOK, OneCallChanges

LEMMA MoveStep ==
  ASSUME Service!TypeOK, CallsTyped, NEW c \in Callers,
         NEW e \in Service!Call, CallTyped(e),
         call' = [call EXCEPT ![c] = e], UNCHANGED result
  PROVE  /\ call' \in [Callers -> Service!Call]
         /\ result' \in [Callers -> {"none", "ok", "failed"}]
         /\ CallsTyped'
         /\ OneCallChanges(c)
         /\ call'[c] = e
<1>1. \A d \in Callers : call'[d] = IF d = c THEN e ELSE call[d]
  BY DEF Service!TypeOK
<1>2. CallsTyped'
  BY <1>1 DEF CallsTyped, CallTyped
<1> QED
  BY <1>1, <1>2 DEF Service!TypeOK, OneCallChanges

\* The step of a call keeps the types and is about that call only.
StepDone(c) ==
  /\ Service!TypeOK'
  /\ CallsTyped'
  /\ OneCallChanges(c)
  /\ Service!Running(c)
  /\ UNCHANGED original

LEMMA SaveBackupDone ==
  ASSUME Service!TypeOK, CallsTyped, NEW c \in Callers, Service!SaveBackup(c)
  PROVE  StepDone(c)
<1>1. PICK step \in {"set", "snapshot"} : call' = [call EXCEPT ![c].pc = step]
  BY DEF Service!SaveBackup, Service!Goto
<1> DEFINE e == [call[c] EXCEPT !.pc = step]
<1>2. call' = [call EXCEPT ![c] = e]
  BY <1>1
<1>3. e \in Service!Call /\ CallTyped(e)
  BY CallFields DEF Service!SaveBackup, CallsTyped, CallTyped, Service!Call,
     Service!SetSteps
<1> HIDE DEF e
<1> QED
  BY <1>2, <1>3, MoveStep DEF StepDone, Service!SaveBackup, Service!Running,
     Service!TypeOK

LEMMA ReadCurrentStateDone ==
  ASSUME Service!TypeOK, CallsTyped, NEW c \in Callers,
         Service!ReadCurrentState(c)
  PROVE  StepDone(c)
<1> DEFINE e == [call[c] EXCEPT !.pc = "write", !.state = dns[call[c].adapter]]
<1>1. CASE Service!Return(c, "failed")
  BY <1>1, ReturnStep DEF StepDone, Service!ReadCurrentState, Service!Running,
     Service!TypeOK
<1>2. CASE /\ call' = [call EXCEPT ![c].pc = "write",
                                   ![c].state = dns[call[c].adapter]]
           /\ UNCHANGED result
  <2>1. call' = [call EXCEPT ![c] = e]
    BY <1>2
  <2>2. dns[call[c].adapter] \in Settings
    BY DEF Service!ReadCurrentState, Service!TypeOK, CallsTyped, Service!SetSteps
  <2>3. e \in Service!Call /\ CallTyped(e)
    BY <2>2, CallFields DEF Service!ReadCurrentState, CallsTyped, CallTyped,
       Service!Call, Service!SetSteps
  <2> HIDE DEF e
  <2> QED
    BY <1>2, <2>1, <2>3, MoveStep DEF StepDone, Service!ReadCurrentState,
       Service!Running, Service!TypeOK
<1> QED
  BY <1>1, <1>2 DEF Service!ReadCurrentState

LEMMA WriteBackupDone ==
  ASSUME Service!TypeOK, CallsTyped, NEW c \in Callers, Service!WriteBackup(c)
  PROVE  StepDone(c)
<1> DEFINE e == [call[c] EXCEPT !.pc = "set"]
<1>1. CASE Service!Return(c, "failed") /\ UNCHANGED backup
  BY <1>1, ReturnStep DEF StepDone, Service!WriteBackup, Service!Running,
     Service!TypeOK
<1>2. CASE /\ backup' = [adapter |-> call[c].adapter, setting |-> call[c].state]
           /\ Service!Goto(c, "set")
           /\ UNCHANGED result
  <2>1. call' = [call EXCEPT ![c] = e]
    BY <1>2 DEF Service!Goto
  <2>2. backup' \in Service!Backup
    BY <1>2 DEF Service!WriteBackup, CallsTyped, Service!SetSteps, Service!Backup
  <2>3. e \in Service!Call /\ CallTyped(e)
    BY CallFields DEF Service!WriteBackup, CallsTyped, CallTyped,
       Service!Call, Service!SetSteps
  <2> HIDE DEF e
  <2> QED
    BY <1>2, <2>1, <2>2, <2>3, MoveStep DEF StepDone, Service!WriteBackup,
       Service!Running, Service!TypeOK
<1> QED
  BY <1>1, <1>2 DEF Service!WriteBackup

LEMMA SetServersDone ==
  ASSUME Service!TypeOK, CallsTyped, NEW c \in Callers, Service!SetServers(c)
  PROVE  StepDone(c)
<1>1. PICK answer \in {"ok", "failed"} : Service!Return(c, answer)
  BY DEF Service!SetServers
<1>2. dns' \in [Adapters -> Settings]
  BY DEF Service!SetServers, CallsTyped, Service!SetSteps, Service!TypeOK
<1> QED
  BY <1>1, <1>2, ReturnStep DEF StepDone, Service!SetServers, Service!Running,
     Service!TypeOK

LEMMA CheckPendingDone ==
  ASSUME Service!TypeOK, CallsTyped, NEW c \in Callers, Service!CheckPending(c)
  PROVE  StepDone(c)
<1> DEFINE e == [call[c] EXCEPT !.pc = "reset", !.adapter = backup.adapter,
                                !.setting = backup.setting]
<1>1. CASE \E answer \in {"ok", "failed"} : Service!Return(c, answer)
  BY <1>1, ReturnStep DEF StepDone, Service!CheckPending, Service!Running,
     Service!TypeOK
<1>2. CASE /\ backup \in Service!Backup
           /\ call' = [call EXCEPT ![c].pc = "reset",
                                   ![c].adapter = backup.adapter,
                                   ![c].setting = backup.setting]
           /\ UNCHANGED result
  <2>1. call' = [call EXCEPT ![c] = e]
    BY <1>2
  <2>2. backup.adapter \in Adapters /\ backup.setting \in Settings
    BY <1>2 DEF Service!Backup
  <2>3. e \in Service!Call /\ CallTyped(e)
    BY <2>2, CallFields DEF CallTyped, Service!Call, Service!SetSteps,
       Service!RestoreSteps
  <2> HIDE DEF e
  <2> QED
    BY <1>2, <2>1, <2>3, MoveStep DEF StepDone, Service!CheckPending,
       Service!Running, Service!TypeOK
<1> QED
  BY <1>1, <1>2 DEF Service!CheckPending

LEMMA ResetServersDone ==
  ASSUME Service!TypeOK, CallsTyped, NEW c \in Callers, Service!ResetServers(c)
  PROVE  StepDone(c)
<1> DEFINE e == [call[c] EXCEPT !.pc = "drop"]
<1>1. dns' \in [Adapters -> Settings]
  BY DEF Service!ResetServers, CallsTyped, Service!TypeOK
<1>2. CASE Service!Return(c, "failed")
  BY <1>1, <1>2, ReturnStep DEF StepDone, Service!ResetServers,
     Service!Running, Service!TypeOK
<1>3. CASE Service!Goto(c, "drop") /\ UNCHANGED result
  <2>1. call' = [call EXCEPT ![c] = e]
    BY <1>3 DEF Service!Goto
  <2>2. e \in Service!Call /\ CallTyped(e)
    BY CallFields DEF Service!ResetServers, CallsTyped, CallTyped,
       Service!Call, Service!SetSteps, Service!RestoreSteps
  <2> HIDE DEF e
  <2> QED
    BY <1>1, <1>3, <2>1, <2>2, MoveStep DEF StepDone, Service!ResetServers,
       Service!Running, Service!TypeOK
<1> QED
  BY <1>2, <1>3 DEF Service!ResetServers

LEMMA DropBackupDone ==
  ASSUME Service!TypeOK, CallsTyped, NEW c \in Callers, Service!DropBackup(c)
  PROVE  StepDone(c)
<1>1. PICK answer \in {"ok", "failed"} : Service!Return(c, answer)
  BY DEF Service!DropBackup
<1> QED
  BY <1>1, ReturnStep DEF StepDone, Service!DropBackup, Service!Running,
     Service!TypeOK

LEMMA CallStepDone ==
  ASSUME Service!TypeOK, CallsTyped, NEW c \in Callers, Service!Step(c)
  PROVE  StepDone(c)
BY SaveBackupDone, ReadCurrentStateDone, WriteBackupDone, SetServersDone,
   CheckPendingDone, ResetServersDone, DropBackupDone DEF Service!Step

LEMMA DieDone ==
  ASSUME Service!TypeOK, CallsTyped, NEW c \in Callers, Service!Die(c)
  PROVE  StepDone(c) /\ ~Service!Running(c)'
<1>1. CallTyped(Service!Idle)
  BY IdleFields DEF CallTyped, Service!SetSteps
<1> QED
  BY <1>1, IdleFields, MoveStep DEF StepDone, Service!Die, Service!Running,
     Service!TypeOK

\* A call begins.
BeginDone(c) ==
  /\ Service!TypeOK'
  /\ CallsTyped'
  /\ OneCallChanges(c)
  /\ ~Service!Running(c)
  /\ result'[c] = "none"
  /\ UNCHANGED <<dns, backup, original>>

LEMMA BeginSetDone ==
  ASSUME Service!TypeOK, CallsTyped, NEW c \in Callers,
         NEW a \in Adapters, NEW s \in Settings, Service!BeginSet(c, a, s)
  PROVE  BeginDone(c) /\ call'[c].pc = "save"
<1> DEFINE e == [Service!Idle EXCEPT !.pc = "save", !.adapter = a, !.setting = s]
<1>1. /\ e \in Service!Call
      /\ e.pc = "save" /\ e.adapter = a /\ e.setting = s
  BY IdleFields DEF Service!Call, Service!SetSteps
<1>2. CallTyped(e)
  BY <1>1 DEF CallTyped
<1>3. /\ call' = [call EXCEPT ![c] = e]
      /\ result' = [result EXCEPT ![c] = "none"]
  BY DEF Service!BeginSet
<1> HIDE DEF e
<1>4. \A d \in Callers : call'[d] = IF d = c THEN e ELSE call[d]
  BY <1>3 DEF Service!TypeOK
<1>5. CallsTyped'
  BY <1>2, <1>4 DEF CallsTyped, CallTyped
<1> QED
  BY <1>1, <1>3, <1>4, <1>5 DEF BeginDone, OneCallChanges, Service!BeginSet,
     Service!TypeOK

LEMMA BeginRestoreDone ==
  ASSUME Service!TypeOK, CallsTyped, NEW c \in Callers,
         NEW a \in Adapters \cup {None}, Service!BeginRestore(c, a)
  PROVE  BeginDone(c) /\ call'[c].pc = "check"
<1> DEFINE e == [Service!Idle EXCEPT !.pc = "check", !.adapter = a]
<1>1. e \in Service!Call /\ e.pc = "check"
  BY IdleFields DEF Service!Call, Service!RestoreSteps
<1>2. CallTyped(e)
  BY <1>1 DEF CallTyped, Service!SetSteps
<1>3. /\ call' = [call EXCEPT ![c] = e]
      /\ result' = [result EXCEPT ![c] = "none"]
  BY DEF Service!BeginRestore
<1> HIDE DEF e
<1>4. \A d \in Callers : call'[d] = IF d = c THEN e ELSE call[d]
  BY <1>3 DEF Service!TypeOK
<1>5. CallsTyped'
  BY <1>2, <1>4 DEF CallsTyped, CallTyped
<1> QED
  BY <1>1, <1>3, <1>4, <1>5 DEF BeginDone, OneCallChanges, Service!BeginRestore,
     Service!TypeOK

-------------------------------------------------------------------------------
(***************************************************************************)
(* The workers: one is spawned, goes on, or ends                           *)
(***************************************************************************)
LEMMA SpawnStep ==
  ASSUME IInv, NEW c \in Callers, NEW w \in Worker, w.role # "none", Spawn(c, w)
  PROVE  /\ worker' \in [Callers -> Worker]
         /\ worker'[c] = w
         /\ \A d \in Callers \ {c} : worker'[d] = worker[d]
         /\ ~Service!Running(c)
         /\ IsFiniteSet(Working')
         /\ Cardinality(Working') + Len(inbox) + vm.warnings <= MaxWork
         /\ w.role \in Ops => Operations' = Operations \cup {c}
         /\ w.role \notin Ops => Operations' = Operations
<1>1. worker \in [Callers -> Worker] /\ worker' = [worker EXCEPT ![c] = w]
  BY TypeSplit DEF IInv, Spawn
<1>2. worker[c] = NoWorker /\ ~Service!Running(c)
  BY DEF Spawn, Free, Working
<1>3. \A d \in Callers : worker'[d] = IF d = c THEN w ELSE worker[d]
  BY <1>1
<1>4. Working' = Working \cup {c} /\ c \notin Working
  BY <1>2, <1>3, NoWorkerFields DEF Working
<1>5. IsFiniteSet(Working') /\ Cardinality(Working') = Cardinality(Working) + 1
  BY <1>4, FS_AddElement DEF IInv, WorkBounded
<1>6. /\ Cardinality(Working) \in Nat
      /\ Len(inbox) \in Nat
      /\ vm.warnings \in Nat
      /\ Cardinality(Working) + Len(inbox) + vm.warnings < MaxWork
  BY FS_CardinalityType, TypeSplit DEF IInv, WorkBounded, Spawn, VmType
<1>7. Cardinality(Working') + Len(inbox) + vm.warnings <= MaxWork
  BY <1>5, <1>6, MaxWorkAssumption
<1>8. /\ w.role \in Ops => Operations' = Operations \cup {c}
      /\ w.role \notin Ops => Operations' = Operations
  BY <1>2, <1>3, NoWorkerFields DEF Operations, Ops
<1> QED
  BY <1>1, <1>2, <1>3, <1>5, <1>7, <1>8

LEMMA GoOnStep ==
  ASSUME IInv, NEW c \in Working, NEW w \in Worker, w.role # "none",
         w.role \in Ops <=> worker[c].role \in Ops,
         worker' = [worker EXCEPT ![c] = w]
  PROVE  /\ worker' \in [Callers -> Worker]
         /\ worker'[c] = w
         /\ \A d \in Callers \ {c} : worker'[d] = worker[d]
         /\ Working' = Working
         /\ Operations' = Operations
<1>1. worker \in [Callers -> Worker] /\ c \in Callers
  BY TypeSplit DEF IInv, Working
<1>2. \A d \in Callers : worker'[d] = IF d = c THEN w ELSE worker[d]
  BY <1>1
<1>3. Working' = Working
  BY <1>2, NoWorkerFields DEF Working
<1>4. Operations' = Operations
  BY <1>2 DEF Operations, Ops
<1> QED
  BY <1>1, <1>2, <1>3, <1>4

LEMMA GoneStep ==
  ASSUME IInv, NEW c \in Working, worker' = [worker EXCEPT ![c] = NoWorker]
  PROVE  /\ worker' \in [Callers -> Worker]
         /\ worker'[c] = NoWorker
         /\ \A d \in Callers \ {c} : worker'[d] = worker[d]
         /\ IsFiniteSet(Working')
         /\ Cardinality(Working') = Cardinality(Working) - 1
         /\ Operations' = Operations \ {c}
<1>1. worker \in [Callers -> Worker] /\ c \in Callers
  BY TypeSplit DEF IInv, Working
<1>2. \A d \in Callers : worker'[d] = IF d = c THEN NoWorker ELSE worker[d]
  BY <1>1, NoWorkerFields
<1>3. Working' = Working \ {c}
  BY <1>2 DEF Working
<1>4. Operations' = Operations \ {c}
  BY <1>2, NoWorkerFields DEF Operations
<1>5. IsFiniteSet(Working') /\ Cardinality(Working') = Cardinality(Working) - 1
  BY <1>3, FS_RemoveElement DEF IInv, WorkBounded
<1> QED
  BY <1>1, <1>2, <1>4, <1>5, NoWorkerFields

\* What a worker may be, without the state of its call.
Shaped(w) ==
   /\ w.role # "none"
   /\ w.role = "guard" => w.at = "testing"
   /\ w.role = "apply" =>
         w.at # "asking" /\ w.adapter \in Adapters /\ w.setting \in Settings
   /\ w.role \notin {"apply", "guard"} => w.at # "testing"

LEMMA WorkingShaped ==
  ASSUME IInv, NEW c \in Working
  PROVE  Shaped(worker[c]) /\ worker[c] \in Worker /\ c \in Callers
BY TypeSplit DEF IInv, Working, WorkersShaped, Shaped

LEMMA SameInbox ==
  ASSUME UNCHANGED inbox
  PROVE  Reports' = Reports
BY DEF Reports

\* A worker is spawned: an operation raises the busy flag.
LEMMA SpawnIInv ==
  ASSUME IInv, NEW c \in Callers, NEW w \in Worker, Shaped(w), Spawn(c, w),
         UNCHANGED <<serviceVars, elevated, inbox, overlapped>>,
         vm' \in VmType, vm'.warnings = vm.warnings,
         vm'.phase # "down", WatchedAsAsked',
         w.role \in Ops => vm.busy = FALSE /\ vm'.busy = TRUE,
         w.role \notin Ops => vm'.busy = vm.busy
  PROVE  IInv'
<1> USE TypeSplit DEF IInv, Shaped
<1>1. /\ worker' \in [Callers -> Worker]
      /\ worker'[c] = w
      /\ \A d \in Callers \ {c} : worker'[d] = worker[d]
      /\ ~Service!Running(c)
      /\ IsFiniteSet(Working')
      /\ Cardinality(Working') + Len(inbox) + vm.warnings <= MaxWork
      /\ w.role \in Ops => Operations' = Operations \cup {c}
      /\ w.role \notin Ops => Operations' = Operations
  BY SpawnStep
<1>2. TypeOK'
  BY <1>1, TypeJoin DEF serviceVars, Service!TypeOK
<1>3. CallsTyped'
  BY DEF CallsTyped, serviceVars
<1>4. WorkersShaped'
  BY <1>1 DEF WorkersShaped, serviceVars, Service!Running
<1>5. OneOperation'
  BY <1>1, SameInbox DEF OneOperation
<1>6. WorkBounded'
  BY <1>1 DEF WorkBounded
<1>7. DownIsStopped' /\ OneCall'
  BY DEF DownIsStopped, OneCall, serviceVars, Service!Running
<1> QED
  BY <1>2, <1>3, <1>4, <1>5, <1>6, <1>7

\* The service after a step of its caller.
ServiceFine ==
  /\ Service!TypeOK'
  /\ CallsTyped'
  /\ overlapped' \in BOOLEAN
  /\ OneCall'

\* A worker goes on, and may begin its call.
LEMMA GoOnIInv ==
  ASSUME IInv, NEW c \in Working, NEW w \in Worker, Shaped(w),
         w.role \in Ops <=> worker[c].role \in Ops,
         worker' = [worker EXCEPT ![c] = w],
         w.at \in {"testing", "asking"} => ~Service!Running(c)',
         OneCallChanges(c), ServiceFine,
         UNCHANGED <<elevated, vm, inbox>>
  PROVE  IInv'
<1> USE TypeSplit DEF IInv, Shaped
<1>1. /\ worker' \in [Callers -> Worker]
      /\ worker'[c] = w
      /\ \A d \in Callers \ {c} : worker'[d] = worker[d]
      /\ Working' = Working
      /\ Operations' = Operations
  BY GoOnStep
<1>2. TypeOK'
  BY <1>1, TypeJoin DEF ServiceFine
<1>3. WorkersShaped'
  BY <1>1 DEF WorkersShaped, OneCallChanges, Service!Running
<1>4. OneOperation'
  BY <1>1, SameInbox DEF OneOperation
<1>5. WorkBounded' /\ DownIsStopped' /\ WatchedAsAsked'
  BY <1>1 DEF WorkBounded, DownIsStopped, WatchedAsAsked
<1> QED
  BY <1>2, <1>3, <1>4, <1>5 DEF ServiceFine

\* A worker ends without a report.
LEMMA GoneIInv ==
  ASSUME IInv, NEW c \in Working, worker[c].role \notin Ops,
         worker' = [worker EXCEPT ![c] = NoWorker],
         UNCHANGED <<serviceVars, elevated, vm, inbox, overlapped>>
  PROVE  IInv'
<1> USE TypeSplit DEF IInv
<1>1. /\ worker' \in [Callers -> Worker]
      /\ worker'[c] = NoWorker
      /\ \A d \in Callers \ {c} : worker'[d] = worker[d]
      /\ IsFiniteSet(Working')
      /\ Cardinality(Working') = Cardinality(Working) - 1
      /\ Operations' = Operations \ {c}
  BY GoneStep
<1>2. TypeOK' /\ CallsTyped'
  BY <1>1, TypeJoin DEF serviceVars, Service!TypeOK, CallsTyped
<1>3. WorkersShaped'
  BY <1>1, NoWorkerFields DEF WorkersShaped, serviceVars, Service!Running
<1>4. OneOperation'
  BY <1>1, SameInbox DEF OneOperation, Operations, Ops
<1>5. WorkBounded'
  BY <1>1, FS_CardinalityType, MaxWorkAssumption DEF WorkBounded, VmType
<1>6. DownIsStopped' /\ WatchedAsAsked' /\ OneCall'
  BY DEF DownIsStopped, WatchedAsAsked, OneCall, serviceVars, Service!Running
<1> QED
  BY <1>2, <1>3, <1>4, <1>5, <1>6

LEMMA AppendReports ==
  ASSUME inbox \in Seq(Message), NEW m \in Message, inbox' = Append(inbox, m)
  PROVE  /\ inbox' \in Seq(Message)
         /\ Len(inbox') = Len(inbox) + 1
         /\ m.kind \in Ops => Reports' = Reports \cup {Len(inbox) + 1}
         /\ m.kind \notin Ops => Reports' = Reports
<1>1. /\ inbox' \in Seq(Message)
      /\ Len(inbox) \in Nat
      /\ Len(inbox') = Len(inbox) + 1
      /\ DOMAIN inbox' = 1..(Len(inbox) + 1)
      /\ DOMAIN inbox = 1..Len(inbox)
      /\ inbox'[Len(inbox) + 1] = m
      /\ \A i \in 1..Len(inbox) : inbox'[i] = inbox[i]
  OBVIOUS
<1>2. m.kind \in Ops => Reports' = Reports \cup {Len(inbox) + 1}
  BY <1>1 DEF Reports, Ops
<1>3. m.kind \notin Ops => Reports' = Reports
  BY <1>1 DEF Reports, Ops
<1> QED
  BY <1>1, <1>2, <1>3

LEMMA TakeReports ==
  ASSUME inbox \in Seq(Message), inbox # <<>>, inbox' = Tail(inbox),
         \A i, j \in Reports : i = j
  PROVE  /\ inbox' \in Seq(Message)
         /\ Len(inbox') = Len(inbox) - 1
         /\ Head(inbox) \in Message
         /\ Head(inbox).kind \in Ops => Reports # {} /\ Reports' = {}
         /\ Head(inbox).kind \notin Ops => (Reports' = {} <=> Reports = {})
         /\ \A i, j \in Reports' : i = j
<1>1. /\ inbox' \in Seq(Message)
      /\ Len(inbox) \in Nat /\ Len(inbox) # 0
      /\ Len(inbox') = Len(inbox) - 1
      /\ Head(inbox) = inbox[1]
      /\ Head(inbox) \in Message
      /\ DOMAIN inbox' = 1..(Len(inbox) - 1)
      /\ DOMAIN inbox = 1..Len(inbox)
      /\ \A i \in 1..(Len(inbox) - 1) : inbox'[i] = inbox[i + 1]
  OBVIOUS
<1>2. \A i \in Reports' : i + 1 \in Reports /\ i \in Int /\ i # 0
  BY <1>1 DEF Reports
<1>3. \A i, j \in Reports' : i = j
  <2>1. TAKE i, j \in Reports'
  <2>2. i + 1 = j + 1
    BY <1>2
  <2> QED
    BY <1>2, <2>2
<1>4. Head(inbox).kind \in Ops => Reports # {} /\ Reports' = {}
  <2> SUFFICES ASSUME Head(inbox).kind \in Ops
               PROVE  Reports # {} /\ Reports' = {}
    OBVIOUS
  <2>1. 1 \in Reports
    BY <1>1 DEF Reports, Ops
  <2>2. \A i \in Reports' : i + 1 = 1
    BY <1>2, <2>1
  <2> QED
    BY <1>2, <2>1, <2>2
<1>5. Head(inbox).kind \notin Ops => (Reports' = {} <=> Reports = {})
  <2> SUFFICES ASSUME Head(inbox).kind \notin Ops
               PROVE  Reports' = {} <=> Reports = {}
    OBVIOUS
  <2>1. \A i \in Reports : i - 1 \in Reports'
    BY <1>1 DEF Reports, Ops
  <2> QED
    BY <1>2, <2>1
<1> QED
  BY <1>1, <1>3, <1>4, <1>5

\* A worker ends with a report.
LEMMA ReportIInv ==
  ASSUME IInv, NEW c \in Working, NEW m \in Message, m.kind = worker[c].role,
         worker' = [worker EXCEPT ![c] = NoWorker],
         inbox' = Append(inbox, m),
         UNCHANGED <<serviceVars, elevated, vm, overlapped>>
  PROVE  IInv'
<1> USE TypeSplit DEF IInv
<1>1. /\ worker' \in [Callers -> Worker]
      /\ worker'[c] = NoWorker
      /\ \A d \in Callers \ {c} : worker'[d] = worker[d]
      /\ IsFiniteSet(Working')
      /\ Cardinality(Working') = Cardinality(Working) - 1
      /\ Operations' = Operations \ {c}
  BY GoneStep
<1>2. /\ inbox' \in Seq(Message)
      /\ Len(inbox') = Len(inbox) + 1
      /\ m.kind \in Ops => Reports' = Reports \cup {Len(inbox) + 1}
      /\ m.kind \notin Ops => Reports' = Reports
  BY AppendReports
<1>3. TypeOK' /\ CallsTyped'
  BY <1>1, <1>2, TypeJoin DEF serviceVars, Service!TypeOK, CallsTyped
<1>4. WorkersShaped'
  BY <1>1, NoWorkerFields DEF WorkersShaped, serviceVars, Service!Running
<1>5. OneOperation'
  <2>1. CASE m.kind \in Ops
    <3>1. c \in Operations
      BY <2>1 DEF Operations, Ops, Working
    <3>2. Operations' = {} /\ Reports = {}
      BY <1>1, <3>1 DEF OneOperation
    <3> QED
      BY <1>2, <2>1, <3>1, <3>2 DEF OneOperation
  <2>2. CASE m.kind \notin Ops
    <3>1. c \notin Operations
      BY <2>2 DEF Operations, Ops
    <3> QED
      BY <1>1, <1>2, <2>2, <3>1 DEF OneOperation
  <2> QED
    BY <2>1, <2>2
<1>6. WorkBounded'
  BY <1>1, <1>2, FS_CardinalityType, MaxWorkAssumption DEF WorkBounded, VmType
<1>7. DownIsStopped' /\ WatchedAsAsked' /\ OneCall'
  BY DEF DownIsStopped, WatchedAsAsked, OneCall, serviceVars, Service!Running
<1> QED
  BY <1>3, <1>4, <1>5, <1>6, <1>7

\* The GUI thread changes its flags.
LEMMA FlagsIInv ==
  ASSUME IInv, vm' \in VmType, vm'.busy = vm.busy, vm'.phase # "down",
         vm'.warnings <= vm.warnings, WatchedAsAsked',
         UNCHANGED <<serviceVars, elevated, worker, inbox, overlapped>>
  PROVE  IInv'
<1> USE TypeSplit DEF IInv
<1>1. Working' = Working /\ Operations' = Operations /\ Reports' = Reports
  BY DEF Working, Operations, Reports
<1>2. TypeOK' /\ CallsTyped'
  BY TypeJoin DEF serviceVars, Service!TypeOK, CallsTyped
<1>3. WorkersShaped'
  BY DEF WorkersShaped, serviceVars, Service!Running
<1>4. OneOperation'
  BY <1>1 DEF OneOperation
<1>5. WorkBounded'
  BY <1>1, FS_CardinalityType, MaxWorkAssumption DEF WorkBounded, VmType
<1>6. DownIsStopped' /\ OneCall'
  BY DEF DownIsStopped, OneCall, serviceVars, Service!Running
<1> QED
  BY <1>2, <1>3, <1>4, <1>5, <1>6

\* The GUI thread handles a report.
LEMMA HandledIInv ==
  ASSUME IInv, inbox # <<>>, inbox' = Tail(inbox),
         vm' \in VmType, vm'.phase # "down", WatchedAsAsked',
         Head(inbox).kind \in Ops =>
            vm'.busy = FALSE /\ vm'.warnings = vm.warnings,
         Head(inbox).kind \notin Ops =>
            vm'.busy = vm.busy /\ vm'.warnings <= vm.warnings + 1,
         UNCHANGED <<serviceVars, elevated, worker, overlapped>>
  PROVE  IInv'
<1> USE TypeSplit DEF IInv
<1>1. Working' = Working /\ Operations' = Operations
  BY DEF Working, Operations
<1>2. /\ inbox' \in Seq(Message)
      /\ Len(inbox') = Len(inbox) - 1
      /\ Head(inbox).kind \in Ops => Reports # {} /\ Reports' = {}
      /\ Head(inbox).kind \notin Ops => (Reports' = {} <=> Reports = {})
      /\ \A i, j \in Reports' : i = j
  BY TakeReports DEF OneOperation
<1>3. TypeOK' /\ CallsTyped'
  BY <1>2, TypeJoin DEF serviceVars, Service!TypeOK, CallsTyped
<1>4. WorkersShaped'
  BY DEF WorkersShaped, serviceVars, Service!Running
<1>5. OneOperation'
  BY <1>1, <1>2 DEF OneOperation
<1>6. WorkBounded'
  BY <1>1, <1>2, FS_CardinalityType, MaxWorkAssumption DEF WorkBounded, VmType
<1>7. DownIsStopped' /\ OneCall'
  BY DEF DownIsStopped, OneCall, serviceVars, Service!Running
<1> QED
  BY <1>3, <1>4, <1>5, <1>6, <1>7

-------------------------------------------------------------------------------
(***************************************************************************)
(* The invariant is inductive: one lemma for each action                   *)
(***************************************************************************)
LEMMA StartIInv == ASSUME IInv, Start PROVE IInv'
<1> USE TypeSplit DEF IInv
<1>1. vm = Stopped
  BY DEF DownIsStopped, Start
<1>2. /\ vm' \in VmType
      /\ vm'.phase = "running"
      /\ vm'.busy = vm.busy
      /\ vm'.connected = FALSE
      /\ vm'.watchdog = FALSE
      /\ vm'.warnings = vm.warnings
  BY <1>1, StoppedFields DEF Start, VmType
<1>3. WatchedAsAsked'
  BY <1>2 DEF WatchedAsAsked
<1>4. CASE UNCHANGED worker
  BY <1>2, <1>3, <1>4, FlagsIInv DEF Start, VmType
<1>5. ASSUME NEW c \in Callers,
             Spawn(c, [NoWorker EXCEPT !.role = "recover", !.at = "asking"])
      PROVE  IInv'
  <2> DEFINE w == [NoWorker EXCEPT !.role = "recover", !.at = "asking"]
  <2>1. w \in Worker /\ w.role = "recover" /\ w.at = "asking"
    BY NoWorkerFields DEF Worker, Roles
  <2> HIDE DEF w
  <2>2. Shaped(w) /\ w.role \notin Ops
    BY <2>1 DEF Shaped, Ops
  <2>3. Spawn(c, w)
    BY <1>5 DEF w
  <2> QED
    BY <1>2, <1>3, <2>1, <2>2, <2>3, SpawnIInv DEF Start
<1> QED
  BY <1>4, <1>5 DEF Start

LEMMA ApplyProfileIInv ==
  ASSUME IInv, NEW c \in Callers, NEW a \in Adapters, NEW s \in Settings,
         ApplyProfile(c, a, s)
  PROVE  IInv'
<1> USE TypeSplit DEF IInv
<1> DEFINE w == [NoWorker EXCEPT !.role = "apply", !.at = "testing",
                                 !.adapter = a, !.setting = s]
<1>1. /\ w \in Worker
      /\ w.role = "apply" /\ w.at = "testing" /\ w.adapter = a /\ w.setting = s
  BY NoWorkerFields DEF Worker, Roles
<1>2. Spawn(c, w)
  BY DEF ApplyProfile
<1> HIDE DEF w
<1>3. Shaped(w)
  BY <1>1 DEF Shaped
<1>4. /\ vm' \in VmType
      /\ vm'.phase = "running"
      /\ vm.busy = FALSE /\ vm'.busy = TRUE
      /\ vm'.connected = vm.connected
      /\ vm'.killSwitch = vm.killSwitch
      /\ vm'.watchdog = vm.watchdog
      /\ vm'.warnings = vm.warnings
  BY DEF ApplyProfile, Running, VmType
<1>5. WatchedAsAsked'
  BY <1>4 DEF WatchedAsAsked
<1> QED
  BY <1>1, <1>2, <1>3, <1>4, <1>5, SpawnIInv DEF ApplyProfile, Ops

LEMMA DisconnectIInv ==
  ASSUME IInv, NEW c \in Callers, Disconnect(c) PROVE IInv'
<1> USE TypeSplit DEF IInv
<1> DEFINE w == [NoWorker EXCEPT !.role = "disconnect", !.at = "asking",
                                 !.adapter = vm.active]
<1>1. w \in Worker /\ w.role = "disconnect" /\ w.at = "asking"
  <2>1. vm.active \in Adapters \cup {None}
    BY DEF VmType
  <2> QED
    BY <2>1, NoWorkerFields DEF Worker, Roles
<1>2. Spawn(c, w)
  BY DEF Disconnect
<1> HIDE DEF w
<1>3. Shaped(w)
  BY <1>1 DEF Shaped
<1>4. /\ vm' \in VmType
      /\ vm'.phase = "running"
      /\ vm.busy = FALSE /\ vm'.busy = TRUE
      /\ vm'.connected = vm.connected
      /\ vm'.killSwitch = vm.killSwitch
      /\ vm'.watchdog = vm.watchdog
      /\ vm'.warnings = vm.warnings
  BY DEF Disconnect, Running, VmType
<1>5. WatchedAsAsked'
  BY <1>4 DEF WatchedAsAsked
<1> QED
  BY <1>1, <1>2, <1>3, <1>4, <1>5, SpawnIInv DEF Disconnect, Ops

LEMMA GuardTickIInv ==
  ASSUME IInv, NEW c \in Callers, GuardTick(c) PROVE IInv'
<1> USE TypeSplit DEF IInv
<1> DEFINE w == [NoWorker EXCEPT !.role = "guard", !.at = "testing"]
<1>1. w \in Worker /\ w.role = "guard" /\ w.at = "testing"
  BY NoWorkerFields DEF Worker, Roles
<1>2. Spawn(c, w)
  BY DEF GuardTick
<1> HIDE DEF w
<1>3. Shaped(w) /\ w.role \notin Ops
  BY <1>1 DEF Shaped, Ops
<1>4. vm' = vm /\ vm'.phase # "down" /\ WatchedAsAsked'
  BY DEF GuardTick, Running, WatchedAsAsked
<1> QED
  BY <1>1, <1>2, <1>3, <1>4, SpawnIInv DEF GuardTick

LEMMA SetKillSwitchIInv ==
  ASSUME IInv, NEW enabled \in BOOLEAN, SetKillSwitch(enabled) PROVE IInv'
<1> USE TypeSplit DEF IInv
<1>1. /\ vm' \in VmType
      /\ vm'.phase = "running"
      /\ vm'.busy = vm.busy
      /\ vm'.connected = vm.connected
      /\ vm'.killSwitch = enabled
      /\ vm'.watchdog = (enabled /\ vm.connected)
      /\ vm'.warnings = vm.warnings
  BY DEF SetKillSwitch, Running, VmType
<1>2. WatchedAsAsked'
  BY <1>1 DEF WatchedAsAsked
<1> QED
  BY <1>1, <1>2, FlagsIInv DEF SetKillSwitch, VmType

LEMMA CloseWarningIInv == ASSUME IInv, CloseWarning PROVE IInv'
<1> USE TypeSplit DEF IInv
<1>1. /\ vm' \in VmType
      /\ vm'.phase = "running"
      /\ vm'.busy = vm.busy
      /\ vm'.connected = FALSE
      /\ vm'.killSwitch = FALSE
      /\ vm'.watchdog = FALSE
      /\ vm'.warnings <= vm.warnings
  <2>1. /\ vm.warnings \in 0..MaxWork
        /\ vm.warnings - 1 \in 0..MaxWork
        /\ vm.warnings - 1 <= vm.warnings
    BY MaxWorkAssumption DEF CloseWarning, VmType
  <2> QED
    BY <2>1 DEF CloseWarning, Running, VmType
<1>2. WatchedAsAsked'
  BY <1>1 DEF WatchedAsAsked
<1> QED
  BY <1>1, <1>2, FlagsIInv DEF CloseWarning

LEMMA HandleIInv == ASSUME IInv, Handle PROVE IInv'
<1> USE TypeSplit DEF IInv
<1> DEFINE m == Head(inbox)
<1>1. m \in Message /\ m.ok \in BOOLEAN /\ m.adapter \in Adapters \cup {None}
  <2>1. m \in Message
    BY DEF Handle
  <2> HIDE DEF m
  <2> QED
    BY <2>1 DEF Message
<1>2. vm.phase = "running" /\ vm.warnings \in Nat
  BY MaxWorkAssumption DEF Handle, Running, VmType
<1>0. /\ inbox # <<>> /\ inbox' = Tail(inbox) /\ m = Head(inbox)
      /\ UNCHANGED <<serviceVars, elevated, worker, overlapped>>
  BY DEF Handle
<1> HIDE DEF m
<1>3. CASE OnApplyFinished(m)
  <2>1. /\ vm' \in VmType
        /\ vm'.phase = vm.phase
        /\ vm'.busy = FALSE
        /\ vm'.warnings = vm.warnings
    BY <1>1, <1>3 DEF OnApplyFinished, VmType
  <2>2. WatchedAsAsked'
    <3>1. CASE m.ok
      <4>1. /\ vm'.connected = TRUE
            /\ vm'.killSwitch = vm.killSwitch
            /\ vm'.watchdog = (vm.watchdog \/ vm.killSwitch)
        BY <1>3, <3>1 DEF OnApplyFinished, VmType
      <4> QED
        BY <4>1 DEF WatchedAsAsked
    <3>2. CASE ~m.ok
      <4>1. /\ vm'.connected = vm.connected
            /\ vm'.killSwitch = vm.killSwitch
            /\ vm'.watchdog = vm.watchdog
        BY <1>3, <3>2 DEF OnApplyFinished, VmType
      <4> QED
        BY <4>1 DEF WatchedAsAsked
    <3> QED
      BY <3>1, <3>2
  <2>3. m.kind \in Ops
    BY <1>3 DEF OnApplyFinished, Ops
  <2> QED
    BY <1>0, <1>2, <2>1, <2>2, <2>3, HandledIInv
<1>4. CASE OnDisconnectFinished(m)
  <2>1. /\ vm' \in VmType
        /\ vm'.phase = vm.phase
        /\ vm'.busy = FALSE
        /\ vm'.connected = FALSE
        /\ vm'.watchdog = FALSE
        /\ vm'.warnings = vm.warnings
    BY <1>4 DEF OnDisconnectFinished, VmType
  <2>2. WatchedAsAsked'
    BY <2>1 DEF WatchedAsAsked
  <2>3. m.kind \in Ops
    BY <1>4 DEF OnDisconnectFinished, Ops
  <2> QED
    BY <1>0, <1>2, <2>1, <2>2, <2>3, HandledIInv
<1>5. CASE OnTrip(m)
  <2>1. m.kind \notin Ops
    BY <1>5 DEF OnTrip, Ops
  <2>2. CASE UNCHANGED vm
    <3>1. WatchedAsAsked'
      BY <2>2 DEF WatchedAsAsked
    <3> QED
      <4>1. /\ vm' \in VmType
            /\ vm'.phase # "down"
            /\ vm'.busy = vm.busy
            /\ vm'.warnings <= vm.warnings + 1
        BY <1>2, <2>2
      <4> QED
        BY <1>0, <2>1, <3>1, <4>1, HandledIInv
  <2>3. CASE vm' = [vm EXCEPT !.warnings = @ + 1]
    <3>1. vm.warnings + 1 \in 0..MaxWork
      <4>1. Cardinality(Working) \in Nat /\ Len(inbox) \in Nat /\ Len(inbox) # 0
        BY FS_CardinalityType DEF WorkBounded, Handle
      <4> QED
        BY <1>2, <4>1, MaxWorkAssumption DEF WorkBounded
    <3>2. /\ vm' \in VmType
          /\ vm'.phase = vm.phase
          /\ vm'.busy = vm.busy
          /\ vm'.connected = vm.connected
          /\ vm'.killSwitch = vm.killSwitch
          /\ vm'.watchdog = vm.watchdog
          /\ vm'.warnings = vm.warnings + 1
      BY <2>3, <3>1 DEF VmType
    <3>3. WatchedAsAsked'
      BY <3>2 DEF WatchedAsAsked
    <3> QED
      <4>1. vm'.phase # "down" /\ vm'.warnings <= vm.warnings + 1
        BY <1>2, <3>2
      <4> QED
        BY <1>0, <2>1, <3>2, <3>3, <4>1, HandledIInv
  <2> QED
    BY <1>5, <2>2, <2>3 DEF OnTrip
<1> QED
  BY <1>3, <1>4, <1>5 DEF Handle, m

LEMMA EndProcessIInv == ASSUME IInv, EndProcess PROVE IInv'
<1> USE TypeSplit DEF IInv
<1>1. /\ vm' = Stopped
      /\ worker' = [c \in Callers |-> NoWorker]
      /\ inbox' = <<>>
      /\ UNCHANGED <<dns, backup, result, original, elevated, overlapped>>
  BY DEF EndProcess
<1>2. \A c \in Callers : call'[c] \in {call[c], Service!Idle}
  BY DEF EndProcess
<1>3. call' \in [Callers -> Service!Call]
  BY IdleFields DEF EndProcess, Service!TypeOK
<1>4. TypeOK'
  <2>1. inbox' \in Seq(Message)
    BY <1>1, EmptySeq
  <2>2. Service!TypeOK'
    BY <1>1, <1>3 DEF Service!TypeOK
  <2>3. worker' \in [Callers -> Worker] /\ vm' \in VmType
    BY <1>1, NoWorkerFields, StoppedFields
  <2> QED
    BY <1>1, <2>1, <2>2, <2>3, TypeJoin
<1>5. CallsTyped'
  <2>1. CallTyped(Service!Idle)
    BY IdleFields DEF CallTyped, Service!SetSteps
  <2> QED
    BY <1>2, <2>1 DEF CallsTyped, CallTyped
<1>6. WorkersShaped'
  BY <1>1, NoWorkerFields DEF WorkersShaped
<1>7. Operations' = {} /\ Reports' = {} /\ Working' = {}
  BY <1>1, NoWorkerFields DEF Operations, Reports, Working
<1>8. OneOperation'
  BY <1>1, <1>7, StoppedFields DEF OneOperation
<1>9. WorkBounded'
  BY <1>1, <1>7, StoppedFields, FS_EmptySet, EmptySeq, MaxWorkAssumption
     DEF WorkBounded
<1>10. DownIsStopped' /\ WatchedAsAsked'
  BY <1>1, StoppedFields DEF DownIsStopped, WatchedAsAsked
<1>11. OneCall'
  BY <1>1, <1>2, IdleFields DEF OneCall, Service!Running
<1> QED
  BY <1>4, <1>5, <1>6, <1>8, <1>9, <1>10, <1>11

LEMMA BeginExitIInv == ASSUME IInv, BeginExit PROVE IInv'
<1> USE TypeSplit DEF IInv
<1>1. CASE ~EndProcess
  <2>1. PICK c \in Callers :
           Spawn(c, [NoWorker EXCEPT !.role = "exit", !.at = "asking",
                                     !.adapter = vm.active])
    BY <1>1 DEF BeginExit
  <2>2. /\ vm' = [vm EXCEPT !.phase = "exiting"]
        /\ UNCHANGED <<serviceVars, elevated, inbox, overlapped>>
    BY <1>1 DEF BeginExit
  <2>3. /\ vm' \in VmType
        /\ vm'.phase = "exiting"
        /\ vm'.busy = vm.busy
        /\ vm'.connected = vm.connected
        /\ vm'.killSwitch = vm.killSwitch
        /\ vm'.watchdog = vm.watchdog
        /\ vm'.warnings = vm.warnings
    BY <2>2 DEF VmType
  <2>4. WatchedAsAsked'
    BY <2>3 DEF WatchedAsAsked
  <2> DEFINE w == [NoWorker EXCEPT !.role = "exit", !.at = "asking",
                                   !.adapter = vm.active]
  <2>5. w \in Worker /\ w.role = "exit" /\ w.at = "asking"
    <3>1. vm.active \in Adapters \cup {None}
      BY DEF VmType
    <3> QED
      BY <3>1, NoWorkerFields DEF Worker, Roles
  <2>6. Spawn(c, w)
    BY <2>1
  <2> HIDE DEF w
  <2>7. Shaped(w) /\ w.role \notin Ops
    BY <2>5 DEF Shaped, Ops
  <2> QED
    BY <2>2, <2>3, <2>4, <2>5, <2>6, <2>7, SpawnIInv
<1> QED
  BY <1>1, EndProcessIInv

\* A call that begins while no call is noted as overlapping is alone.
LEMMA OverlapNoted ==
  ASSUME IInv, NEW c \in Working, worker[c].role \in Roles,
         NoteOverlap(c), ~overlapped', NEW d \in Callers \ {c}
  PROVE  ~Service!Running(d) /\ ~overlapped
<1> SUFFICES ASSUME Service!Running(d) PROVE FALSE
  BY DEF NoteOverlap
<1>1. {worker[c].role, worker[d].role} \ {"apply", "disconnect"} = {}
  BY DEF NoteOverlap
<1>2. c \in Operations /\ d \in Operations
  BY <1>1 DEF Operations, Working
<1> QED
  BY <1>2 DEF IInv, OneOperation

\* What a worker's beginning of a call does to the service.
LEMMA BegunFine ==
  ASSUME IInv, NEW c \in Working, NoteOverlap(c), BeginDone(c)
  PROVE  ServiceFine
<1> USE TypeSplit DEF IInv
<1>1. overlapped' \in BOOLEAN
  BY DEF NoteOverlap
<1>2. OneCall'
  <2> SUFFICES ASSUME ~overlapped', NEW d \in Callers, NEW e \in Callers,
                      Service!Running(d)', Service!Running(e)'
               PROVE  d = e
    BY DEF OneCall
  <2>1. \A f \in Callers \ {c} : ~Service!Running(f)'
    BY OverlapNoted, WorkingShaped DEF BeginDone, OneCallChanges, Service!Running,
       Worker
  <2> QED
    BY <2>1
<1> QED
  BY <1>1, <1>2 DEF ServiceFine, BeginDone

LEMMA UnbegunFine ==
  ASSUME IInv, NEW c \in Working, UNCHANGED serviceVars,
         UNCHANGED overlapped \/ NoteOverlap(c)
  PROVE  ServiceFine /\ OneCallChanges(c)
<1> USE TypeSplit DEF IInv
<1>1. overlapped' \in BOOLEAN /\ (overlapped => overlapped')
  BY DEF NoteOverlap
<1>2. Service!TypeOK' /\ CallsTyped'
  BY DEF serviceVars, Service!TypeOK, CallsTyped
<1>3. OneCall'
  BY <1>1 DEF OneCall, serviceVars, Service!Running
<1> QED
  BY <1>1, <1>2, <1>3 DEF ServiceFine, OneCallChanges, serviceVars

\* The worker's record after Answer and Calling.
LEMMA AnswerStep ==
  ASSUME IInv, NEW c \in Working, NEW ok \in BOOLEAN, Answer(c, ok),
         worker[c].role # "guard"
  PROVE  \E w \in Worker : /\ worker' = [worker EXCEPT ![c] = w]
                           /\ Shaped(w)
                           /\ w.role = worker[c].role
                           /\ w.at = "answered" /\ w.ok = ok
<1> DEFINE w == [worker[c] EXCEPT !.at = "answered", !.ok = ok]
<1>1. worker' = [worker EXCEPT ![c] = w]
  BY DEF Answer
<1>2. Shaped(worker[c]) /\ worker[c] \in Worker
  BY WorkingShaped
<1>3. /\ w \in Worker
      /\ w.role = worker[c].role /\ w.at = "answered" /\ w.ok = ok
      /\ w.adapter = worker[c].adapter /\ w.setting = worker[c].setting
  BY <1>2 DEF Worker
<1> HIDE DEF w
<1>4. Shaped(w)
  BY <1>2, <1>3 DEF Shaped
<1> QED
  BY <1>1, <1>3, <1>4

LEMMA CallingStep ==
  ASSUME IInv, NEW c \in Working, Calling(c), worker[c].role # "guard"
  PROVE  \E w \in Worker : /\ worker' = [worker EXCEPT ![c] = w]
                           /\ Shaped(w)
                           /\ w.role = worker[c].role
                           /\ w.at = "calling"
<1> DEFINE w == [worker[c] EXCEPT !.at = "calling"]
<1>1. worker' = [worker EXCEPT ![c] = w]
  BY DEF Calling
<1>2. Shaped(worker[c]) /\ worker[c] \in Worker
  BY WorkingShaped
<1>3. /\ w \in Worker
      /\ w.role = worker[c].role /\ w.at = "calling"
      /\ w.adapter = worker[c].adapter /\ w.setting = worker[c].setting
  BY <1>2 DEF Worker
<1> HIDE DEF w
<1>4. Shaped(w)
  BY <1>2, <1>3 DEF Shaped
<1> QED
  BY <1>1, <1>3, <1>4

LEMMA CallingIInv ==
  ASSUME IInv, NEW c \in Working, worker[c].role # "guard",
         BeginDone(c), Calling(c), NoteOverlap(c), UNCHANGED <<elevated, vm, inbox>>
  PROVE  IInv'
<1>1. PICK w \in Worker : /\ worker' = [worker EXCEPT ![c] = w]
                          /\ Shaped(w)
                          /\ w.role = worker[c].role
                          /\ w.at = "calling"
  BY CallingStep
<1> QED
  BY <1>1, BegunFine, GoOnIInv DEF BeginDone

LEMMA AnswerIInv ==
  ASSUME IInv, NEW c \in Working, worker[c].role # "guard", NEW ok \in BOOLEAN,
         Answer(c, ok), UNCHANGED overlapped \/ NoteOverlap(c),
         UNCHANGED <<elevated, vm, inbox>>
  PROVE  IInv'
<1>1. PICK w \in Worker : /\ worker' = [worker EXCEPT ![c] = w]
                          /\ Shaped(w)
                          /\ w.role = worker[c].role
                          /\ w.at = "answered" /\ w.ok = ok
  BY AnswerStep
<1>2. ServiceFine /\ OneCallChanges(c)
  BY UnbegunFine DEF Answer
<1> QED
  BY <1>1, <1>2, GoOnIInv

LEMMA InRole ==
  ASSUME IInv, NEW c \in Callers, worker[c].role # "none"
  PROVE  c \in Working
BY NoWorkerFields DEF Working

LEMMA ApplyTestedIInv ==
  ASSUME IInv, NEW c \in Callers, ApplyTested(c) PROVE IInv'
<1>1. c \in Working /\ worker[c].role = "apply"
  BY InRole DEF ApplyTested
<1>2. CASE Answer(c, FALSE) /\ UNCHANGED overlapped
  BY <1>1, <1>2, AnswerIInv DEF ApplyTested
<1>3. CASE /\ Service!BeginSet(c, worker[c].adapter, worker[c].setting)
           /\ Calling(c) /\ NoteOverlap(c)
  <2>1. worker[c].adapter \in Adapters /\ worker[c].setting \in Settings
    BY <1>1, WorkingShaped DEF Shaped
  <2>2. BeginDone(c)
    BY <1>3, <2>1, BeginSetDone, TypeSplit DEF IInv
  <2> QED
    BY <1>1, <1>3, <2>2, CallingIInv DEF ApplyTested
<1> QED
  BY <1>2, <1>3 DEF ApplyTested

LEMMA GuardTestedIInv ==
  ASSUME IInv, NEW c \in Callers, GuardTested(c) PROVE IInv'
<1>1. c \in Working /\ worker[c].role = "guard"
  BY InRole DEF GuardTested
<1>2. PICK at \in {"answered", "asking"} :
         worker' = [worker EXCEPT ![c].role = "trip", ![c].at = at]
  BY DEF GuardTested
<1> DEFINE w == [worker[c] EXCEPT !.role = "trip", !.at = at]
<1>3. worker' = [worker EXCEPT ![c] = w]
  BY <1>2
<1>4. w \in Worker /\ w.role = "trip" /\ w.at = at
  BY <1>1, WorkingShaped DEF Worker, Roles
<1> HIDE DEF w
<1>5. Shaped(w) /\ (w.role \in Ops <=> worker[c].role \in Ops)
  BY <1>1, <1>4 DEF Shaped, Ops
<1>6. ~Service!Running(c)
  <2>1. worker[c].at = "testing" /\ c \in Callers
    BY <1>1, WorkingShaped DEF Shaped
  <2> QED
    BY <2>1 DEF IInv, WorkersShaped
<1>7. ServiceFine /\ OneCallChanges(c) /\ ~Service!Running(c)'
  BY <1>1, <1>6, UnbegunFine DEF GuardTested, serviceVars, Service!Running
<1> QED
  BY <1>1, <1>3, <1>4, <1>5, <1>7, GoOnIInv DEF GuardTested

\* A restoration that is asked for is answered at once or begins.
LEMMA RestoreAsked ==
  ASSUME IInv, NEW c \in Callers, AskRestore(c)
  PROVE  /\ c \in Working /\ worker[c] \in Worker /\ worker[c].role # "guard"
         /\ worker[c].at = "asking" /\ NoteOverlap(c) /\ UNCHANGED inbox
         /\ \/ \E ok \in BOOLEAN : Answer(c, ok) /\ (ok => backup = NoFile)
            \/ /\ Calling(c) /\ BeginDone(c) /\ call'[c].pc = "check"
<1>1. c \in Working /\ worker[c] \in Worker /\ worker[c].role # "guard"
  <2>1. c \in Working
    BY NoWorkerFields DEF AskRestore, Working
  <2> QED
    BY <2>1, WorkingShaped DEF AskRestore, Shaped
<1>2. ASSUME NEW a \in Adapters \cup {None}, Service!BeginRestore(c, a)
      PROVE  BeginDone(c) /\ call'[c].pc = "check"
  BY <1>2, BeginRestoreDone, TypeSplit DEF IInv
<1>3. /\ vm.active \in Adapters \cup {None}
      /\ worker[c].adapter \in Adapters \cup {None}
      /\ backup \in Service!Backup => backup.adapter \in Adapters
  BY <1>1, TypeSplit DEF IInv, VmType, Worker, Service!Backup
<1> DEFINE a == IF worker[c].role = "trip" THEN vm.active ELSE worker[c].adapter
<1>4. a \in Adapters \cup {None}
  BY <1>3
<1>5. \/ \E ok \in BOOLEAN : Answer(c, ok) /\ (ok => backup = NoFile)
      \/ Service!BeginRestore(c, a) /\ Calling(c)
      \/ /\ backup \in Service!Backup
         /\ Service!BeginRestore(c, backup.adapter) /\ Calling(c)
  BY DEF AskRestore
<1> HIDE DEF a
<1> QED
  BY <1>1, <1>2, <1>3, <1>4, <1>5 DEF AskRestore

LEMMA AskRestoreIInv ==
  ASSUME IInv, NEW c \in Callers, AskRestore(c) PROVE IInv'
<1>1. /\ c \in Working /\ worker[c].role # "guard"
      /\ NoteOverlap(c) /\ UNCHANGED <<elevated, vm, inbox>>
  BY RestoreAsked DEF AskRestore
<1>2. CASE \E ok \in BOOLEAN : Answer(c, ok)
  BY <1>1, <1>2, AnswerIInv
<1>3. CASE Calling(c) /\ BeginDone(c)
  BY <1>1, <1>3, CallingIInv
<1> QED
  BY <1>2, <1>3, RestoreAsked

LEMMA ConcludeIInv ==
  ASSUME IInv, NEW c \in Working, worker[c].role # "guard", NEW ok \in BOOLEAN,
         Conclude(c, ok)
  PROVE  IInv'
<1>1. worker[c] \in Worker /\ worker[c].role # "none"
  BY WorkingShaped DEF Shaped
<1>2. CASE worker[c].role = "exit"
  BY <1>2, EndProcessIInv DEF Conclude
<1>3. CASE worker[c].role = "recover"
  BY <1>3, GoneIInv DEF Conclude, Ops
<1>4. CASE worker[c].role \in {"apply", "disconnect", "trip"}
  <2> DEFINE m == [kind |-> worker[c].role, ok |-> ok, adapter |-> worker[c].adapter]
  <2>1. m \in Message /\ m.kind = worker[c].role
    BY <1>1, <1>4 DEF Worker, Message
  <2>2. /\ worker' = [worker EXCEPT ![c] = NoWorker]
        /\ inbox' = Append(inbox, m)
        /\ UNCHANGED <<serviceVars, elevated, vm, overlapped>>
    BY <1>4 DEF Conclude
  <2> HIDE DEF m
  <2> QED
    BY <2>1, <2>2, ReportIInv
<1> QED
  BY <1>1, <1>2, <1>3, <1>4 DEF Worker, Roles

LEMMA EndsIInv ==
  ASSUME IInv, NEW c \in Callers, Finish(c) \/ TimeOut(c) PROVE IInv'
<1>1. c \in Working /\ worker[c].at \in {"answered", "calling"}
  BY DEF Finish, TimeOut
<1>2. worker[c].role # "guard" /\ worker[c].ok \in BOOLEAN
  BY <1>1, WorkingShaped DEF Shaped, Worker
<1>3. PICK ok \in BOOLEAN : Conclude(c, ok)
  <2>1. CASE TimeOut(c)
    BY <2>1 DEF TimeOut
  <2>2. CASE worker[c].at = "answered" /\ Conclude(c, worker[c].ok)
    BY <1>2, <2>2
  <2>3. CASE Conclude(c, result[c] = "ok")
    BY <2>3
  <2> QED
    BY <2>1, <2>2, <2>3 DEF Finish
<1> QED
  BY <1>1, <1>2, <1>3, ConcludeIInv

\* The service takes a step of its own.
LEMMA ServiceIInv ==
  ASSUME IInv, Service!TypeOK', CallsTyped', OneCall',
         \A c \in Callers : Service!Running(c)' => Service!Running(c),
         UNCHANGED <<elevated, vm, worker, inbox, overlapped>>
  PROVE  IInv'
<1> USE TypeSplit DEF IInv
<1>1. Working' = Working /\ Operations' = Operations /\ Reports' = Reports
  BY DEF Working, Operations, Reports
<1>2. TypeOK'
  BY TypeJoin
<1>3. WorkersShaped'
  BY DEF WorkersShaped
<1>4. OneOperation' /\ WorkBounded'
  BY <1>1 DEF OneOperation, WorkBounded
<1>5. DownIsStopped' /\ WatchedAsAsked'
  BY DEF DownIsStopped, WatchedAsAsked
<1> QED
  BY <1>2, <1>3, <1>4, <1>5

LEMMA StepDoneIInv ==
  ASSUME IInv, NEW c \in Callers, StepDone(c),
         UNCHANGED <<elevated, vm, worker, inbox, overlapped>>
  PROVE  IInv'
<1>1. \A d \in Callers : Service!Running(d)' => Service!Running(d)
  BY DEF StepDone, OneCallChanges, Service!Running
<1>2. OneCall'
  BY <1>1 DEF IInv, OneCall
<1> QED
  BY <1>1, <1>2, ServiceIInv DEF StepDone

LEMMA CallStepIInv ==
  ASSUME IInv, NEW c \in Callers, CallStep(c) PROVE IInv'
BY CallStepDone, StepDoneIInv, TypeSplit DEF IInv, CallStep

LEMMA HelperDiesIInv ==
  ASSUME IInv, NEW c \in Callers, HelperDies(c) PROVE IInv'
BY DieDone, StepDoneIInv, TypeSplit DEF IInv, HelperDies

LEMMA UserEditsIInv ==
  ASSUME IInv, NEW a \in Adapters, NEW s \in Settings, UserEdits(a, s) PROVE IInv'
<1>1. Service!TypeOK' /\ UNCHANGED <<call, result, backup>>
  BY TypeSplit DEF IInv, UserEdits, Service!UserEdits, Service!TypeOK
<1>2. CallsTyped' /\ OneCall'
  BY <1>1 DEF IInv, UserEdits, CallsTyped, OneCall, Service!Running
<1> QED
  BY <1>1, <1>2, ServiceIInv DEF UserEdits, Service!Running

LEMMA InitIInv == Init => IInv
<1> SUFFICES ASSUME Init PROVE IInv
  OBVIOUS
<1>1. vm = Stopped /\ worker = [c \in Callers |-> NoWorker] /\ inbox = <<>>
  BY DEF Init
<1>2. call = [c \in Callers |-> Service!Idle] /\ Service!TypeOK
  BY IdleFields, ServiceAssumption DEF Init, Service!Init, Service!TypeOK
<1>3. TypeOK
  <2>1. inbox \in Seq(Message) /\ worker \in [Callers -> Worker] /\ vm \in VmType
    BY <1>1, EmptySeq, NoWorkerFields, StoppedFields
  <2>2. overlapped \in BOOLEAN /\ elevated \in BOOLEAN
    BY DEF Init
  <2> QED
    BY <1>2, <2>1, <2>2, TypeSplit
<1>4. CallsTyped /\ OneCall
  BY <1>2, IdleFields DEF CallsTyped, OneCall, Service!Running, Service!SetSteps
<1>5. WorkersShaped
  BY <1>1, NoWorkerFields DEF WorkersShaped
<1>6. Operations = {} /\ Reports = {} /\ Working = {}
  BY <1>1, NoWorkerFields DEF Operations, Reports, Working
<1>7. OneOperation
  BY <1>1, <1>6, StoppedFields DEF OneOperation
<1>8. WorkBounded
  BY <1>1, <1>6, StoppedFields, FS_EmptySet, EmptySeq, MaxWorkAssumption
     DEF WorkBounded
<1>9. DownIsStopped /\ WatchedAsAsked
  BY <1>1, StoppedFields DEF DownIsStopped, WatchedAsAsked
<1> QED
  BY <1>3, <1>4, <1>5, <1>7, <1>8, <1>9 DEF IInv

LEMMA StutterIInv == ASSUME IInv, UNCHANGED vars PROVE IInv'
<1>1. Service!TypeOK' /\ CallsTyped' /\ OneCall'
  BY TypeSplit DEF IInv, vars, Service!TypeOK, CallsTyped, OneCall, Service!Running
<1> QED
  BY <1>1, ServiceIInv DEF vars, Service!Running

LEMMA NextIInv == IInv /\ [Next]_vars => IInv'
<1> SUFFICES ASSUME IInv, [Next]_vars PROVE IInv'
  OBVIOUS
<1>1. CASE Start \/ BeginExit \/ Crash \/ Handle \/ CloseWarning
  BY <1>1, StartIInv, BeginExitIInv, EndProcessIInv, HandleIInv, CloseWarningIInv
     DEF Crash
<1>2. CASE \E enabled \in BOOLEAN : SetKillSwitch(enabled)
  BY <1>2, SetKillSwitchIInv
<1>3. ASSUME NEW c \in Callers,
             \/ \E a \in Adapters, s \in Settings : ApplyProfile(c, a, s)
             \/ Disconnect(c) \/ GuardTick(c)
      PROVE  IInv'
  BY <1>3, ApplyProfileIInv, DisconnectIInv, GuardTickIInv
<1>4. ASSUME NEW c \in Callers, WorkerStep(c) PROVE IInv'
  <2>1. CASE GuardSatisfied(c)
    <3>1. c \in Working /\ worker[c].role \notin Ops
      BY <2>1, InRole DEF GuardSatisfied, Ops
    <3> QED
      BY <2>1, <3>1, GoneIInv DEF GuardSatisfied
  <2> QED
    BY <1>4, <2>1, ApplyTestedIInv, GuardTestedIInv, AskRestoreIInv, EndsIInv
       DEF WorkerStep
<1>5. ASSUME NEW c \in Callers, CallStep(c) \/ HelperDies(c) PROVE IInv'
  BY <1>5, CallStepIInv, HelperDiesIInv
<1>6. CASE \E a \in Adapters, s \in Settings : UserEdits(a, s)
  BY <1>6, UserEditsIInv
<1>7. CASE UNCHANGED vars
  BY <1>7, StutterIInv
<1> QED
  BY <1>1, <1>2, <1>3, <1>4, <1>5, <1>6, <1>7 DEF Next

\* The invariant holds in every reachable state.
THEOREM Invariance == Spec => []IInv
BY InitIInv, NextIInv, PTL DEF Spec

\* The view-model, its workers, its inbox and the service have their types:
\* nothing more is ever at work, queued or open than MaxWork allows.
THEOREM TypeCorrect == Spec => []TypeOK
<1>1. IInv => TypeOK
  BY DEF IInv
<1> QED
  BY <1>1, Invariance, PTL

LEMMA FlagsImplied == IInv => FlagsAreTrue
<1> SUFFICES ASSUME IInv PROVE FlagsAreTrue
  OBVIOUS
<1>1. Operations = {} \/ Reports = {}
  BY DEF IInv, OneOperation
<1>2. Cardinality({}) = 0 /\ \A x : Cardinality({x}) = 1
  BY FS_EmptySet, FS_Singleton
<1>3. Operations = {} \/ \E c : Operations = {c}
  BY DEF IInv, OneOperation
<1>4. Reports = {} \/ \E i : Reports = {i}
  BY DEF IInv, OneOperation
<1>5. Cardinality(Operations) + Cardinality(Reports) = IF vm.busy THEN 1 ELSE 0
  <2>1. CASE Operations = {} /\ Reports = {}
    BY <1>2, <2>1 DEF IInv, OneOperation
  <2>2. ASSUME NEW c, Operations = {c}, Reports = {}
        PROVE  Cardinality(Operations) + Cardinality(Reports)
                  = IF vm.busy THEN 1 ELSE 0
    <3>1. vm.busy
      BY <2>2 DEF IInv, OneOperation
    <3>2. Cardinality({c}) = 1
      BY <1>2
    <3>3. Cardinality(Operations) = 1 /\ Cardinality(Reports) = 0
      BY <1>2, <2>2, <3>2
    <3> QED
      BY <3>1, <3>3
  <2>3. ASSUME NEW i, Reports = {i}, Operations = {}
        PROVE  Cardinality(Operations) + Cardinality(Reports)
                  = IF vm.busy THEN 1 ELSE 0
    <3>1. vm.busy
      BY <2>3 DEF IInv, OneOperation
    <3>2. Cardinality({i}) = 1
      BY <1>2
    <3>3. Cardinality(Operations) = 0 /\ Cardinality(Reports) = 1
      BY <1>2, <2>3, <3>2
    <3> QED
      BY <3>1, <3>3
  <2> QED
    BY <1>1, <1>3, <1>4, <2>1, <2>2, <2>3
<1> QED
  BY <1>5 DEF IInv, WatchedAsAsked, FlagsAreTrue

\* The busy flag is up exactly while one user operation is at work or its report
\* waits to be handled, never for two, and a connection is watched if and only
\* if the user asked for it, whatever the order in which the workers of
\* main_viewmodel.py end and are given up.
THEOREM FlagsHold == Spec => []FlagsAreTrue
  BY FlagsImplied, Invariance, PTL

-------------------------------------------------------------------------------
(***************************************************************************)
(* The contract of the service, on a machine with one adapter              *)
(***************************************************************************)
OneAdapter == \E a \in Adapters : Adapters = {a}

LEMMA Alone ==
  ASSUME IInv, NEW c \in Working, NoteOverlap(c), ~overlapped',
         ~Service!Running(c)
  PROVE  Service!Quiet
BY OverlapNoted, WorkingShaped DEF Service!Quiet, Worker

LEMMA ApplyContract ==
  ASSUME IInv, OneAdapter, NEW c \in Callers, ApplyTested(c)
  PROVE  [Service!Next \/ overlapped']_serviceVars
<1>1. c \in Working /\ worker[c].role = "apply"
  BY InRole DEF ApplyTested
<1>2. CASE UNCHANGED serviceVars
  BY <1>2
<1>3. CASE /\ Service!BeginSet(c, worker[c].adapter, worker[c].setting)
           /\ NoteOverlap(c)
  <2> SUFFICES ASSUME ~overlapped' PROVE Service!Next
    OBVIOUS
  <2>1. worker[c].adapter \in Adapters /\ worker[c].setting \in Settings
    BY <1>1, WorkingShaped DEF Shaped
  <2>2. Service!Quiet
    BY <1>1, <1>3, Alone DEF Service!BeginSet
  <2>3. backup \in Service!Backup => Service!Saved(worker[c].adapter)
    BY <2>1 DEF OneAdapter, Service!Saved, Service!Backup
  <2> QED
    BY <1>3, <2>1, <2>2, <2>3 DEF Service!Next
<1> QED
  BY <1>2, <1>3 DEF ApplyTested, Answer

LEMMA RestoreContract ==
  ASSUME IInv, NEW c \in Callers, AskRestore(c)
  PROVE  [Service!Next \/ overlapped']_serviceVars
<1>1. c \in Working /\ worker[c] \in Worker
  <2>1. c \in Working
    BY NoWorkerFields DEF AskRestore, Working
  <2> QED
    BY <2>1, WorkingShaped
<1>2. ASSUME NEW a \in Adapters \cup {None}, Service!BeginRestore(c, a)
      PROVE  [Service!Next \/ overlapped']_serviceVars
  <2> SUFFICES ASSUME ~overlapped' PROVE Service!Next
    OBVIOUS
  <2>1. Service!Quiet
    BY <1>1, <1>2, Alone DEF AskRestore, Service!BeginRestore
  <2> QED
    BY <1>2, <2>1 DEF Service!Next
<1>3. /\ vm.active \in Adapters \cup {None}
      /\ worker[c].adapter \in Adapters \cup {None}
      /\ backup \in Service!Backup => backup.adapter \in Adapters
  BY <1>1, TypeSplit DEF IInv, VmType, Worker, Service!Backup
<1> DEFINE a == IF worker[c].role = "trip" THEN vm.active ELSE worker[c].adapter
<1>4. a \in Adapters \cup {None}
  BY <1>3
<1>5. \/ UNCHANGED serviceVars
      \/ Service!BeginRestore(c, a)
      \/ backup \in Service!Backup /\ Service!BeginRestore(c, backup.adapter)
  BY DEF AskRestore, Answer
<1> HIDE DEF a
<1> QED
  BY <1>2, <1>3, <1>4, <1>5

\* The end of the process ends the one call that its own thread executes.
LEMMA EndContract ==
  ASSUME IInv, EndProcess
  PROVE  [Service!Next \/ overlapped']_serviceVars
<1> SUFFICES ASSUME ~overlapped
             PROVE  Service!Next \/ UNCHANGED serviceVars
  BY DEF EndProcess
<1>1. UNCHANGED <<dns, backup, result, original>>
  BY DEF EndProcess
<1>2. call \in [Callers -> Service!Call]
  BY TypeSplit DEF IInv, Service!TypeOK
<1>3. \A c \in Callers : ~Service!Running(c) => call[c] = Service!Idle
  BY DEF IInv, CallsTyped, Service!Running
<1>4. CASE UNCHANGED call
  BY <1>1, <1>4 DEF serviceVars
<1>5. CASE call' = [c \in Callers |-> Service!Idle]
  <2>1. CASE \A c \in Callers : ~Service!Running(c)
    <3>1. call' = call
      BY <1>2, <1>3, <1>5, <2>1
    <3> QED
      BY <3>1, <1>4
  <2>2. ASSUME NEW c \in Callers, Service!Running(c)
        PROVE  Service!Next
    <3>1. \A d \in Callers \ {c} : call[d] = Service!Idle
      BY <1>3, <2>2 DEF IInv, OneCall
    <3>2. call' = [call EXCEPT ![c] = Service!Idle]
      BY <1>2, <1>5, <3>1
    <3>3. Service!Die(c)
      BY <1>1, <2>2, <3>2 DEF Service!Die
    <3> QED
      BY <3>3 DEF Service!Next
  <2> QED
    BY <2>1, <2>2
<1> QED
  BY <1>4, <1>5 DEF EndProcess

LEMMA ContractStep ==
  ASSUME IInv, OneAdapter, [Next]_vars
  PROVE  [Service!Next \/ overlapped']_serviceVars
<1>1. CASE UNCHANGED serviceVars
  BY <1>1
<1>2. CASE EndProcess
  BY <1>2, EndContract
<1>3. ASSUME NEW c \in Callers, ApplyTested(c) \/ AskRestore(c)
      PROVE  [Service!Next \/ overlapped']_serviceVars
  BY <1>3, ApplyContract, RestoreContract
<1>4. ASSUME NEW c \in Callers, CallStep(c) \/ HelperDies(c)
      PROVE  Service!Next
  BY <1>4 DEF CallStep, HelperDies, Service!Next
<1>5. ASSUME NEW a \in Adapters, NEW s \in Settings, UserEdits(a, s)
      PROVE  Service!Next
  BY <1>5 DEF UserEdits, Service!Next
<1>6. CASE Start \/ BeginExit \/ Crash \/ Handle \/ CloseWarning
  BY <1>1, <1>2, <1>6 DEF Start, BeginExit, Crash, Handle, CloseWarning
<1>7. ASSUME NEW c \in Callers, WorkerStep(c)
      PROVE  [Service!Next \/ overlapped']_serviceVars
  BY <1>1, <1>2, <1>3, <1>7 DEF WorkerStep, GuardTested, GuardSatisfied, Finish,
     TimeOut, Conclude
<1>8. ASSUME NEW c \in Callers, NEW a \in Adapters, NEW s \in Settings,
             ApplyProfile(c, a, s) \/ Disconnect(c) \/ GuardTick(c)
      PROVE  UNCHANGED serviceVars
  BY <1>8 DEF ApplyProfile, Disconnect, GuardTick
<1>9. ASSUME NEW enabled \in BOOLEAN, SetKillSwitch(enabled)
      PROVE  UNCHANGED serviceVars
  BY <1>9 DEF SetKillSwitch
<1>10. CASE UNCHANGED vars
  BY <1>1, <1>10 DEF vars, serviceVars
<1> QED
  BY <1>1, <1>3, <1>4, <1>5, <1>6, <1>7, <1>8, <1>9, <1>10 DEF Next, Disconnect, GuardTick

\* On a machine with one adapter the callers in main_viewmodel.py keep the
\* contract of the DNS service in every step, timeouts, crashes and restarts
\* included, until a call overlaps one that the busy flag does not separate from
\* it.  With a second adapter they do not: run DnsAdapterSwitch.
THEOREM ContractKept == ASSUME OneAdapter PROVE Spec => HonoursContract
<1>1. IInv /\ [Next]_vars => [Service!Next \/ overlapped']_serviceVars
  BY ContractStep
<1> QED
  BY <1>1, Invariance, PTL DEF Spec, HonoursContract

-------------------------------------------------------------------------------
(***************************************************************************)
(* The promise of the service, for its callers                             *)
(***************************************************************************)
LEMMA SameNext == SP!Next <=> Service!Next
BY DEF SP!Next, SP!BeginSet, SP!Running, SP!BeginRestore, SP!Quiet, SP!Saved,
   SP!Backup, SP!UserEdits, SP!Step, SP!Die, SP!Idle, SP!SaveBackup,
   SP!ReadCurrentState, SP!WriteBackup, SP!SetServers, SP!CheckPending,
   SP!ResetServers, SP!DropBackup, SP!Return, SP!Goto,
   Service!Next, Service!BeginSet, Service!Running, Service!BeginRestore,
   Service!Quiet, Service!Saved, Service!Backup, Service!UserEdits,
   Service!Step, Service!Die, Service!Idle, Service!SaveBackup,
   Service!ReadCurrentState, Service!WriteBackup, Service!SetServers,
   Service!CheckPending, Service!ResetServers, Service!DropBackup,
   Service!Return, Service!Goto

LEMMA ServiceStarts == Init => SP!IInv
<1>1. Init => SP!Init
  BY DEF Init, Service!Init, SP!Init, SP!Idle, Service!Idle
<1> QED
  BY <1>1, SP!InitIInv, ServiceAssumption DEF Service!ConstantsAssumption,
     SP!Backup, Service!Backup

LEMMA OverlapStays ==
  ASSUME [Next]_vars, overlapped PROVE overlapped'
<1>1. \A c : NoteOverlap(c) => overlapped'
  BY DEF NoteOverlap
<1> QED
  BY <1>1 DEF Next, vars, Start, BeginExit, Crash, EndProcess, Handle,
     CloseWarning, SetKillSwitch, ApplyProfile, Disconnect, GuardTick,
     WorkerStep, ApplyTested, GuardTested, GuardSatisfied, AskRestore, Finish,
     TimeOut, Conclude, CallStep, HelperDies, UserEdits

LEMMA ServiceKept ==
  ASSUME IInv, OneAdapter, [Next]_vars, ~overlapped => SP!IInv, ~overlapped'
  PROVE  SP!IInv'
<1>1. ~overlapped /\ SP!IInv
  BY OverlapStays
<1>2. Service!Next \/ UNCHANGED serviceVars
  BY ContractStep
<1>3. [SP!Next]_(SP!vars)
  BY <1>2, SameNext DEF serviceVars, SP!vars
<1> QED
  BY <1>1, <1>3, SP!NextIInv, ServiceAssumption DEF Service!ConstantsAssumption,
     SP!Backup, Service!Backup

LEMMA ServiceAlways ==
  ASSUME OneAdapter PROVE Spec => [](~overlapped => SP!IInv)
<1>1. Init => (~overlapped => SP!IInv)
  BY ServiceStarts
<1>2. IInv /\ (~overlapped => SP!IInv) /\ [Next]_vars => (~overlapped => SP!IInv)'
  BY ServiceKept
<1> QED
  BY <1>1, <1>2, Invariance, PTL DEF Spec

\* On such a machine what the user configured is in effect or in the backup, as
\* long as no two calls overlapped.
THEOREM Recoverable == ASSUME OneAdapter PROVE Spec => []SerialRecoverable
<1>1. (~overlapped => SP!IInv) => SerialRecoverable
  BY DEF SerialRecoverable, OriginalRecoverable, Service!OriginalRecoverable,
     Service!Saved, SP!IInv, SP!SavedIsOriginal, SP!UnsavedIsOriginal, SP!Saved,
     SP!Backup, Service!Backup
<1> QED
  BY <1>1, ServiceAlways, PTL

\* Whose steps the others are.
LEMMA NextSplit ==
  ASSUME [Next]_vars
  PROVE  \/ UNCHANGED serviceVars
         \/ EndProcess
         \/ \E c \in Callers : \/ Service!Step(c) \/ Service!Die(c)
                               \/ ApplyTested(c) \/ AskRestore(c)
         \/ \E a \in Adapters, s \in Settings : UserEdits(a, s)
BY DEF Next, vars, serviceVars, Start, BeginExit, Crash, Handle, CloseWarning,
   SetKillSwitch, ApplyProfile, Disconnect, GuardTick, WorkerStep, GuardTested,
   GuardSatisfied, Finish, TimeOut, Conclude, CallStep, HelperDies

-------------------------------------------------------------------------------
(***************************************************************************)
(* What the user is told of a disconnection                                *)
(***************************************************************************)
LEMMA StepUndecided ==
  ASSUME Service!TypeOK, Undecided, NEW c \in Callers, Service!Step(c)
  PROVE  Undecided'
BY DEF Service!TypeOK, Undecided, Service!Running, Service!Step, Service!Goto,
   Service!Return, Service!Idle, Service!SaveBackup, Service!ReadCurrentState,
   Service!WriteBackup, Service!SetServers, Service!CheckPending,
   Service!ResetServers, Service!DropBackup

LEMMA UndecidedStep ==
  ASSUME IInv, Undecided, [Next]_vars PROVE Undecided'
<1> USE TypeSplit DEF IInv
<1>1. CASE UNCHANGED serviceVars
  BY <1>1 DEF Undecided, Service!Running, serviceVars
<1>2. CASE EndProcess
  BY <1>2, IdleFields DEF EndProcess, Undecided, Service!Running
<1>3. ASSUME NEW c \in Callers, Service!Step(c) PROVE Undecided'
  BY <1>3, StepUndecided
<1>4. ASSUME NEW c \in Callers, Service!Die(c) PROVE Undecided'
  BY <1>4, IdleFields DEF Service!Die, Undecided, Service!Running, Service!TypeOK
<1>5. ASSUME NEW c \in Callers, BeginDone(c) PROVE Undecided'
  BY <1>5 DEF BeginDone, OneCallChanges, Undecided, Service!Running
<1>6. ASSUME NEW c \in Callers, ApplyTested(c) PROVE Undecided'
  <2>1. c \in Working /\ worker[c].role = "apply"
    BY <1>6, InRole DEF ApplyTested
  <2>2. worker[c].adapter \in Adapters /\ worker[c].setting \in Settings
    BY <2>1, WorkingShaped DEF Shaped
  <2> QED
    BY <1>1, <1>5, <1>6, <2>2, BeginSetDone DEF ApplyTested, Answer
<1>7. ASSUME NEW c \in Callers, AskRestore(c) PROVE Undecided'
  BY <1>1, <1>5, <1>7, RestoreAsked DEF Answer
<1>8. ASSUME NEW a \in Adapters, NEW s \in Settings, UserEdits(a, s)
      PROVE  Undecided'
  BY <1>8 DEF UserEdits, Service!UserEdits, Undecided, Service!Running
<1> QED
  BY <1>1, <1>2, <1>3, <1>4, <1>6, <1>7, <1>8, NextSplit

\* No disconnection gets ahead, and none comes to be a restoration.
Kept == (Disconnecting' => Disconnecting) /\ (Restored' => Restored)

LEMMA WorkerKept ==
  ASSUME NEW c \in Callers, \A d \in Callers \ {c} : worker'[d] = worker[d],
         worker'[c].role # "disconnect" \/ worker'[c].at = "asking",
         UNCHANGED <<serviceVars, inbox>>
  PROVE  Kept
BY DEF Kept, Disconnecting, Restored, serviceVars, Service!Running

LEMMA SpawnKept ==
  ASSUME IInv, NEW c \in Callers, NEW w \in Worker, Spawn(c, w),
         w.role # "disconnect" \/ w.at = "asking",
         UNCHANGED <<serviceVars, inbox>>
  PROVE  Kept
<1>1. worker \in [Callers -> Worker] /\ worker' = [worker EXCEPT ![c] = w]
  BY TypeSplit DEF IInv, Spawn
<1> QED
  BY <1>1, WorkerKept

LEMMA HandleKept ==
  ASSUME IInv, Handle PROVE Kept
<1>1. inbox \in Seq(Message) /\ inbox # <<>> /\ inbox' = Tail(inbox)
  BY TypeSplit DEF IInv, Handle
<1>2. \A i \in DOMAIN inbox' : i + 1 \in DOMAIN inbox /\ inbox'[i] = inbox[i + 1]
  BY <1>1
<1> QED
  BY <1>2 DEF Handle, Kept, Disconnecting, Restored, serviceVars, Service!Running

LEMMA ConcludeKept ==
  ASSUME IInv, NEW c \in Working, NEW ok \in BOOLEAN, Conclude(c, ok),
         worker[c].role # "exit", worker[c].role # "guard",
         worker[c].role = "disconnect" =>
            /\ worker[c].at # "asking"
            /\ ok => \/ worker[c].at = "answered" /\ worker[c].ok
                     \/ /\ worker[c].at = "calling" /\ ~Service!Running(c)
                        /\ result[c] = "ok"
  PROVE  Kept
<1>1. /\ worker \in [Callers -> Worker] /\ c \in Callers
      /\ inbox \in Seq(Message) /\ worker[c] \in Worker
  BY TypeSplit, WorkingShaped DEF IInv, Working
<1>2. worker' = [worker EXCEPT ![c] = NoWorker] /\ UNCHANGED serviceVars
  BY DEF Conclude
<1>3. /\ \A d \in Callers \ {c} : worker'[d] = worker[d]
      /\ worker'[c].role = "none"
  BY <1>1, <1>2, NoWorkerFields
<1>4. CASE UNCHANGED inbox
  BY <1>1, <1>2, <1>3, <1>4, WorkerKept
<1> DEFINE m == [kind |-> worker[c].role, ok |-> ok, adapter |-> worker[c].adapter]
<1>5. CASE inbox' = Append(inbox, m) /\ worker[c].role \in {"apply", "disconnect", "trip"}
  <2>1. m \in Message /\ m.kind = worker[c].role /\ m.ok = ok
    BY <1>1, <1>5 DEF Worker, Message
  <2> HIDE DEF m
  <2>2. \A i \in DOMAIN inbox' : \/ inbox'[i] = m
                                 \/ i \in DOMAIN inbox /\ inbox'[i] = inbox[i]
    BY <1>1, <1>5, <2>1
  <2> QED
    BY <1>1, <1>2, <1>3, <2>1, <2>2 DEF Kept, Disconnecting, Restored, serviceVars,
       Service!Running
<1> HIDE DEF m
<1>6. \/ UNCHANGED inbox
      \/ inbox' = Append(inbox, m) /\ worker[c].role \in {"apply", "disconnect", "trip"}
  BY <1>1, WorkingShaped DEF Conclude, m, Worker, Roles, Shaped
<1> QED
  BY <1>4, <1>5, <1>6

LEMMA EndsKept ==
  ASSUME IInv, NEW c \in Callers, Finish(c) \/ TimeOut(c)
  PROVE  Kept \/ EndProcess
<1>1. /\ c \in Working /\ worker[c].at \in {"answered", "calling"}
      /\ worker[c].role # "guard" /\ worker[c].ok \in BOOLEAN
  BY WorkingShaped DEF Finish, TimeOut, Shaped, Worker
<1>2. PICK ok \in BOOLEAN :
         /\ Conclude(c, ok)
         /\ ok => \/ worker[c].at = "answered" /\ worker[c].ok
                  \/ /\ worker[c].at = "calling" /\ ~Service!Running(c)
                     /\ result[c] = "ok"
  <2>1. CASE TimeOut(c)
    BY <2>1 DEF TimeOut
  <2>2. CASE worker[c].at = "answered" /\ Conclude(c, worker[c].ok)
    BY <1>1, <2>2
  <2>3. CASE /\ worker[c].at = "calling" /\ ~Service!Running(c)
             /\ Conclude(c, result[c] = "ok")
    BY <2>3
  <2> QED
    BY <2>1, <2>2, <2>3 DEF Finish
<1>3. CASE worker[c].role = "exit"
  BY <1>2, <1>3 DEF Conclude
<1>4. CASE worker[c].role # "exit"
  BY <1>1, <1>2, <1>4, ConcludeKept
<1> QED
  BY <1>3, <1>4

\* No new worker is on its way back from the service.
Fresh(w) == w \in Worker /\ (w.role # "disconnect" \/ w.at = "asking")

LEMMA NewWorkers ==
  /\ Fresh([NoWorker EXCEPT !.role = "recover", !.at = "asking"])
  /\ Fresh([NoWorker EXCEPT !.role = "guard", !.at = "testing"])
  /\ \A a \in Adapters, s \in Settings :
        Fresh([NoWorker EXCEPT !.role = "apply", !.at = "testing",
                               !.adapter = a, !.setting = s])
  /\ \A a \in Adapters \cup {None} :
        /\ Fresh([NoWorker EXCEPT !.role = "disconnect", !.at = "asking",
                                  !.adapter = a])
        /\ Fresh([NoWorker EXCEPT !.role = "exit", !.at = "asking",
                                  !.adapter = a])
BY NoWorkerFields DEF Fresh, Worker, Roles

\* A step of the GUI thread.
LEMMA HandlersKept ==
  ASSUME IInv, UNCHANGED <<serviceVars, inbox>>,
         \/ UNCHANGED worker
         \/ \E c \in Callers, w \in Worker : Spawn(c, w) /\ Fresh(w)
  PROVE  Kept
<1>1. CASE UNCHANGED worker
  BY <1>1 DEF Kept, Disconnecting, Restored, serviceVars, Service!Running
<1>2. ASSUME NEW c \in Callers, NEW w \in Worker, Spawn(c, w), Fresh(w)
      PROVE  Kept
  BY <1>2, SpawnKept DEF Fresh
<1> QED
  BY <1>1, <1>2

LEMMA SessionKept ==
  ASSUME IInv, [Next]_vars
  PROVE  \/ Kept /\ UNCHANGED serviceVars
         \/ EndProcess
         \/ \E c \in Callers : \/ CallStep(c) \/ HelperDies(c)
                               \/ ApplyTested(c) \/ AskRestore(c)
         \/ \E a \in Adapters, s \in Settings : UserEdits(a, s)
<1>1. vm.active \in Adapters \cup {None} /\ worker \in [Callers -> Worker]
  BY TypeSplit DEF IInv, VmType
<1> DEFINE Newly == \E c \in Callers, w \in Worker : Spawn(c, w) /\ Fresh(w)
<1>2. \A c \in Callers : \A w : Spawn(c, w) /\ Fresh(w) => Newly
  BY DEF Fresh
<1>3. CASE Handle
  BY <1>3, HandleKept DEF Handle
<1>4. CASE Start
  <2>1. UNCHANGED worker \/ Newly
    BY <1>2, <1>4, NewWorkers DEF Start
  <2> QED
    BY <1>4, <2>1, HandlersKept DEF Start
<1>5. ASSUME NEW c \in Callers, NEW a \in Adapters, NEW s \in Settings,
             ApplyProfile(c, a, s)
      PROVE  Kept /\ UNCHANGED serviceVars
  <2>1. Newly
    BY <1>2, <1>5, NewWorkers DEF ApplyProfile
  <2> QED
    BY <1>5, <2>1, HandlersKept DEF ApplyProfile
<1>6. ASSUME NEW c \in Callers, Disconnect(c)
      PROVE  Kept /\ UNCHANGED serviceVars
  <2>1. Newly
    BY <1>1, <1>2, <1>6, NewWorkers DEF Disconnect
  <2> QED
    BY <1>6, <2>1, HandlersKept DEF Disconnect
<1>7. ASSUME NEW c \in Callers, GuardTick(c)
      PROVE  Kept /\ UNCHANGED serviceVars
  <2>1. Newly
    BY <1>2, <1>7, NewWorkers DEF GuardTick
  <2> QED
    BY <1>7, <2>1, HandlersKept DEF GuardTick
<1>8. CASE BeginExit
  <2>1. CASE Newly /\ UNCHANGED <<serviceVars, inbox>>
    BY <2>1, HandlersKept
  <2>2. EndProcess \/ (Newly /\ UNCHANGED <<serviceVars, inbox>>)
    BY <1>1, <1>2, <1>8, NewWorkers DEF BeginExit
  <2> QED
    BY <2>1, <2>2
<1>9. ASSUME NEW enabled \in BOOLEAN,
             CloseWarning \/ SetKillSwitch(enabled) \/ UNCHANGED vars
      PROVE  Kept /\ UNCHANGED serviceVars
  <2>1. UNCHANGED <<serviceVars, inbox, worker>>
    BY <1>9 DEF CloseWarning, SetKillSwitch, vars, serviceVars
  <2> QED
    BY <2>1, HandlersKept
<1>10. ASSUME NEW c \in Callers, GuardTested(c) \/ GuardSatisfied(c)
       PROVE  Kept /\ UNCHANGED serviceVars
  <2>1. /\ UNCHANGED <<serviceVars, inbox>>
        /\ \A d \in Callers \ {c} : worker'[d] = worker[d]
        /\ worker[c] \in Worker
    BY <1>1, <1>10 DEF GuardTested, GuardSatisfied
  <2>2. worker'[c].role # "disconnect"
    BY <1>1, <1>10, <2>1, NoWorkerFields DEF GuardTested, GuardSatisfied, Worker
  <2> QED
    BY <2>1, <2>2, WorkerKept
<1>11. ASSUME NEW c \in Callers, Finish(c) \/ TimeOut(c)
       PROVE  (Kept /\ UNCHANGED serviceVars) \/ EndProcess
  <2>1. UNCHANGED serviceVars \/ EndProcess
    BY <1>11 DEF Finish, TimeOut, Conclude
  <2> QED
    BY <1>11, <2>1, EndsKept
<1> QED
  BY <1>3, <1>4, <1>5, <1>6, <1>7, <1>8, <1>9, <1>10, <1>11
     DEF Next, WorkerStep, Crash

\* A set call is of no disconnection, and none runs beside one.
LEMMA AskedStays ==
  ASSUME IInv, RestoredStays, Undecided, NEW c \in Callers, AskRestore(c)
  PROVE  RestoredStays'
<1> USE TypeSplit DEF IInv
<1> SUFFICES ASSUME ~overlapped' PROVE RestoredStays'
  BY DEF RestoredStays
<1>1. /\ c \in Working /\ worker[c] \in Worker /\ worker[c].role # "guard"
      /\ worker[c].at = "asking" /\ NoteOverlap(c) /\ UNCHANGED inbox
      /\ worker \in [Callers -> Worker]
  BY RestoreAsked
<1>2. ~overlapped /\ ~Service!Running(c)
  BY <1>1 DEF WorkersShaped, NoteOverlap
<1>3. \A d \in Callers : ~Service!Running(d)
  BY <1>1, <1>2, OverlapNoted DEF Worker
<1>4. CASE \E ok \in BOOLEAN : Answer(c, ok) /\ (ok => backup = NoFile)
  <2>1. PICK ok \in BOOLEAN : Answer(c, ok) /\ (ok => backup = NoFile)
    BY <1>4
  <2>2. PICK w \in Worker : /\ worker' = [worker EXCEPT ![c] = w]
                            /\ w.role = worker[c].role
                            /\ w.at = "answered" /\ w.ok = ok
    BY <1>1, <2>1, AnswerStep
  <2>3. \A d \in Callers : worker'[d] = IF d = c THEN w ELSE worker[d]
    BY <1>1, <2>2
  <2>4. UNCHANGED serviceVars /\ \A d \in Callers : call[d].pc = "idle"
    BY <1>3, <2>1 DEF Answer, Service!Running
  <2>5. \A d \in Callers : call'[d].pc \notin Service!SetSteps
    BY <2>4 DEF serviceVars, Service!SetSteps
  <2>6. Restored' => Restored \/ ok
    BY <1>1, <2>2, <2>3, <2>4 DEF Restored, serviceVars, Service!Running
  <2>7. Restored' => backup' = NoFile
    BY <1>2, <2>1, <2>4, <2>6 DEF RestoredStays, serviceVars
  <2> QED
    BY <2>5, <2>7 DEF RestoredStays
<1>5. CASE Calling(c) /\ BeginDone(c) /\ call'[c].pc = "check"
  <2>1. PICK w \in Worker : /\ worker' = [worker EXCEPT ![c] = w]
                            /\ w.role = worker[c].role
                            /\ w.at = "calling"
    BY <1>1, <1>5, CallingStep
  <2>2. \A d \in Callers : worker'[d] = IF d = c THEN w ELSE worker[d]
    BY <1>1, <2>1
  <2>3. \A d \in Callers : call'[d].pc \in {"idle", "check"}
    BY <1>3, <1>5 DEF BeginDone, OneCallChanges, Service!Running
  <2>4. \A d \in Callers : call'[d].pc \notin Service!SetSteps
    BY <2>3 DEF Service!SetSteps
  <2>5. Restored' => Restored
    BY <1>1, <1>5, <2>1, <2>2 DEF Restored, BeginDone, OneCallChanges,
       Service!Running
  <2>6. Restored' => backup' = NoFile
    BY <1>2, <1>5, <2>5 DEF RestoredStays, BeginDone
  <2> QED
    BY <2>4, <2>6 DEF RestoredStays
<1> QED
  BY <1>4, <1>5, RestoreAsked

LEMMA AppliedStays ==
  ASSUME IInv, RestoredStays, NEW c \in Callers, ApplyTested(c)
  PROVE  RestoredStays'
<1> USE TypeSplit DEF IInv
<1>1. /\ c \in Working /\ worker[c].role = "apply" /\ UNCHANGED inbox
      /\ worker \in [Callers -> Worker]
  BY InRole DEF ApplyTested
<1>2. ~Disconnecting
  <2>1. Reports = {} /\ \A d \in Callers : worker[d].role # "disconnect"
    BY <1>1 DEF OneOperation, Operations
  <2> QED
    BY <2>1 DEF Disconnecting, Reports
<1>3. \/ Calling(c)
      \/ Answer(c, FALSE)
  BY DEF ApplyTested
<1>4. PICK w \in Worker : /\ worker' = [worker EXCEPT ![c] = w]
                          /\ w.role = "apply"
  <2>1. worker[c].role # "guard" /\ FALSE \in BOOLEAN
    BY <1>1
  <2>2. CASE Calling(c)
    BY <1>1, <2>1, <2>2, CallingStep
  <2>3. ASSUME NEW ok \in BOOLEAN, Answer(c, ok)
        PROVE  \E w \in Worker : /\ worker' = [worker EXCEPT ![c] = w]
                                 /\ w.role = worker[c].role
    BY <1>1, <2>1, <2>3, AnswerStep
  <2> QED
    BY <1>1, <1>3, <2>1, <2>2, <2>3
<1>5. ~Disconnecting'
  BY <1>1, <1>2, <1>4 DEF Disconnecting
<1>6. ~Restored'
  BY <1>5 DEF Restored, Disconnecting
<1> QED
  BY <1>5, <1>6 DEF RestoredStays

\* The step of a call: none begins to change an adapter, only one that changes
\* one writes a backup, and one that restores answers "ok" if none is left.
LEMMA StepRestores ==
  ASSUME Service!TypeOK, NEW c \in Callers, Service!Step(c) \/ Service!Die(c)
  PROVE  /\ call'[c].pc \in Service!SetSteps => call[c].pc \in Service!SetSteps
         /\ \/ backup' = backup
            \/ backup' = NoFile
            \/ call[c].pc \in Service!SetSteps
         /\ ~Service!Running(c)' /\ result'[c] = "ok" =>
               \/ result[c] = "ok"
               \/ backup' = NoFile
               \/ call[c].pc \in Service!SetSteps
<1> USE DEF Service!TypeOK, Service!Running, Service!Goto, Service!Return,
            Service!Idle, Service!SetSteps
<1>1. CASE Service!SaveBackup(c)
  BY <1>1 DEF Service!SaveBackup
<1>2. CASE Service!ReadCurrentState(c)
  BY <1>2 DEF Service!ReadCurrentState
<1>3. CASE Service!WriteBackup(c)
  BY <1>3 DEF Service!WriteBackup
<1>4. CASE Service!SetServers(c)
  BY <1>4 DEF Service!SetServers
<1>5. CASE Service!CheckPending(c)
  <2>1. CASE Service!Return(c, "failed") \/ (backup = NoFile /\ Service!Return(c, "ok"))
    BY <1>5, <2>1 DEF Service!CheckPending
  <2>2. CASE /\ call' = [call EXCEPT ![c].pc = "reset",
                                     ![c].adapter = backup.adapter,
                                     ![c].setting = backup.setting]
             /\ UNCHANGED result
    <3>1. call'[c].pc = "reset"
      BY <2>2 DEF Service!Call
    <3> QED
      BY <1>5, <2>2, <3>1 DEF Service!CheckPending
  <2> QED
    BY <1>5, <2>1, <2>2 DEF Service!CheckPending
<1>6. CASE Service!ResetServers(c)
  <2>1. CASE Service!Return(c, "failed")
    BY <1>6, <2>1 DEF Service!ResetServers
  <2>2. CASE Service!Goto(c, "drop") /\ UNCHANGED result
    <3>1. call'[c].pc = "drop"
      BY <2>2 DEF Service!Call
    <3> QED
      BY <1>6, <2>2, <3>1 DEF Service!ResetServers
  <2> QED
    BY <1>6, <2>1, <2>2 DEF Service!ResetServers
<1>7. CASE Service!DropBackup(c)
  BY <1>7 DEF Service!DropBackup
<1>8. CASE Service!Die(c)
  BY <1>8 DEF Service!Die
<1> QED
  BY <1>1, <1>2, <1>3, <1>4, <1>5, <1>6, <1>7, <1>8 DEF Service!Step

LEMMA CallStays ==
  ASSUME IInv, RestoredStays, Undecided, NEW c \in Callers,
         CallStep(c) \/ HelperDies(c)
  PROVE  RestoredStays'
<1> USE TypeSplit DEF IInv
<1> SUFFICES ASSUME ~overlapped, Disconnecting' PROVE
       /\ \A d \in Callers : call'[d].pc \notin Service!SetSteps
       /\ Restored' => backup' = NoFile
  <2>1. Restored' => Disconnecting'
    BY DEF Restored, Disconnecting
  <2>2. UNCHANGED overlapped
    BY DEF CallStep, HelperDies
  <2> QED
    BY <2>1, <2>2 DEF RestoredStays
<1>1. /\ Service!Step(c) \/ Service!Die(c)
      /\ UNCHANGED <<worker, inbox>>
  BY DEF CallStep, HelperDies
<1>2. Service!Running(c) /\ OneCallChanges(c)
  BY <1>1, CallStepDone, DieDone DEF StepDone
<1>3. Disconnecting
  BY <1>1 DEF Disconnecting
<1>4. \A d \in Callers : call[d].pc \notin Service!SetSteps
  BY <1>3 DEF RestoredStays
<1>5. /\ call'[c].pc \notin Service!SetSteps
      /\ backup' = backup \/ backup' = NoFile
      /\ ~Service!Running(c)' /\ result'[c] = "ok" => backup' = NoFile
  BY <1>1, <1>2, <1>4, StepRestores DEF Undecided
<1>6. \A d \in Callers : call'[d].pc \notin Service!SetSteps
  BY <1>2, <1>4, <1>5 DEF OneCallChanges
<1>7. Restored' => Restored \/ (~Service!Running(c)' /\ result'[c] = "ok")
  BY <1>1, <1>2 DEF Restored, OneCallChanges, Service!Running
<1>8. Restored' => backup' = NoFile
  BY <1>5, <1>7, <1>3 DEF RestoredStays
<1> QED
  BY <1>6, <1>8

LEMMA RestoredStep ==
  ASSUME IInv, RestoredStays, Undecided, [Next]_vars PROVE RestoredStays'
<1>1. CASE Kept /\ UNCHANGED serviceVars
  <2>1. overlapped => overlapped'
    BY OverlapStays
  <2>2. UNCHANGED <<call, backup>>
    BY <1>1 DEF serviceVars
  <2> QED
    BY <1>1, <2>1, <2>2 DEF Kept, RestoredStays
<1>2. CASE EndProcess
  <2>1. /\ \A d \in Callers : worker'[d].role = "none"
        /\ DOMAIN inbox' = {}
    BY <1>2, NoWorkerFields DEF EndProcess
  <2>2. ~Disconnecting' /\ ~Restored'
    BY <2>1 DEF Disconnecting, Restored
  <2> QED
    BY <2>2 DEF RestoredStays
<1>3. ASSUME NEW a \in Adapters, NEW s \in Settings, UserEdits(a, s)
      PROVE  RestoredStays'
  BY <1>3 DEF UserEdits, Service!UserEdits, RestoredStays, Restored,
     Disconnecting, Service!Running
<1> QED
  BY <1>1, <1>2, <1>3, AskedStays, AppliedStays, CallStays, SessionKept

LEMMA SessionAlways == Spec => [](IInv /\ Undecided /\ RestoredStays)
<1>1. Init => Undecided /\ RestoredStays
  <2> SUFFICES ASSUME Init PROVE Undecided /\ RestoredStays
    OBVIOUS
  <2>1. /\ \A d \in Callers : worker[d].role = "none" /\ call[d].pc = "idle"
        /\ DOMAIN inbox = {}
    BY NoWorkerFields, IdleFields DEF Init, Service!Init
  <2>2. ~Disconnecting /\ ~Restored
    BY <2>1 DEF Disconnecting, Restored
  <2> QED
    BY <2>1, <2>2 DEF Undecided, RestoredStays, Service!Running
<1>2. IInv /\ Undecided /\ RestoredStays /\ [Next]_vars
         => Undecided' /\ RestoredStays'
  BY UndecidedStep, RestoredStep
<1> QED
  BY <1>1, <1>2, Invariance, PTL DEF Spec

\* A report of a restoration says what is so.
LEMMA ToldTruly ==
  ASSUME IInv, RestoredStays, ~overlapped => SP!IInv, ToldRestored, ~overlapped
  PROVE  dns = original
<1> USE TypeSplit DEF IInv
<1>1. 1 \in DOMAIN inbox /\ inbox[1] = Head(inbox)
  BY DEF ToldRestored
<1>2. backup = NoFile
  BY <1>1 DEF ToldRestored, Restored, RestoredStays
<1>3. \A a \in Adapters : dns[a] = original[a]
  BY <1>2, ServiceAssumption DEF Service!ConstantsAssumption, SP!IInv,
     SP!UnsavedIsOriginal, SP!Saved, SP!Backup, Service!Backup
<1> QED
  BY <1>3 DEF Service!TypeOK

\* On such a machine a disconnection that is reported as successful has put back
\* what the user configured, also when its report waited behind others and
\* whatever ran meanwhile.
THEOREM RestoredTold == ASSUME OneAdapter PROVE Spec => RestoredAsTold
<1>1. /\ IInv /\ Undecided /\ RestoredStays
      /\ ~overlapped => SP!IInv
      => (ToldRestored /\ ~overlapped => dns = original)
  BY ToldTruly
<1> QED
  BY <1>1, SessionAlways, ServiceAlways, PTL DEF RestoredAsTold
===============================================================================
