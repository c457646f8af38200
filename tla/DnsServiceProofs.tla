--------------------------- MODULE DnsServiceProofs ---------------------------
(***************************************************************************)
(* Theorems about DnsService, for every number of callers, adapters and    *)
(* settings: type correctness, the user's configuration is always          *)
(* recoverable, a restoration that reports success is exact, and the       *)
(* service implements DnsPromise.                                          *)
(***************************************************************************)
EXTENDS DnsService, TLAPS

\* At most one call runs (the contract of the service).
OneCall == \A c, d \in Callers : Running(c) /\ Running(d) => c = d

\* What each step of a call may rely on.
CallReady(c) ==
    /\ call[c].pc \in SetSteps \cup {"reset", "drop"} =>
          call[c].adapter \in Adapters /\ call[c].setting \in Settings
    /\ call[c].pc = "save" => (backup \in Backup => Saved(call[c].adapter))
    /\ call[c].pc = "snapshot" => backup \notin Backup
    /\ call[c].pc = "write" =>
          /\ backup \notin Backup
          /\ call[c].state = dns[call[c].adapter]
    /\ call[c].pc = "set" => Saved(call[c].adapter)
    /\ call[c].pc = "reset" =>
          Saved(call[c].adapter) /\ call[c].setting = backup.setting
    /\ call[c].pc = "drop" =>
          Saved(call[c].adapter) /\ dns[call[c].adapter] = backup.setting

\* A readable backup holds what the user configured.
SavedIsOriginal ==
    backup \in Backup => backup.setting = original[backup.adapter]

\* An adapter without a backup is as its user configured it.
UnsavedIsOriginal == \A a \in Adapters : ~Saved(a) => dns[a] = original[a]

IInv ==
    /\ TypeOK
    /\ OneCall
    /\ \A c \in Callers : CallReady(c)
    /\ SavedIsOriginal
    /\ UnsavedIsOriginal

-------------------------------------------------------------------------------
(***************************************************************************)
(* The invariant is inductive: one lemma per operation                     *)
(***************************************************************************)
LEMMA InitIInv == Init => IInv
<1> SUFFICES ASSUME Init PROVE IInv
  OBVIOUS
<1> USE DEF Init, Idle, Running
<1>1. TypeOK
  BY DEF TypeOK, Call
<1>2. OneCall /\ \A c \in Callers : CallReady(c)
  BY DEF OneCall, CallReady, SetSteps
<1>3. SavedIsOriginal /\ UnsavedIsOriginal
  BY ConstantsAssumption DEF SavedIsOriginal, UnsavedIsOriginal
<1> QED
  BY <1>1, <1>2, <1>3 DEF IInv

LEMMA SaveBackupIInv ==
    ASSUME IInv, NEW c \in Callers, SaveBackup(c) PROVE IInv'
<1> USE DEF IInv, SaveBackup, Goto, Idle, Running
<1>1. TypeOK'
  BY DEF TypeOK, Call, Backup, SetSteps, RestoreSteps, CallReady, Saved
<1>2. OneCall'
  BY DEF TypeOK, OneCall, Call
<1>3. \A d \in Callers : CallReady(d)'
  BY ConstantsAssumption DEF TypeOK, OneCall, CallReady, Call, Saved, SetSteps, Backup
<1>4. SavedIsOriginal'
  BY ConstantsAssumption DEF TypeOK, CallReady, SavedIsOriginal, UnsavedIsOriginal, Saved, SetSteps, Backup, Call
<1>5. UnsavedIsOriginal'
  BY ConstantsAssumption DEF TypeOK, CallReady, SavedIsOriginal, UnsavedIsOriginal, Saved, SetSteps, Backup, Call
<1> QED
  BY <1>1, <1>2, <1>3, <1>4, <1>5

LEMMA ReadCurrentStateIInv ==
    ASSUME IInv, NEW c \in Callers, ReadCurrentState(c) PROVE IInv'
<1> USE DEF IInv, ReadCurrentState, Goto, Return, Idle, Running
<1>1. TypeOK'
  BY DEF TypeOK, Call, Backup, SetSteps, RestoreSteps, CallReady, Saved
<1>2. OneCall'
  BY DEF TypeOK, OneCall, Call
<1>3. \A d \in Callers : CallReady(d)'
  BY ConstantsAssumption DEF TypeOK, OneCall, CallReady, Call, Saved, SetSteps, Backup
<1>4. SavedIsOriginal'
  BY ConstantsAssumption DEF TypeOK, CallReady, SavedIsOriginal, UnsavedIsOriginal, Saved, SetSteps, Backup, Call
<1>5. UnsavedIsOriginal'
  BY ConstantsAssumption DEF TypeOK, CallReady, SavedIsOriginal, UnsavedIsOriginal, Saved, SetSteps, Backup, Call
<1> QED
  BY <1>1, <1>2, <1>3, <1>4, <1>5

LEMMA WriteBackupIInv ==
    ASSUME IInv, NEW c \in Callers, WriteBackup(c) PROVE IInv'
<1> USE DEF IInv, WriteBackup, Goto, Return, Idle, Running
<1>1. TypeOK'
  BY DEF TypeOK, Call, Backup, SetSteps, RestoreSteps, CallReady, Saved
<1>2. OneCall'
  BY DEF TypeOK, OneCall, Call
<1>3. \A d \in Callers : CallReady(d)'
  BY ConstantsAssumption DEF TypeOK, OneCall, CallReady, Call, Saved, SetSteps, Backup
<1>4. SavedIsOriginal'
  BY ConstantsAssumption DEF TypeOK, CallReady, SavedIsOriginal, UnsavedIsOriginal, Saved, SetSteps, Backup, Call
<1>5. UnsavedIsOriginal'
  BY ConstantsAssumption DEF TypeOK, CallReady, SavedIsOriginal, UnsavedIsOriginal, Saved, SetSteps, Backup, Call
<1> QED
  BY <1>1, <1>2, <1>3, <1>4, <1>5

LEMMA SetServersIInv ==
    ASSUME IInv, NEW c \in Callers, SetServers(c) PROVE IInv'
<1> USE DEF IInv, SetServers, Return, Idle, Running
<1>1. TypeOK'
  BY DEF TypeOK, Call, Backup, SetSteps, RestoreSteps, CallReady, Saved
<1>2. OneCall'
  BY DEF TypeOK, OneCall, Call
<1>3. \A d \in Callers : CallReady(d)'
  BY ConstantsAssumption DEF TypeOK, OneCall, CallReady, Call, Saved, SetSteps, Backup
<1>4. SavedIsOriginal'
  BY ConstantsAssumption DEF TypeOK, CallReady, SavedIsOriginal, UnsavedIsOriginal, Saved, SetSteps, Backup, Call
<1>5. UnsavedIsOriginal'
  BY ConstantsAssumption DEF TypeOK, CallReady, SavedIsOriginal, UnsavedIsOriginal, Saved, SetSteps, Backup, Call
<1> QED
  BY <1>1, <1>2, <1>3, <1>4, <1>5

LEMMA CheckPendingIInv ==
    ASSUME IInv, NEW c \in Callers, CheckPending(c) PROVE IInv'
<1> USE DEF IInv, CheckPending, Return, Idle, Running
<1>1. TypeOK'
  BY DEF TypeOK, Call, Backup, SetSteps, RestoreSteps, CallReady, Saved
<1>2. OneCall'
  BY DEF TypeOK, OneCall, Call
<1>3. \A d \in Callers : CallReady(d)'
  BY ConstantsAssumption DEF TypeOK, OneCall, CallReady, Call, Saved, SetSteps, Backup
<1>4. SavedIsOriginal'
  BY ConstantsAssumption DEF TypeOK, CallReady, SavedIsOriginal, UnsavedIsOriginal, Saved, SetSteps, Backup, Call
<1>5. UnsavedIsOriginal'
  BY ConstantsAssumption DEF TypeOK, CallReady, SavedIsOriginal, UnsavedIsOriginal, Saved, SetSteps, Backup, Call
<1> QED
  BY <1>1, <1>2, <1>3, <1>4, <1>5

LEMMA ResetServersIInv ==
    ASSUME IInv, NEW c \in Callers, ResetServers(c) PROVE IInv'
<1> USE DEF IInv, ResetServers, Goto, Return, Idle, Running
<1>1. TypeOK'
  BY DEF TypeOK, Call, Backup, SetSteps, RestoreSteps, CallReady, Saved
<1>2. OneCall'
  BY DEF TypeOK, OneCall, Call
<1>3. \A d \in Callers : CallReady(d)'
  BY ConstantsAssumption DEF TypeOK, OneCall, CallReady, Call, Saved, SetSteps, Backup
<1>4. SavedIsOriginal'
  BY ConstantsAssumption DEF TypeOK, CallReady, SavedIsOriginal, UnsavedIsOriginal, Saved, SetSteps, Backup, Call
<1>5. UnsavedIsOriginal'
  BY ConstantsAssumption DEF TypeOK, CallReady, SavedIsOriginal, UnsavedIsOriginal, Saved, SetSteps, Backup, Call
<1> QED
  BY <1>1, <1>2, <1>3, <1>4, <1>5

LEMMA DropBackupIInv ==
    ASSUME IInv, NEW c \in Callers, DropBackup(c) PROVE IInv'
<1> USE DEF IInv, DropBackup, Return, Idle, Running
<1>1. TypeOK'
  BY DEF TypeOK, Call, Backup, SetSteps, RestoreSteps, CallReady, Saved
<1>2. OneCall'
  BY DEF TypeOK, OneCall, Call
<1>3. \A d \in Callers : CallReady(d)'
  BY ConstantsAssumption DEF TypeOK, OneCall, CallReady, Call, Saved, SetSteps, Backup
<1>4. SavedIsOriginal'
  BY ConstantsAssumption DEF TypeOK, CallReady, SavedIsOriginal, UnsavedIsOriginal, Saved, SetSteps, Backup, Call
<1>5. UnsavedIsOriginal'
  BY ConstantsAssumption DEF TypeOK, CallReady, SavedIsOriginal, UnsavedIsOriginal, Saved, SetSteps, Backup, Call
<1> QED
  BY <1>1, <1>2, <1>3, <1>4, <1>5

LEMMA DieIInv ==
    ASSUME IInv, NEW c \in Callers, Die(c) PROVE IInv'
<1> USE DEF IInv, Die, Idle, Running
<1>1. TypeOK'
  BY DEF TypeOK, Call, Backup, SetSteps, RestoreSteps, CallReady, Saved
<1>2. OneCall'
  BY DEF TypeOK, OneCall, Call
<1>3. \A d \in Callers : CallReady(d)'
  BY ConstantsAssumption DEF TypeOK, OneCall, CallReady, Call, Saved, SetSteps, Backup
<1>4. SavedIsOriginal'
  BY ConstantsAssumption DEF TypeOK, CallReady, SavedIsOriginal, UnsavedIsOriginal, Saved, SetSteps, Backup, Call
<1>5. UnsavedIsOriginal'
  BY ConstantsAssumption DEF TypeOK, CallReady, SavedIsOriginal, UnsavedIsOriginal, Saved, SetSteps, Backup, Call
<1> QED
  BY <1>1, <1>2, <1>3, <1>4, <1>5

LEMMA BeginSetIInv ==
    ASSUME IInv, Quiet, NEW c \in Callers, NEW a \in Adapters, NEW s \in Settings,
           backup \in Backup => Saved(a), BeginSet(c, a, s)
    PROVE  IInv'
<1> USE DEF IInv, Quiet, BeginSet, Idle, Running
<1>1. TypeOK'
  BY DEF TypeOK, Call, Backup, SetSteps, RestoreSteps, CallReady, Saved
<1>2. OneCall'
  BY DEF TypeOK, OneCall, Call
<1>3. \A d \in Callers : CallReady(d)'
  BY ConstantsAssumption DEF TypeOK, OneCall, CallReady, Call, Saved, SetSteps, Backup
<1>4. SavedIsOriginal'
  BY ConstantsAssumption DEF TypeOK, CallReady, SavedIsOriginal, UnsavedIsOriginal, Saved, SetSteps, Backup, Call
<1>5. UnsavedIsOriginal'
  BY ConstantsAssumption DEF TypeOK, CallReady, SavedIsOriginal, UnsavedIsOriginal, Saved, SetSteps, Backup, Call
<1> QED
  BY <1>1, <1>2, <1>3, <1>4, <1>5

LEMMA BeginRestoreIInv ==
    ASSUME IInv, Quiet, NEW c \in Callers, NEW a \in Adapters \cup {None}, BeginRestore(c, a)
    PROVE  IInv'
<1> USE DEF IInv, Quiet, BeginRestore, Idle, Running
<1>1. TypeOK'
  BY DEF TypeOK, Call, Backup, SetSteps, RestoreSteps, CallReady, Saved
<1>2. OneCall'
  BY DEF TypeOK, OneCall, Call
<1>3. \A d \in Callers : CallReady(d)'
  BY ConstantsAssumption DEF TypeOK, OneCall, CallReady, Call, Saved, SetSteps, Backup
<1>4. SavedIsOriginal'
  BY ConstantsAssumption DEF TypeOK, CallReady, SavedIsOriginal, UnsavedIsOriginal, Saved, SetSteps, Backup, Call
<1>5. UnsavedIsOriginal'
  BY ConstantsAssumption DEF TypeOK, CallReady, SavedIsOriginal, UnsavedIsOriginal, Saved, SetSteps, Backup, Call
<1> QED
  BY <1>1, <1>2, <1>3, <1>4, <1>5

LEMMA UserEditsIInv ==
    ASSUME IInv, Quiet, NEW a \in Adapters, NEW s \in Settings, ~Saved(a), UserEdits(a, s)
    PROVE  IInv'
<1> USE DEF IInv, Quiet, UserEdits, Idle, Running
<1>1. TypeOK'
  BY DEF TypeOK, Call, Backup, SetSteps, RestoreSteps, CallReady, Saved
<1>2. OneCall'
  BY DEF TypeOK, OneCall, Call
<1>3. \A d \in Callers : CallReady(d)'
  BY ConstantsAssumption DEF TypeOK, OneCall, CallReady, Call, Saved, SetSteps, Backup
<1>4. SavedIsOriginal'
  BY ConstantsAssumption DEF TypeOK, CallReady, SavedIsOriginal, UnsavedIsOriginal, Saved, SetSteps, Backup, Call
<1>5. UnsavedIsOriginal'
  BY ConstantsAssumption DEF TypeOK, CallReady, SavedIsOriginal, UnsavedIsOriginal, Saved, SetSteps, Backup, Call
<1> QED
  BY <1>1, <1>2, <1>3, <1>4, <1>5

LEMMA StutterIInv == IInv /\ UNCHANGED vars => IInv'
BY DEF IInv, vars, TypeOK, OneCall, CallReady, SavedIsOriginal, UnsavedIsOriginal,
       Running, Saved

LEMMA NextIInv == IInv /\ [Next]_vars => IInv'
<1> SUFFICES ASSUME IInv, [Next]_vars PROVE IInv'
  OBVIOUS
<1>1. ASSUME NEW c \in Callers, Step(c) \/ Die(c) PROVE IInv'
  BY <1>1, SaveBackupIInv, ReadCurrentStateIInv, WriteBackupIInv, SetServersIInv,
     CheckPendingIInv, ResetServersIInv, DropBackupIInv, DieIInv DEF Step
<1>2. ASSUME Quiet, NEW c \in Callers, NEW a \in Adapters, NEW s \in Settings,
             backup \in Backup => Saved(a), BeginSet(c, a, s)
      PROVE  IInv'
  BY <1>2, BeginSetIInv
<1>3. ASSUME Quiet, NEW c \in Callers, NEW a \in Adapters \cup {None}, BeginRestore(c, a)
      PROVE  IInv'
  BY <1>3, BeginRestoreIInv
<1>4. ASSUME Quiet, NEW a \in Adapters, NEW s \in Settings, ~Saved(a), UserEdits(a, s)
      PROVE  IInv'
  BY <1>4, UserEditsIInv
<1>5. CASE UNCHANGED vars
  BY <1>5, StutterIInv
<1> QED
  BY <1>1, <1>2, <1>3, <1>4, <1>5 DEF Next

\* The inductive invariant holds in every reachable state.
THEOREM Invariance == Spec => []IInv
BY InitIInv, NextIInv, PTL DEF Spec

-------------------------------------------------------------------------------
(***************************************************************************)
(* The properties                                                          *)
(***************************************************************************)
\* The state of the service - Windows' settings, the backup file, the calls -
\* stays within its types.
THEOREM TypeCorrect == Spec => []TypeOK
BY Invariance, PTL DEF IInv

\* What the user configured is in effect or in the backup file, at every step
\* of every call and whoever dies (dns_service.py:1, "exact restoration").
THEOREM Recoverable == Spec => []OriginalRecoverable
<1>1. IInv => OriginalRecoverable
  BY DEF IInv, OriginalRecoverable, SavedIsOriginal, UnsavedIsOriginal, Saved, TypeOK
<1> QED
  BY <1>1, Invariance, PTL

\* restore_original_dns answers True only when every adapter is as its user
\* configured it.
THEOREM ExactRestore == Spec => RestoreIsExact
<1>1. ASSUME IInv, Next PROVE AnswersTruly
  <2> SUFFICES ASSUME NEW c \in Callers, call[c].pc \in RestoreSteps,
                      result[c] # "ok", result'[c] = "ok"
               PROVE  dns' = original'
    BY DEF AnswersTruly
  <2>1. ~Quiet
    BY DEF Quiet, Running, RestoreSteps
  <2>2. PICK d \in Callers : Step(d) \/ Die(d)
    BY <1>1, <2>1 DEF Next
  <2>3. d = c /\ ~Die(d)
    BY <1>1, <2>2 DEF IInv, TypeOK, OneCall, Running, RestoreSteps, Step, Die, SaveBackup,
       ReadCurrentState, WriteBackup, SetServers, CheckPending, ResetServers, DropBackup
  <2>4. (CheckPending(c) /\ backup = NoFile) \/ (DropBackup(c) /\ backup' = NoFile)
    BY <1>1, <2>2, <2>3 DEF IInv, TypeOK, RestoreSteps, Step, SaveBackup, ReadCurrentState,
       WriteBackup, SetServers, CheckPending, ResetServers, DropBackup, Return, Goto
  <2>5. IInv' /\ backup' = NoFile
    BY <1>1, <2>2, <2>4, NextIInv DEF CheckPending, Next
  <2>6. \A a \in Adapters : dns'[a] = original'[a]
    BY <2>5, ConstantsAssumption DEF IInv, UnsavedIsOriginal, Saved
  <2> QED
    BY <2>5, <2>6 DEF IInv, TypeOK
<1>2. IInv /\ [Next]_vars => [AnswersTruly]_vars
  BY <1>1
<1> QED
  BY <1>2, Invariance, PTL DEF Spec, RestoreIsExact

-------------------------------------------------------------------------------
(***************************************************************************)
(* DnsService implements DnsPromise                                        *)
(***************************************************************************)
LEMMA RememberedIsOriginal == IInv => Remembered = original
BY DEF IInv, TypeOK, Remembered, SavedIsOriginal, UnsavedIsOriginal, Saved

LEMMA PromiseInit == Init => Promise!Init
BY ConstantsAssumption DEF Init, Promise!Init, Remembered, Saved

\* A step of the service changes Windows' setting of one adapter and keeps what
\* is remembered, or is the user's edit of an adapter that is not saved.
LEMMA PromiseStep ==
    ASSUME IInv, [Next]_vars, IInv' PROVE [Promise!Next]_(Promise!vars)
<1>1. Remembered = original /\ Remembered' = original'
  <2>1. IInv' => (Remembered = original)'
    BY DEF IInv, TypeOK, Remembered, SavedIsOriginal, UnsavedIsOriginal, Saved
  <2> QED
    BY <2>1, RememberedIsOriginal
<1>2. ASSUME NEW c \in Callers, Step(c) \/ Die(c)
      PROVE  [Promise!Next]_(Promise!vars)
  <2>1. original' = original
    BY <1>2 DEF Step, Die, SaveBackup, ReadCurrentState, WriteBackup, SetServers,
       CheckPending, ResetServers, DropBackup
  <2>2. CASE dns' = dns
    BY <1>1, <2>1, <2>2 DEF Promise!vars
  <2>3. CASE SetServers(c) \/ ResetServers(c)
    <3>1. call[c].adapter \in Adapters /\ call[c].setting \in Settings
      BY <2>3 DEF IInv, CallReady, SetServers, ResetServers, SetSteps
    <3>2. dns' = dns \/ Promise!Change(call[c].adapter, call[c].setting)
      BY <1>1, <2>1, <2>3 DEF SetServers, ResetServers, Promise!Change
    <3> QED
      BY <2>2, <3>1, <3>2 DEF Promise!Next
  <2> QED
    BY <1>2, <2>2, <2>3 DEF Step, Die, SaveBackup, ReadCurrentState, WriteBackup,
       CheckPending, DropBackup
<1>3. ASSUME UNCHANGED <<dns, original>> PROVE [Promise!Next]_(Promise!vars)
  BY <1>1, <1>3 DEF Promise!vars
<1>4. ASSUME NEW a \in Adapters, NEW s \in Settings, ~Saved(a), UserEdits(a, s)
      PROVE  [Promise!Next]_(Promise!vars)
  <2>1. dns[a] = Remembered[a]
    BY <1>4 DEF Remembered
  <2>2. Promise!UserEdit(a, s)
    BY <1>1, <1>4, <2>1 DEF UserEdits, Promise!UserEdit
  <2> QED
    BY <2>2 DEF Promise!Next
<1> QED
  BY <1>2, <1>3, <1>4 DEF Next, vars, BeginSet, BeginRestore

\* The service implements its promise for any number of callers, adapters and
\* settings: what it remembers of a user's configuration never changes.
THEOREM ServiceKeepsPromise == Spec => ExactRestoration
<1>1. IInv /\ IInv' /\ [Next]_vars => [Promise!Next]_(Promise!vars)
  BY PromiseStep
<1> QED
  BY <1>1, PromiseInit, Invariance, PTL DEF Spec, ExactRestoration, Promise!Spec

===============================================================================
