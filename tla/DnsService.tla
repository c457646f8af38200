------------------------------ MODULE DnsService ------------------------------
(***************************************************************************)
(* app/services/dns_service.py: changing the DNS servers of a Windows      *)
(* adapter and putting back what the user had.  Callers (worker threads of *)
(* the view-model, or elevated helper processes) execute the two direct    *)
(* operations; every statement that reads or writes something shared -     *)
(* Windows' setting, the backup file - is a step of its own, so callers    *)
(* interleave and may die between any two steps.                           *)
(*                                                                         *)
(* Abstracted: the legacy JSON file _read_backup migrates (same content),  *)
(* the temporary file of an atomic replace, the DoH rule and the resolver  *)
(* cache (they can only make a call fail), and the journal rows (written   *)
(* last, by a function that never changes the outcome).                    *)
(***************************************************************************)
CONSTANTS
    Callers,      \* who executes calls of the service
    Adapters,     \* network adapters
    Settings,     \* DNS settings of an adapter ("automatic" is one of them)
    NoFile,       \* there is no backup file
    Damaged,      \* there is one that cannot be decrypted or parsed
    None          \* Python's None: no adapter given, nothing read yet

Backup == [adapter : Adapters, setting : Settings]

ASSUME ConstantsAssumption ==
    /\ NoFile # Damaged
    /\ NoFile \notin Backup
    /\ Damaged \notin Backup
    /\ None \notin Adapters \cup Settings

VARIABLES
    dns,        \* the setting Windows has in effect, per adapter
    backup,     \* dns_backup.dpapi
    call,       \* the call each caller is executing
    result,     \* what its last call returned
    original    \* history: what the user configured, per adapter

vars == <<dns, backup, call, result, original>>

SetSteps     == {"save", "snapshot", "write", "set"}
RestoreSteps == {"check", "reset", "drop"}

\* The local variables of a call: its step, its adapter, the setting it will
\* give the adapter and the state it has read of it.
Call == [pc      : {"idle"} \cup SetSteps \cup RestoreSteps,
         adapter : Adapters \cup {None},
         setting : Settings \cup {None},
         state   : Settings \cup {None}]

Idle == [pc |-> "idle", adapter |-> None, setting |-> None, state |-> None]

\* The type invariant.
TypeOK ==
    /\ dns \in [Adapters -> Settings]
    /\ backup \in Backup \cup {NoFile, Damaged}
    /\ call \in [Callers -> Call]
    /\ result \in [Callers -> {"none", "ok", "failed"}]
    /\ original \in [Adapters -> Settings]

Running(c) == call[c].pc # "idle"

\* The backup file can be read and is about adapter a.
Saved(a) == backup \in Backup /\ backup.adapter = a

Init ==
    /\ dns \in [Adapters -> Settings]
    /\ original = dns
    /\ backup \in {NoFile, Damaged}
    /\ call = [c \in Callers |-> Idle]
    /\ result = [c \in Callers |-> "none"]

Goto(c, step) == call' = [call EXCEPT ![c].pc = step]

Return(c, answer) ==
    /\ call' = [call EXCEPT ![c] = Idle]
    /\ result' = [result EXCEPT ![c] = answer]

-------------------------------------------------------------------------------
(***************************************************************************)
(* _set_dns_direct(adapter, servers)                                       *)
(***************************************************************************)
BeginSet(c, a, s) ==
    /\ ~Running(c)
    /\ call' = [call EXCEPT ![c] = [Idle EXCEPT !.pc = "save", !.adapter = a,
                                                !.setting = s]]
    /\ result' = [result EXCEPT ![c] = "none"]
    /\ UNCHANGED <<dns, backup, original>>

\* Mutant: the backup is taken before every change, not once.
SaveBackupAlways(c) ==
    /\ call[c].pc = "save"
    /\ Goto(c, "snapshot")
    /\ UNCHANGED <<dns, backup, result, original>>

\* _save_backup_once keeps a backup of the same adapter and replaces any other.
SaveBackup(c) ==
    /\ call[c].pc = "save"
    /\ Goto(c, IF Saved(call[c].adapter) THEN "set" ELSE "snapshot")
    /\ UNCHANGED <<dns, backup, result, original>>

\* Mutant: the state to be saved is never read.
ReadNothing(c) ==
    /\ call[c].pc = "snapshot"
    /\ Goto(c, "write")
    /\ UNCHANGED <<dns, backup, result, original>>

\* _read_current_state: PowerShell reports the adapter, or the call fails.
ReadCurrentState(c) ==
    /\ call[c].pc = "snapshot"
    /\ \/ /\ call' = [call EXCEPT ![c].pc = "write",
                                  ![c].state = dns[call[c].adapter]]
          /\ UNCHANGED result
       \/ Return(c, "failed")
    /\ UNCHANGED <<dns, backup, original>>

\* _write_backup replaces the file, or fails and leaves it alone.
WriteBackup(c) ==
    /\ call[c].pc = "write"
    /\ \/ /\ backup' = [adapter |-> call[c].adapter, setting |-> call[c].state]
          /\ Goto(c, "set")
          /\ UNCHANGED result
       \/ /\ Return(c, "failed")
          /\ UNCHANGED backup
    /\ UNCHANGED <<dns, original>>

\* Set-DnsClientServerAddress, then ipconfig /flushdns.  Windows rejects the
\* change; or accepts it and the call returns True; or accepts it and the call
\* still returns False, PowerShell or ipconfig having exceeded its timeout.
SetServers(c) ==
    /\ call[c].pc = "set"
    /\ \/ /\ dns' = [dns EXCEPT ![call[c].adapter] = call[c].setting]
          /\ \E answer \in {"ok", "failed"} : Return(c, answer)
       \/ /\ Return(c, "failed")
          /\ UNCHANGED dns
    /\ UNCHANGED <<backup, original>>

-------------------------------------------------------------------------------
(***************************************************************************)
(* _restore_original_dns_direct(adapter), adapter possibly None            *)
(***************************************************************************)
BeginRestore(c, a) ==
    /\ ~Running(c)
    /\ call' = [call EXCEPT ![c] = [Idle EXCEPT !.pc = "check", !.adapter = a]]
    /\ result' = [result EXCEPT ![c] = "none"]
    /\ UNCHANGED <<dns, backup, original>>

\* Mutant: a backup of another adapter is no business of this call's adapter.
CheckPendingOfThis(c) ==
    /\ call[c].pc = "check"
    /\ \/ backup = NoFile /\ Return(c, "ok")
       \/ backup = Damaged /\ Return(c, "failed")
       \/ /\ backup \in Backup
          /\ call[c].adapter \notin {None, backup.adapter}
          /\ Return(c, "ok")
       \/ /\ backup \in Backup
          /\ call[c].adapter \in {None, backup.adapter}
          /\ call' = [call EXCEPT ![c].pc = "reset",
                                  ![c].adapter = backup.adapter,
                                  ![c].setting = backup.setting]
          /\ UNCHANGED result
    /\ UNCHANGED <<dns, backup, original>>

\* Mutant: the error of an unreadable backup is retried, not returned.
CheckPendingRetries(c) ==
    /\ backup # Damaged
    /\ CheckPendingOfThis(c)

\* Nothing pending is a success; an unreadable backup and one of another
\* adapter are failures that change nothing.
CheckPending(c) ==
    /\ call[c].pc = "check"
    /\ \/ backup = NoFile /\ Return(c, "ok")
       \/ backup = Damaged /\ Return(c, "failed")
       \/ /\ backup \in Backup
          /\ call[c].adapter \notin {None, backup.adapter}
          /\ Return(c, "failed")
       \/ /\ backup \in Backup
          /\ call[c].adapter \in {None, backup.adapter}
          /\ call' = [call EXCEPT ![c].pc = "reset",
                                  ![c].adapter = backup.adapter,
                                  ![c].setting = backup.setting]
          /\ UNCHANGED result
    /\ UNCHANGED <<dns, backup, original>>

\* Mutant: the return code of PowerShell is not looked at.
ResetServersUnchecked(c) ==
    /\ call[c].pc = "reset"
    /\ \/ dns' = [dns EXCEPT ![call[c].adapter] = call[c].setting]
       \/ UNCHANGED dns
    /\ Goto(c, "drop")
    /\ UNCHANGED <<backup, result, original>>

\* Set-DnsClientServerAddress with the saved servers, or -ResetServerAddresses,
\* then ipconfig /flushdns; the same three outcomes as SetServers.
ResetServers(c) ==
    /\ call[c].pc = "reset"
    /\ \/ /\ dns' = [dns EXCEPT ![call[c].adapter] = call[c].setting]
          /\ \/ Goto(c, "drop") /\ UNCHANGED result
             \/ Return(c, "failed")
       \/ /\ Return(c, "failed")
          /\ UNCHANGED dns
    /\ UNCHANGED <<backup, original>>

\* path.unlink(missing_ok=True), or an OSError: the backup stays.
DropBackup(c) ==
    /\ call[c].pc = "drop"
    /\ \/ backup' = NoFile /\ Return(c, "ok")
       \/ Return(c, "failed") /\ UNCHANGED backup
    /\ UNCHANGED <<dns, original>>

-------------------------------------------------------------------------------
(***************************************************************************)
(* The specification                                                       *)
(***************************************************************************)
Step(c) ==
    \/ SaveBackup(c) \/ ReadCurrentState(c) \/ WriteBackup(c) \/ SetServers(c)
    \/ CheckPending(c) \/ ResetServers(c) \/ DropBackup(c)

\* The process or thread that executes the call is killed: files and Windows'
\* settings stay as they are.
Die(c) ==
    /\ Running(c)
    /\ call' = [call EXCEPT ![c] = Idle]
    /\ UNCHANGED <<dns, backup, result, original>>

\* The user configures an adapter outside the program.
UserEdits(a, s) ==
    /\ dns' = [dns EXCEPT ![a] = s]
    /\ original' = [original EXCEPT ![a] = s]
    /\ UNCHANGED <<backup, call, result>>

\* The contract of the service with its callers and the user, which nothing in
\* dns_service.py enforces: one call at a time; no adapter is changed while
\* another one awaits its restoration; and the user leaves alone the adapter
\* the program is changing or has changed.  DnsSession is about the callers.
Quiet == \A c \in Callers : ~Running(c)

Next ==
    \/ /\ Quiet
       /\ \/ \E c \in Callers, a \in Adapters, s \in Settings :
                /\ backup \in Backup => Saved(a)
                /\ BeginSet(c, a, s)
          \/ \E c \in Callers, a \in Adapters \cup {None} : BeginRestore(c, a)
          \/ \E a \in Adapters, s \in Settings : ~Saved(a) /\ UserEdits(a, s)
    \/ \E c \in Callers : Step(c) \/ Die(c)

Fairness == \A c \in Callers : WF_vars(Step(c))

Spec == Init /\ [][Next]_vars

\* PowerShell and ipconfig run under timeouts of 15 and 20 seconds, so every
\* step of a call ends: weak fairness of the caller's next step.
FairSpec == Spec /\ Fairness

-------------------------------------------------------------------------------
(***************************************************************************)
(* Properties                                                              *)
(***************************************************************************)
\* What the user configured on an adapter is in effect there or is in the
\* backup file - at every moment, whoever died between two steps of a call.
OriginalRecoverable ==
    \A a \in Adapters :
        dns[a] = original[a] \/ (Saved(a) /\ backup.setting = original[a])

\* The step that ends a restoration with the answer True.
AnswersTruly ==
    \A c \in Callers :
        call[c].pc \in RestoreSteps /\ result[c] # "ok" /\ result'[c] = "ok"
            => dns' = original'

\* A restoration that reports success (whether or not one was pending) leaves
\* every adapter exactly as its user configured it.
RestoreIsExact == [][AnswersTruly]_vars

\* The setting a restoration of the adapter would put back.
Remembered ==
    [a \in Adapters |-> IF Saved(a) THEN backup.setting ELSE dns[a]]

Promise == INSTANCE DnsPromise
           WITH inEffect <- dns, remembered <- Remembered

\* The service implements its promise: no step of a call, no failure and no
\* death changes what the program remembers of the user's configuration.
ExactRestoration == Promise!Spec

\* Every call returns: no outcome of PowerShell or of the disk leaves a caller
\* (the view-model's worker, and with it the busy flag) waiting for ever.
CallsReturn == \A c \in Callers : Running(c) ~> ~Running(c)
===============================================================================
