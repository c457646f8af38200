----------------------------- MODULE DesktopProofs -----------------------------
(***************************************************************************)
(* Proofs about the parts of Desktop that are small.  Each has an          *)
(* inductive invariant, stated at the end of its own module; v1, v2, ...   *)
(* are the variables of that module, in the order in which Desktop's       *)
(* INSTANCE gives them.                                                    *)
(***************************************************************************)
EXTENDS Desktop, Integers, SequenceTheorems, FiniteSetTheorems, TLAPS

-------------------------------------------------------------------------------
(***************************************************************************)
(* A behaviour is one of a single part                                     *)
(***************************************************************************)
LEMMA PartSteps ==
  ASSUME [Next]_vars
  PROVE  /\ part' = part
         /\ part = "budget" => Budget!BudgetNext \/ UNCHANGED Budget!budgetVars
         /\ part = "gate" => Gate!GateNext \/ UNCHANGED Gate!gateVars
         /\ part = "consent" => Lookup!ConsentNext \/ UNCHANGED Lookup!consentVars
         /\ part = "files" => Store!FilesNext \/ UNCHANGED Store!fileVars
         /\ part = "ranking" => Rank!RankNext \/ UNCHANGED Rank!rankVars
         /\ part = "memory" => Memory!MemoryNext \/ UNCHANGED Memory!memoryVars
         /\ part = "blackbox" => Box!BoxNext \/ UNCHANGED Box!boxVars
         /\ part = "tariff" => Traffic!TariffNext \/ UNCHANGED Traffic!tariffVars
         /\ part = "learning" => Learning!LearnNext \/ UNCHANGED Learning!learnVars
         /\ part = "journal" => Recovery!JournalNext \/ UNCHANGED Recovery!journalVars
         /\ part = "journey" => Flow!JourneyNext \/ UNCHANGED Flow!journeyVars
         /\ part = "monitors" => Watch!MonitorNext \/ UNCHANGED Watch!monitorVars
BY DEF Next, vars, GameStep, WarpStep, UpdateStep, RecoveryStep, BudgetStep,
   MemoryStep, TrafficStep, LearningStep, GateStep, BoxStep, LookupStep,
   StoreStep, FlowStep, WatchStep, RankStep, Budget!budgetVars, Gate!gateVars,
   Lookup!consentVars, Store!fileVars, Rank!rankVars, Memory!memoryVars,
   Box!boxVars, Traffic!tariffVars, Learning!learnVars, Recovery!journalVars,
   Flow!journeyVars, Watch!monitorVars

-------------------------------------------------------------------------------
(***************************************************************************)
(* ProbeBudget: v1 to v6 are budget, draft, prober, granted, today and     *)
(* unequal                                                                 *)
(***************************************************************************)
Prober == [pc : {"none", "write", "replace", "unlink"},
           day : {0, 1}, used : Nat, reserved : Nat]

LEMMA ReserveInv ==
  ASSUME Budget!BudgetInv, NEW p \in Probers, NEW requested \in Requests,
         NEW readable \in BOOLEAN, Budget!Reserve(p, requested, readable)
  PROVE  Budget!BudgetInv'
<1> USE BudgetAssumption DEF Budget!BudgetInv, Budget!BudgetTypeOK
<1> DEFINE used == IF readable /\ v1 # NoBudget /\ v1.day = v5 THEN v1.used ELSE 0
           reserved == IF used + requested <= Allowance THEN requested
                       ELSE Budget!Least(Budget!Light, Budget!Rest(used))
           e == [pc |-> "write", day |-> v5, used |-> used, reserved |-> reserved]
<1>1. /\ v3' = [v3 EXCEPT ![p] = e]
      /\ v3[p].pc = "none"
      /\ v6' = v6 \cup (IF Budget!Working # {} THEN {"overlap"} ELSE {})
                  \cup (IF readable \/ v1 = NoBudget THEN {} ELSE {"unreadable"})
      /\ UNCHANGED <<v1, v2, v4, v5>>
  BY DEF Budget!Reserve
<1>2. used \in Nat /\ requested \in Nat
  BY DEF Budget!Entry
<1>3. reserved \in Nat /\ (used <= Allowance => used + reserved <= Allowance)
  BY <1>2 DEF Budget!Least, Budget!Light, Budget!Rest
<1> HIDE DEF used, reserved
<1>4. e \in Prober /\ e.pc = "write" /\ e.day = v5 /\ e.used = used
      /\ e.reserved = reserved
  BY <1>2, <1>3 DEF Prober
<1> HIDE DEF e
<1>5. \A q \in Probers : v3'[q] = IF q = p THEN e ELSE v3[q]
  BY <1>1
<1>6. Budget!BudgetTypeOK'
  BY <1>1, <1>4 DEF Prober
<1>7. ASSUME v6' = {} PROVE Budget!OneReserves'
  <2>1. v6 = {} /\ Budget!Working = {} /\ (readable \/ v1 = NoBudget)
    BY <1>1, <1>7
  <2>2. used = v4
    BY <2>1 DEF Budget!OneReserves, used
  <2>3. \A q \in Probers : v3[q].pc = "none"
    BY <2>1 DEF Budget!Working
  <2> QED
    BY <1>1, <1>3, <1>4, <1>5, <2>1, <2>2, <2>3 DEF Budget!OneReserves, Budget!Working
<1> QED
  BY <1>6, <1>7 DEF Budget!OneReserves

LEMMA ProberStepInv ==
  ASSUME Budget!BudgetInv, NEW p \in Probers,
         Budget!WriteDraft(p) \/ Budget!Rename(p) \/ Budget!Unlink(p)
  PROVE  Budget!BudgetInv'
<1> USE BudgetAssumption DEF Budget!BudgetInv, Budget!BudgetTypeOK
<1>1. v3[p] \in Prober
  BY DEF Prober
<1>2. CASE Budget!WriteDraft(p)
  <2> DEFINE e == [v3[p] EXCEPT !.pc = "replace"]
             d == [day |-> v3[p].day, used |-> v3[p].used + v3[p].reserved]
  <2>1. v3' = [v3 EXCEPT ![p] = e] /\ v2' = d
    BY <1>2 DEF Budget!WriteDraft
  <2>2. /\ e \in Prober /\ e.pc = "replace" /\ e.day = v3[p].day
        /\ e.used = v3[p].used /\ e.reserved = v3[p].reserved
        /\ d \in Budget!Entry
    BY <1>1 DEF Prober, Budget!Entry
  <2>3. v2' = [day |-> e.day, used |-> e.used + e.reserved]
    BY <2>1, <2>2
  <2> HIDE DEF e, d
  <2>4. \A q \in Probers : v3'[q] = IF q = p THEN e ELSE v3[q]
    BY <2>1
  <2>5. Budget!BudgetTypeOK'
    BY <1>2, <2>1, <2>2 DEF Budget!WriteDraft, Prober
  <2>6. Budget!OneReserves'
    BY <1>2, <2>2, <2>3, <2>4 DEF Budget!WriteDraft, Budget!OneReserves, Budget!Working
  <2> QED
    BY <2>5, <2>6
<1>3. CASE Budget!Rename(p)
  <2> DEFINE e == [v3[p] EXCEPT !.pc = "unlink"]
  <2>1. v3' = [v3 EXCEPT ![p] = e]
    BY <1>3 DEF Budget!Rename
  <2>2. e \in Prober /\ e.pc = "unlink" /\ v3[p].reserved \in Nat
    BY <1>1 DEF Prober
  <2> HIDE DEF e
  <2>3. \A q \in Probers : v3'[q] = IF q = p THEN e ELSE v3[q]
    BY <2>1
  <2>4. Budget!BudgetTypeOK'
    BY <1>3, <2>1, <2>2 DEF Budget!Rename, Prober
  <2>5. ASSUME v6 = {} PROVE Budget!OneReserves'
    <3>1. \A q \in Probers : q # p => v3[q].pc = "none"
      BY <1>3, <2>5 DEF Budget!OneReserves, Budget!Rename, Budget!Working
    <3>2. \A q \in Probers : v3'[q].pc \in {"none", "unlink"}
      BY <2>2, <2>3, <3>1
    <3>3. /\ v1' # NoBudget /\ v1'.day = v5' /\ v1'.used = v4'
          /\ v4' <= Allowance
      BY <1>1, <1>3, <2>5 DEF Budget!OneReserves, Budget!Rename, Budget!Entry, Prober
    <3> QED
      BY <1>3, <2>2, <2>3, <3>1, <3>2, <3>3 DEF Budget!OneReserves, Budget!Working
  <2> QED
    BY <1>3, <2>4, <2>5 DEF Budget!Rename, Budget!OneReserves
<1>4. CASE Budget!Unlink(p)
  <2>1. Budget!Waiting \in Prober /\ Budget!Waiting.pc = "none"
    BY DEF Budget!Waiting, Prober
  <2>2. v3' = [v3 EXCEPT ![p] = Budget!Waiting]
    BY <1>4 DEF Budget!Unlink
  <2>3. \A q \in Probers : v3'[q] = IF q = p THEN Budget!Waiting ELSE v3[q]
    BY <2>2
  <2>4. Budget!BudgetTypeOK'
    BY <1>4, <2>1, <2>2 DEF Budget!Unlink, Prober
  <2>5. Budget!OneReserves'
    BY <1>4, <2>1, <2>3 DEF Budget!Unlink, Budget!OneReserves, Budget!Working
  <2> QED
    BY <2>4, <2>5
<1> QED
  BY <1>2, <1>3, <1>4

LEMMA DayInv ==
  ASSUME Budget!BudgetInv, Budget!BudgetCrash \/ Budget!Midnight
  PROVE  Budget!BudgetInv'
<1> USE BudgetAssumption DEF Budget!BudgetInv, Budget!BudgetTypeOK
<1>1. CASE Budget!BudgetCrash
  <2>1. Budget!Waiting \in Prober /\ Budget!Waiting.pc = "none"
    BY DEF Budget!Waiting, Prober
  <2>2. \A q \in Probers : v3'[q] = Budget!Waiting
    BY <1>1 DEF Budget!BudgetCrash
  <2>3. Budget!BudgetTypeOK'
    BY <1>1, <2>1 DEF Budget!BudgetCrash, Prober
  <2>4. Budget!OneReserves'
    BY <1>1, <2>1, <2>2 DEF Budget!BudgetCrash, Budget!OneReserves, Budget!Working
  <2> QED
    BY <2>3, <2>4
<1>2. CASE Budget!Midnight
  <2>1. Budget!BudgetTypeOK'
    BY <1>2 DEF Budget!Midnight
  <2>2. ASSUME v6' = {} PROVE \A q \in Probers : v3'[q].pc = "none"
    BY <1>2, <2>2 DEF Budget!Midnight, Budget!Working
  <2>3. Budget!OneReserves'
    BY <1>2, <2>2 DEF Budget!Midnight, Budget!OneReserves, Budget!Working, Budget!Entry
  <2> QED
    BY <2>1, <2>3
<1> QED
  BY <1>1, <1>2

LEMMA BudgetInvariance == Spec => [](part = "budget" => Budget!BudgetInv)
<1>1. Init => (part = "budget" => Budget!BudgetInv)
  <2> SUFFICES ASSUME Init, part = "budget" PROVE Budget!BudgetInv
    OBVIOUS
  <2>1. Budget!BudgetInit
    BY DEF Init
  <2>2. Budget!Waiting \in Prober /\ Budget!Waiting.pc = "none"
    BY DEF Budget!Waiting, Prober
  <2> QED
    BY <2>1, <2>2, BudgetAssumption DEF Budget!BudgetInit, Budget!BudgetInv,
       Budget!BudgetTypeOK, Budget!OneReserves, Budget!Working, Prober
<1>2. (part = "budget" => Budget!BudgetInv) /\ [Next]_vars
         => (part = "budget" => Budget!BudgetInv)'
  <2> SUFFICES ASSUME part = "budget", Budget!BudgetInv,
                      Budget!BudgetNext \/ UNCHANGED Budget!budgetVars
               PROVE  Budget!BudgetInv'
    BY PartSteps
  <2>1. CASE UNCHANGED Budget!budgetVars
    BY <2>1 DEF Budget!budgetVars, Budget!BudgetInv, Budget!BudgetTypeOK,
       Budget!OneReserves, Budget!Working
  <2> QED
    BY <2>1, ReserveInv, ProberStepInv, DayInv DEF Budget!BudgetNext
<1> QED
  BY <1>1, <1>2, PTL DEF Spec

(***************************************************************************)
(* Two probers that run at once, or a crash between the reservation and    *)
(* the file, never exceed the allowance of a day, and what the file counts *)
(* is what was granted (route_dna_service.py:470-522): while a reservation *)
(* is being written, what its prober read is still so and leaves it room.  *)
(***************************************************************************)
THEOREM AllowanceKept == Spec => []BudgetHolds
<1>1. (part = "budget" => Budget!BudgetInv) => BudgetHolds
  BY DEF BudgetHolds, Budget!BudgetHolds, Budget!BudgetInv, Budget!OneReserves
<1> QED
  BY <1>1, BudgetInvariance, PTL

-------------------------------------------------------------------------------
(***************************************************************************)
(* SafetyGate: v1 to v4 are link, baseline, probe and undone               *)
(***************************************************************************)
LEMMA GateIdle ==
  /\ Gate!Idle \in Gate!Probing
  /\ Gate!Idle.pc = "none" /\ Gate!Idle.worse = FALSE /\ Gate!Idle.base = NoBaseline
  /\ Gate!Idle.moved = FALSE
BY DEF Gate!Idle, Gate!Probing, Gate!Links

\* A step that changes one probe, and may store a baseline.
LEMMA ProbeChanges ==
  ASSUME Gate!GateInv, NEW p \in Probes, NEW q \in Gate!Probing,
         v3' = [v3 EXCEPT ![p] = q], Gate!ProbeFine(q),
         q.worse => q.phase = "current" /\ q.base # NoBaseline,
         v2' \in Gate!Baselines \cup {NoBaseline}, Gate!BaseFine(v2'),
         UNCHANGED v1, Gate!RollbackIsJustified'
  PROVE  Gate!GateInv'
<1>1. v3' \in [Probes -> Gate!Probing]
  BY DEF Gate!GateInv, Gate!GateTypeOK
<1>2. \A o \in Probes : v3'[o] = IF o = p THEN q ELSE v3[o]
  BY DEF Gate!GateInv, Gate!GateTypeOK
<1> QED
  BY <1>1, <1>2 DEF Gate!GateInv, Gate!GateTypeOK, Gate!ProbeFine, Gate!BaseFine

LEMMA LinkChangesInv ==
  ASSUME Gate!GateInv, NEW to \in Gate!Links, Gate!LinkChanges(to)
  PROVE  Gate!GateInv'
<1> USE DEF Gate!GateInv, Gate!GateTypeOK
<1>1. v3' = [p \in Probes |-> [v3[p] EXCEPT !.moved = v3[p].pc # "none"]]
  BY DEF Gate!LinkChanges, Gate!Moved
<1>2. ASSUME NEW p \in Probes
      PROVE  /\ v3'[p] \in Gate!Probing
             /\ v3'[p].worse => v3'[p].phase = "current" /\ v3'[p].base # NoBaseline
             /\ Gate!ProbeFine(v3[p])'
  <2>1. /\ v3'[p] \in Gate!Probing
        /\ v3'[p].moved = (v3[p].pc # "none")
        /\ v3'[p].pc = v3[p].pc /\ v3'[p].worse = v3[p].worse
        /\ v3'[p].phase = v3[p].phase /\ v3'[p].base = v3[p].base
    BY <1>1 DEF Gate!Probing
  <2> QED
    BY <2>1 DEF Gate!ProbeFine, Gate!BaseFine
<1>3. v3' \in [Probes -> Gate!Probing]
  BY <1>1, <1>2
<1> QED
  BY <1>2, <1>3 DEF Gate!LinkChanges, Gate!RollbackIsJustified, Gate!BaseFine

LEMMA ClickInv ==
  ASSUME Gate!GateInv, NEW p \in Probes, NEW phase \in {"baseline", "current"},
         Gate!Click(p, phase)
  PROVE  Gate!GateInv'
<1> USE DEF Gate!GateInv, Gate!GateTypeOK
<1> DEFINE q == [Gate!Idle EXCEPT
                   !.pc = "probe", !.phase = phase,
                   !.label = IF phase = "baseline" THEN v1 ELSE @,
                   !.base = IF phase = "current" THEN v2 ELSE @]
<1>1. v3' = [v3 EXCEPT ![p] = q]
  BY DEF Gate!Click
<1>2. /\ q \in Gate!Probing
      /\ q.phase = phase
      /\ phase = "baseline" => q.label = v1
      /\ q.base = (IF phase = "current" THEN v2 ELSE NoBaseline)
      /\ q.worse = FALSE
  BY GateIdle DEF Gate!Probing
<1> HIDE DEF q
<1>3. Gate!ProbeFine(q)
  BY <1>2 DEF Gate!ProbeFine, Gate!BaseFine
<1>4. Gate!RollbackIsJustified' /\ UNCHANGED <<v1, v2>>
  BY DEF Gate!Click, Gate!RollbackIsJustified
<1> QED
  BY <1>1, <1>2, <1>3, <1>4, ProbeChanges

LEMMA FailedFine ==
  /\ [Gate!Idle EXCEPT !.pc = "report"] \in Gate!Probing
  /\ Gate!ProbeFine([Gate!Idle EXCEPT !.pc = "report"])
  /\ [Gate!Idle EXCEPT !.pc = "report"].worse = FALSE
BY GateIdle DEF Gate!Probing, Gate!ProbeFine, Gate!BaseFine

LEMMA CompareInv ==
  ASSUME Gate!GateInv, NEW p \in Probes, NEW slower \in BOOLEAN,
         Gate!Compare(p, slower)
  PROVE  Gate!GateInv'
<1> USE DEF Gate!GateInv, Gate!GateTypeOK
<1> DEFINE trusted == v1 # "app" /\ v3[p].base # NoBaseline /\ v3[p].base.label = "direct"
           q == [v3[p] EXCEPT !.pc = "report", !.on = Gate!Through, !.worse = TRUE]
<1>1. /\ Gate!RollbackIsJustified' /\ UNCHANGED <<v1, v2>>
      /\ v3[p].pc = "probe" /\ v3[p].phase = "current"
  BY DEF Gate!Compare, Gate!RollbackIsJustified
<1>2. CASE v3' = [v3 EXCEPT ![p] = q] /\ trusted
  <2>1. /\ q \in Gate!Probing
        /\ q.phase = "current" /\ q.pc = "report" /\ q.on = v1
        /\ q.base = v3[p].base
    BY <1>1, <1>2 DEF Gate!Probing, Gate!Through
  <2> HIDE DEF q
  <2>2. Gate!ProbeFine(q) /\ q.base # NoBaseline
    BY <1>2, <2>1 DEF Gate!ProbeFine, Gate!BaseFine
  <2> QED
    BY <1>1, <1>2, <2>1, <2>2, ProbeChanges
<1>3. CASE v3' = [v3 EXCEPT ![p] = [Gate!Idle EXCEPT !.pc = "report"]]
  BY <1>1, <1>3, FailedFine, ProbeChanges
<1>4. v3' = [v3 EXCEPT ![p] = IF slower /\ trusted THEN q
                              ELSE [Gate!Idle EXCEPT !.pc = "report"]]
  BY DEF Gate!Compare
<1> HIDE DEF q
<1> QED
  BY <1>2, <1>3, <1>4

LEMMA KeepBaselineInv ==
  ASSUME Gate!GateInv, NEW p \in Probes, Gate!KeepBaseline(p)
  PROVE  Gate!GateInv'
<1> USE DEF Gate!GateInv, Gate!GateTypeOK
<1> DEFINE b == [label |-> v3[p].label, on |-> Gate!Through, moved |-> v3[p].moved]
<1>1. v2' = b /\ UNCHANGED v1 /\ Gate!RollbackIsJustified'
  BY DEF Gate!KeepBaseline, Gate!RollbackIsJustified
<1>2. b \in Gate!Baselines
  BY DEF Gate!Baselines, Gate!Probing, Gate!Through, Gate!Links
<1>3. Gate!BaseFine(b)
  BY DEF Gate!BaseFine, Gate!KeepBaseline, Gate!ProbeFine, Gate!Through
<1> HIDE DEF b
<1>4. v3' = [v3 EXCEPT ![p] = [Gate!Idle EXCEPT !.pc = "report"]]
  BY DEF Gate!KeepBaseline
<1>5. v2' \in Gate!Baselines \cup {NoBaseline} /\ Gate!BaseFine(v2')
  BY <1>1, <1>2, <1>3
<1> QED
  BY <1>1, <1>4, <1>5, FailedFine, ProbeChanges

LEMMA ReportInv ==
  ASSUME Gate!GateInv, NEW p \in Probes, NEW gate \in BOOLEAN, Gate!Report(p, gate)
  PROVE  Gate!GateInv'
<1> USE DEF Gate!GateInv, Gate!GateTypeOK
<1>1. Gate!RollbackIsJustified'
  <2> DEFINE u == [link |-> v1, on |-> v3[p].on, base |-> v3[p].base,
                   moved |-> v3[p].moved]
  <2>1. v4' = IF v3[p].worse /\ gate /\ v1 # "direct" THEN {u} ELSE {}
    BY DEF Gate!Report
  <2>2. v3[p].worse /\ ~u.moved /\ ~u.base.moved => u.on = u.link /\ u.base.on = "direct"
    BY DEF Gate!ProbeFine, Gate!BaseFine
  <2> HIDE DEF u
  <2> QED
    BY <2>1, <2>2 DEF Gate!RollbackIsJustified
<1>2. v3' = [v3 EXCEPT ![p] = Gate!Idle] /\ UNCHANGED <<v1, v2>>
  BY DEF Gate!Report
<1>3. Gate!ProbeFine(Gate!Idle)
  BY GateIdle DEF Gate!ProbeFine, Gate!BaseFine
<1> QED
  BY <1>1, <1>2, <1>3, GateIdle, ProbeChanges

LEMMA GateInvariance == Spec => [](part = "gate" => Gate!GateInv)
<1>1. Init => (part = "gate" => Gate!GateInv)
  <2> SUFFICES ASSUME Init, part = "gate" PROVE Gate!GateInv
    OBVIOUS
  <2>1. Gate!GateInit
    BY DEF Init
  <2> QED
    BY <2>1, GateIdle DEF Gate!GateInit, Gate!GateInv, Gate!GateTypeOK, Gate!Links,
       Gate!ProbeFine, Gate!BaseFine, Gate!RollbackIsJustified
<1>2. (part = "gate" => Gate!GateInv) /\ [Next]_vars => (part = "gate" => Gate!GateInv)'
  <2> SUFFICES ASSUME part = "gate", Gate!GateInv,
                      Gate!GateNext \/ UNCHANGED Gate!gateVars
               PROVE  Gate!GateInv'
    BY PartSteps
  <2>1. CASE UNCHANGED Gate!gateVars
    BY <2>1 DEF Gate!gateVars, Gate!GateInv, Gate!GateTypeOK, Gate!ProbeFine,
       Gate!BaseFine, Gate!RollbackIsJustified
  <2>2. ASSUME NEW p \in Probes, Gate!Fails(p) PROVE Gate!GateInv'
    <3>1. /\ v3' = [v3 EXCEPT ![p] = [Gate!Idle EXCEPT !.pc = "report"]]
          /\ UNCHANGED <<v1, v2>> /\ v4' = {}
      BY <2>2 DEF Gate!Fails
    <3> QED
      BY <3>1, FailedFine, ProbeChanges DEF Gate!RollbackIsJustified, Gate!GateInv,
         Gate!GateTypeOK
  <2>3. ASSUME NEW p \in Probes, Gate!GateFires(p) PROVE Gate!GateInv'
    BY <2>3, ClickInv DEF Gate!GateFires
  <2> QED
    BY <2>1, <2>2, <2>3, LinkChangesInv, ClickInv, CompareInv, KeepBaselineInv,
       ReportInv DEF Gate!GateNext
<1> QED
  BY <1>1, <1>2, PTL DEF Spec

(***************************************************************************)
(* The program takes a route back only on a comparison with the direct     *)
(* route of the same game (main_viewmodel.py:1304-1361,                    *)
(* main_window.py:2704-2752), although every probe runs beside clicks and  *)
(* reconnections: what a probe remembers of the connection and of the      *)
(* baseline is so unless it moved.                                         *)
(***************************************************************************)
THEOREM GateJustified == Spec => []RollbackIsJustified
<1>1. (part = "gate" => Gate!GateInv) => RollbackIsJustified
  BY DEF RollbackIsJustified, Gate!GateInv
<1> QED
  BY <1>1, GateInvariance, PTL

-------------------------------------------------------------------------------
(***************************************************************************)
(* Consent: v1 to v4 are file, instance, agreed and strained               *)
(***************************************************************************)
LEMMA LookupOff ==
  /\ Lookup!Defaults \in Lookup!Settings
  /\ Lookup!Defaults.notice = "none" /\ Lookup!Defaults.lookup = FALSE
  /\ Lookup!Off \in Lookup!State
  /\ Lookup!Off.pc = "off" /\ Lookup!Off.shown = FALSE
BY DEF Lookup!Defaults, Lookup!Settings, Lookup!Off, Lookup!State

LEMMA LoadedType ==
  ASSUME v1 \in Lookup!Settings \cup {NoFile, Garbled}
  PROVE  /\ Lookup!Loaded \in Lookup!Settings
         /\ Lookup!Loaded.lookup => Lookup!Loaded.notice = "current"
BY LookupOff DEF Lookup!Loaded, Lookup!Settings

\* A step that changes one instance, and not the file.
LEMMA InstanceChanges ==
  ASSUME Lookup!ConsentTypeOK, NEW i \in Instances, NEW s \in Lookup!State,
         s.pc \in {"off", "terms", "accept"} => ~s.shown,
         v2' = [v2 EXCEPT ![i] = s], UNCHANGED v1,
         v3' \in BOOLEAN, v4' \subseteq {"overlap", "cut"}
  PROVE  /\ Lookup!ConsentTypeOK'
         /\ \A j \in Instances : v2'[j] = IF j = i THEN s ELSE v2[j]
BY DEF Lookup!ConsentTypeOK

LEMMA LaunchInv ==
  ASSUME Lookup!ConsentInv, NEW i \in Instances, Lookup!Launch(i)
  PROVE  Lookup!ConsentInv'
<1> USE DEF Lookup!ConsentInv
<1> DEFINE s == IF Lookup!Loaded.notice = "current"
                THEN [Lookup!Off EXCEPT !.pc = "open", !.shown = Lookup!Loaded.lookup]
                ELSE [Lookup!Off EXCEPT !.pc = "terms"]
<1>1. /\ v2' = [v2 EXCEPT ![i] = s]
      /\ v1' = (IF v1 = NoFile THEN Lookup!Defaults ELSE v1)
      /\ v4' = (IF Lookup!Running = {} THEN v4 ELSE v4 \cup {"overlap"})
      /\ v3' = v3
  BY DEF Lookup!Launch
<1>2. /\ Lookup!Loaded'.lookup = Lookup!Loaded.lookup
      /\ Lookup!Loaded'.notice = Lookup!Loaded.notice
  <2>1. CASE v1 = NoFile
    BY <1>1, <2>1, LookupOff, SettingsAssumption DEF Lookup!Loaded, Lookup!Settings
  <2>2. CASE v1 # NoFile
    BY <1>1, <2>2 DEF Lookup!Loaded
  <2> QED
    BY <2>1, <2>2
<1>3. /\ s \in Lookup!State
      /\ s.pc \in {"open", "terms"}
      /\ s.shown => s.pc = "open" /\ Lookup!Loaded.lookup
      /\ s.pc = "open" => Lookup!Loaded.notice = "current"
      /\ s.pc = "terms" => ~Lookup!Loaded.lookup
  BY LoadedType, LookupOff DEF Lookup!State, Lookup!Settings, Lookup!ConsentTypeOK
<1> HIDE DEF s
<1>4. \A j \in Instances : v2'[j] = IF j = i THEN s ELSE v2[j]
  BY <1>1 DEF Lookup!ConsentTypeOK
<1>5. Lookup!ConsentTypeOK'
  BY <1>1, <1>3, LookupOff DEF Lookup!ConsentTypeOK
<1>6. ASSUME v4' = {} PROVE Lookup!Running = {} /\ v4 = {}
  BY <1>1, <1>6
<1>7. Lookup!Running = {} => \A j \in Instances : v2[j].pc = "off"
  BY DEF Lookup!Running
<1>8. Lookup!OneInstance'
  BY <1>2, <1>3, <1>4, <1>6, <1>7 DEF Lookup!OneInstance, Lookup!Running,
     Lookup!Writing
<1>9. Lookup!ConsentIsFresh'
  BY <1>1, <1>2, <1>3, <1>4, <1>6, <1>7 DEF Lookup!ConsentIsFresh, Lookup!Writing,
     Lookup!ConsentTypeOK
<1> QED
  BY <1>5, <1>8, <1>9

\* A change that is read, but not written yet.
LEMMA ChangeInv ==
  ASSUME Lookup!ConsentInv, NEW i \in Instances, NEW pc \in {"accept", "save"},
         NEW shown \in BOOLEAN, NEW draft \in Lookup!Settings,
         Lookup!Change(i, pc, shown, draft), v3' \in BOOLEAN,
         v2[i].pc = (IF pc = "accept" THEN "terms" ELSE "open"),
         pc = "accept" => ~shown,
         v4 = {} => /\ pc = "accept" => ~draft.lookup
                    /\ shown => v3'
                    /\ draft.notice = "current" /\ (draft.lookup => v3')
  PROVE  Lookup!ConsentInv'
<1> USE DEF Lookup!ConsentInv
<1> DEFINE s == [pc |-> pc, shown |-> shown, draft |-> draft]
<1>1. v2' = [v2 EXCEPT ![i] = s] /\ UNCHANGED <<v1, v4>>
  BY DEF Lookup!Change
<1>2. s \in Lookup!State /\ s.pc = pc /\ s.shown = shown /\ s.draft = draft
  BY DEF Lookup!State
<1> HIDE DEF s
<1>3. /\ Lookup!ConsentTypeOK'
      /\ \A j \in Instances : v2'[j] = IF j = i THEN s ELSE v2[j]
  BY <1>1, <1>2, InstanceChanges DEF Lookup!ConsentTypeOK
<1>4. Lookup!Loaded' = Lookup!Loaded
  BY <1>1 DEF Lookup!Loaded
<1>5. ASSUME v4 = {}
      PROVE  \A j \in Instances : j # i => v2[j].pc = "off" /\ ~v2[j].shown
  BY <1>5 DEF Lookup!OneInstance, Lookup!Running, Lookup!ConsentTypeOK
<1>6. Lookup!OneInstance'
  BY <1>1, <1>2, <1>3, <1>4, <1>5 DEF Lookup!OneInstance, Lookup!Running,
     Lookup!Writing
<1>7. Lookup!ConsentIsFresh'
  BY <1>1, <1>2, <1>3, <1>4, <1>5 DEF Lookup!ConsentIsFresh, Lookup!Writing
<1> QED
  BY <1>3, <1>6, <1>7

LEMMA ChangesInv ==
  ASSUME Lookup!ConsentInv, NEW i \in Instances,
         NEW on \in BOOLEAN, NEW confirmed \in BOOLEAN,
         \/ Lookup!Accept(i)
         \/ Lookup!Toggle(i, on, confirmed)
         \/ Lookup!SetOther(i, on)
  PROVE  Lookup!ConsentInv'
<1> USE DEF Lookup!ConsentInv
<1>1. /\ Lookup!Loaded \in Lookup!Settings
      /\ Lookup!Loaded.lookup => Lookup!Loaded.notice = "current"
      /\ v2[i] \in Lookup!State /\ v3 \in BOOLEAN
  BY LoadedType DEF Lookup!ConsentTypeOK
<1>2. CASE Lookup!Accept(i)
  <2> DEFINE d == [Lookup!Loaded EXCEPT !.notice = "current"]
  <2>1. /\ d \in Lookup!Settings /\ d.lookup = Lookup!Loaded.lookup
        /\ d.notice = "current"
    BY <1>1 DEF Lookup!Settings
  <2>2. Lookup!Change(i, "accept", FALSE, d) /\ v3' = FALSE /\ v2[i].pc = "terms"
    BY <1>2 DEF Lookup!Accept
  <2> HIDE DEF d
  <2> QED
    BY <2>1, <2>2, ChangeInv DEF Lookup!OneInstance
<1>3. CASE Lookup!Toggle(i, on, confirmed)
  <2> DEFINE allowed == on /\ confirmed
             d == [Lookup!Loaded EXCEPT !.lookup = allowed]
  <2>1. /\ d \in Lookup!Settings /\ d.lookup = allowed /\ allowed \in BOOLEAN
        /\ d.notice = Lookup!Loaded.notice
    BY <1>1 DEF Lookup!Settings
  <2>2. Lookup!Change(i, "save", allowed, d) /\ v3' = allowed /\ v2[i].pc = "open"
    BY <1>3 DEF Lookup!Toggle
  <2> HIDE DEF d, allowed
  <2> QED
    BY <2>1, <2>2, ChangeInv DEF Lookup!OneInstance
<1>4. CASE Lookup!SetOther(i, on)
  <2> DEFINE d == [Lookup!Loaded EXCEPT !.other = on]
  <2>1. /\ d \in Lookup!Settings /\ d.lookup = Lookup!Loaded.lookup
        /\ d.notice = Lookup!Loaded.notice
    BY <1>1 DEF Lookup!Settings
  <2>2. /\ Lookup!Change(i, "save", v2[i].shown, d)
        /\ v3' = v3 /\ v2[i].pc = "open" /\ v2[i].shown \in BOOLEAN
    BY <1>1, <1>4 DEF Lookup!SetOther, Lookup!State
  <2> HIDE DEF d
  <2>3. ASSUME v4 = {} PROVE (v2[i].shown => v3) /\ (d.lookup => v3)
    <3>1. \A j \in Instances : ~Lookup!Writing(j)
      BY <2>2, <2>3 DEF Lookup!OneInstance, Lookup!Running, Lookup!Writing
    <3> QED
      BY <2>1, <2>3, <3>1 DEF Lookup!ConsentIsFresh
  <2> QED
    BY <1>1, <2>1, <2>2, <2>3, ChangeInv DEF Lookup!OneInstance
<1> QED
  BY <1>2, <1>3, <1>4

LEMMA SaveInv ==
  ASSUME Lookup!ConsentInv, NEW i \in Instances, Lookup!Save(i)
  PROVE  Lookup!ConsentInv'
<1> USE DEF Lookup!ConsentInv
<1> DEFINE d == v2[i].draft
           s == [v2[i] EXCEPT !.pc = "open",
                              !.shown = IF v2[i].pc = "accept" THEN d.lookup ELSE @]
<1>1. /\ v2' = [v2 EXCEPT ![i] = s]
      /\ v1' = d /\ UNCHANGED <<v3, v4>> /\ v2[i].pc \in {"accept", "save"}
  BY DEF Lookup!Save, Lookup!Writing
<1>2. v2[i] \in Lookup!State /\ d \in Lookup!Settings
  BY DEF Lookup!ConsentTypeOK, Lookup!State
<1>3. /\ s \in Lookup!State /\ s.pc = "open" /\ s.draft = d
      /\ s.shown = IF v2[i].pc = "accept" THEN d.lookup ELSE v2[i].shown
  BY <1>2 DEF Lookup!State, Lookup!Settings
<1> HIDE DEF s
<1>4. \A j \in Instances : v2'[j] = IF j = i THEN s ELSE v2[j]
  BY <1>1 DEF Lookup!ConsentTypeOK
<1>5. /\ Lookup!Loaded'.lookup = (d.lookup /\ d.notice = "current")
      /\ Lookup!Loaded'.notice = d.notice
  BY <1>1, <1>2, SettingsAssumption DEF Lookup!Loaded, Lookup!Settings
<1>6. Lookup!ConsentTypeOK'
  BY <1>1, <1>2, <1>3, <1>4 DEF Lookup!ConsentTypeOK
<1> HIDE DEF d
<1>7. ASSUME v4 = {}
      PROVE  \A j \in Instances : j # i => v2[j].pc = "off" /\ ~v2[j].shown
  BY <1>1, <1>7 DEF Lookup!OneInstance, Lookup!Running, Lookup!ConsentTypeOK
<1>8. Lookup!OneInstance'
  BY <1>1, <1>3, <1>4, <1>5, <1>7 DEF Lookup!OneInstance, Lookup!Running,
     Lookup!Writing, d
<1>9. ASSUME v4 = {} PROVE (s.shown => v3) /\ (d.lookup => v3)
  <2>1. /\ d.lookup => v3 /\ v2[i].pc # "accept"
        /\ v2[i].shown => v3
    BY <1>1, <1>9 DEF Lookup!OneInstance, Lookup!ConsentIsFresh, Lookup!Writing, d
  <2> QED
    BY <1>1, <1>3, <2>1
<1>10. Lookup!ConsentIsFresh'
  BY <1>1, <1>4, <1>5, <1>7, <1>9 DEF Lookup!ConsentIsFresh
<1> QED
  BY <1>6, <1>8, <1>10

LEMMA ExitInv ==
  ASSUME Lookup!ConsentInv, NEW i \in Instances, Lookup!Exit(i)
  PROVE  Lookup!ConsentInv'
<1> USE DEF Lookup!ConsentInv
<1>1. /\ v2' = [v2 EXCEPT ![i] = Lookup!Off] /\ UNCHANGED <<v1, v3>>
      /\ v4' = IF Lookup!Writing(i) THEN v4 \cup {"cut"} ELSE v4
      /\ v2[i].pc # "off"
  BY DEF Lookup!Exit
<1>2. /\ Lookup!ConsentTypeOK'
      /\ \A j \in Instances : v2'[j] = IF j = i THEN Lookup!Off ELSE v2[j]
  BY <1>1, LookupOff, InstanceChanges DEF Lookup!ConsentTypeOK
<1>3. Lookup!Loaded' = Lookup!Loaded
  BY <1>1 DEF Lookup!Loaded
<1>4. ASSUME v4' = {}
      PROVE  /\ v4 = {} /\ ~Lookup!Writing(i)
             /\ \A j \in Instances : j # i => v2[j].pc = "off"
  BY <1>1, <1>4 DEF Lookup!OneInstance, Lookup!Running
<1>5. Lookup!OneInstance'
  BY <1>1, <1>2, <1>3, <1>4, LookupOff DEF Lookup!OneInstance, Lookup!Running,
     Lookup!Writing
<1>6. Lookup!ConsentIsFresh'
  BY <1>1, <1>2, <1>3, <1>4, LookupOff DEF Lookup!ConsentIsFresh, Lookup!Writing
<1> QED
  BY <1>2, <1>5, <1>6

LEMMA FileInv ==
  ASSUME Lookup!ConsentInv,
         Lookup!Upgrade \/ \E to \in {NoFile, Garbled} : Lookup!Damage(to)
  PROVE  Lookup!ConsentInv'
<1> USE DEF Lookup!ConsentInv
<1>1. \A i \in Instances : v2[i].pc = "off" /\ ~v2[i].shown
  BY DEF Lookup!Upgrade, Lookup!Damage, Lookup!Running, Lookup!ConsentTypeOK
<1>2. UNCHANGED <<v2, v4>> /\ v3' \in BOOLEAN
  BY DEF Lookup!Upgrade, Lookup!Damage, Lookup!ConsentTypeOK
<1>3. v1' \in Lookup!Settings \cup {NoFile, Garbled}
  BY DEF Lookup!Upgrade, Lookup!Damage, Lookup!ConsentTypeOK, Lookup!Settings
<1>4. ~Lookup!Loaded'.lookup
  <2>1. CASE v1' \in {NoFile, Garbled}
    BY <2>1, LookupOff DEF Lookup!Loaded
  <2>2. CASE Lookup!Upgrade
    <3>1. /\ v1 \in Lookup!Settings
          /\ v1' = [v1 EXCEPT !.notice = "old"]
      BY <2>2 DEF Lookup!Upgrade, Lookup!ConsentTypeOK
    <3>2. v1' \in Lookup!Settings /\ v1'.notice = "old"
      BY <3>1 DEF Lookup!Settings
    <3> QED
      BY <3>2, SettingsAssumption DEF Lookup!Loaded, Lookup!Settings
  <2> QED
    BY <2>1, <2>2 DEF Lookup!Damage
<1> QED
  BY <1>1, <1>2, <1>3, <1>4 DEF Lookup!ConsentTypeOK, Lookup!OneInstance,
     Lookup!ConsentIsFresh, Lookup!Running, Lookup!Writing

LEMMA ConsentInvariance == Spec => [](part = "consent" => Lookup!ConsentInv)
<1>1. Init => (part = "consent" => Lookup!ConsentInv)
  <2> SUFFICES ASSUME Init, part = "consent" PROVE Lookup!ConsentInv
    OBVIOUS
  <2>1. Lookup!ConsentInit
    BY DEF Init
  <2>2. ~Lookup!Loaded.lookup
    BY <2>1, LookupOff DEF Lookup!ConsentInit, Lookup!Loaded, Lookup!Settings
  <2>3. \A i \in Instances : v2[i] = Lookup!Off
    BY <2>1 DEF Lookup!ConsentInit
  <2> QED
    BY <2>1, <2>2, <2>3, LookupOff DEF Lookup!ConsentInit, Lookup!ConsentInv,
       Lookup!ConsentTypeOK, Lookup!OneInstance, Lookup!ConsentIsFresh,
       Lookup!Running, Lookup!Writing
<1>2. (part = "consent" => Lookup!ConsentInv) /\ [Next]_vars
         => (part = "consent" => Lookup!ConsentInv)'
  <2> SUFFICES ASSUME part = "consent", Lookup!ConsentInv,
                      Lookup!ConsentNext \/ UNCHANGED Lookup!consentVars
               PROVE  Lookup!ConsentInv'
    BY PartSteps
  <2>1. CASE UNCHANGED Lookup!consentVars
    BY <2>1 DEF Lookup!consentVars, Lookup!ConsentInv, Lookup!ConsentTypeOK,
       Lookup!OneInstance, Lookup!ConsentIsFresh, Lookup!Running, Lookup!Writing,
       Lookup!Loaded
  <2> QED
    BY <2>1, LaunchInv, ChangesInv, SaveInv, ExitInv, FileInv DEF Lookup!ConsentNext
<1> QED
  BY <1>1, <1>2, PTL DEF Spec

(***************************************************************************)
(* After any order of saves, crashes, restarts and new notices the online  *)
(* lookup is on only when the user agreed to the notice in force           *)
(* (settings_service.py): what an instance is about to write says no more  *)
(* than the user agreed to.                                                *)
(***************************************************************************)
THEOREM ConsentKept == Spec => []ConsentIsFresh
<1>1. (part = "consent" => Lookup!ConsentInv) => ConsentIsFresh
  BY DEF ConsentIsFresh, Lookup!ConsentInv
<1> QED
  BY <1>1, ConsentInvariance, PTL

-------------------------------------------------------------------------------
(***************************************************************************)
(* Files: v1 to v8 are disk, former, memory, up, saver, chosen, lapses and *)
(* removed                                                                 *)
(***************************************************************************)
Saving == [pc : {"none", "write"}, content : SUBSET Items]

LEMMA FilesNames ==
  /\ NoFile # Torn /\ NoFile \notin SUBSET Items /\ Torn \notin SUBSET Items
  /\ Initial \in SUBSET Items /\ "profiles" \notin Threads
BY FilesAssumption

LEMMA FilesIdle ==
  Store!Idle \in Saving /\ Store!Idle.pc = "none" /\ Store!Idle.content = {}
BY DEF Store!Idle, Saving

LEMMA FilesTyped ==
  Store!FilesTypeOK <=>
    /\ v1 \in [Store!Names -> (SUBSET Items) \cup {NoFile, Torn}]
    /\ v1["backup"] # Torn
    /\ v2 \in [Store!Names -> (SUBSET Items) \cup {NoFile}]
    /\ v3 \in [Store!Kinds -> SUBSET Items] /\ v6 \in [Store!Kinds -> SUBSET Items]
    /\ v5 \in [Store!Savers -> Saving]
    /\ (\E s \in Store!Savers : v5[s].pc # "none") => v4
    /\ v7 \subseteq {"together", "cut"} /\ v8 \in BOOLEAN
BY DEF Store!FilesTypeOK, Saving

LEMMA LoadedTypes ==
  ASSUME Store!FilesTypeOK
  PROVE  /\ \A n \in Store!Names :
               Store!Present(n) \in (SUBSET Items) \cup {NoFile, Torn}
         /\ Store!Present("backup") # Torn
         /\ Store!LoadedGames \in SUBSET Items
<1>1. \A n \in Store!Names : /\ v1[n] \in (SUBSET Items) \cup {NoFile, Torn}
                             /\ v2[n] \in (SUBSET Items) \cup {NoFile}
  BY DEF Store!FilesTypeOK
<1>2. \A n \in Store!Names :
         Store!Present(n) \in (SUBSET Items) \cup {NoFile, Torn}
  BY <1>1 DEF Store!Present, Store!Migrated
<1>3. v2["backup"] # Torn /\ v1["backup"] # Torn
  <2>1. v2["backup"] \in (SUBSET Items) \cup {NoFile}
    BY <1>1 DEF Store!Names
  <2> QED
    BY <2>1, FilesNames DEF Store!FilesTypeOK
<1>4. Store!Present("backup") # Torn
  BY <1>3 DEF Store!Present, Store!Migrated
<1>5. Store!Present("games") \in (SUBSET Items) \cup {NoFile, Torn}
  BY <1>2 DEF Store!Names, Store!Kinds
<1>6. Store!LoadedGames \in SUBSET Items
  BY <1>5, FilesNames DEF Store!LoadedGames
<1> QED
  BY <1>2, <1>4, <1>6

LEMMA StartUpInv ==
  ASSUME Store!FilesInv, Store!StartUp PROVE Store!FilesInv'
<1> USE FilesNames DEF Store!FilesInv, Store!Names, Store!Kinds
<1>1. /\ ~v4 /\ v4' = TRUE
      /\ v3' = Store!Loaded
      /\ v1' = [n \in Store!Names |->
                  IF n = "games" /\ Store!Present(n) = NoFile THEN Initial
                  ELSE Store!Present(n)]
      /\ UNCHANGED <<v2, v5, v6, v7, v8>>
  BY DEF Store!StartUp
<1>2. /\ v1'["games"] = IF Store!Present("games") = NoFile THEN Initial
                        ELSE Store!Present("games")
      /\ v1'["profiles"] = Store!Present("profiles")
      /\ v1'["backup"] = Store!Present("backup")
      /\ v3'["games"] = Store!LoadedGames
      /\ v3'["profiles"] = Store!LoadedProfiles
  BY <1>1 DEF Store!Loaded
<1>3. \A s \in Store!Savers : v5[s].pc = "none"
  BY <1>1 DEF Store!FilesTypeOK
<1>4. \A n \in Store!Names : Store!Present(n) \in (SUBSET Items) \cup {NoFile, Torn}
  BY LoadedTypes
<1>5. Store!LoadedProfiles = v6["profiles"] /\ v6["profiles"] \in SUBSET Items
  BY DEF Store!SavedAsChosen, Store!FilesTypeOK
<1>6. Store!Present("backup") # Torn
  BY LoadedTypes
<1>7. Store!FilesTypeOK'
  <2>1. v1' \in [Store!Names -> (SUBSET Items) \cup {NoFile, Torn}]
    BY <1>1, <1>4
  <2>2. v3' \in [Store!Kinds -> SUBSET Items]
    BY <1>1, <1>5, LoadedTypes DEF Store!Loaded
  <2> QED
    BY <1>1, <1>2, <1>6, <2>1, <2>2 DEF Store!FilesTypeOK
<1>8. Store!SavedAsChosen'
  <2>1. Store!LoadedProfiles' = Store!LoadedProfiles
    BY <1>1, <1>2 DEF Store!LoadedProfiles, Store!Present, Store!Migrated
  <2>2. v8 /\ v2["backup"] = NoFile => v1'["backup"] = NoFile
    BY <1>2 DEF Store!SavedAsChosen, Store!Present, Store!Migrated
  <2>3. "profiles" \in Store!Savers
    BY DEF Store!Savers
  <2> QED
    BY <1>1, <1>2, <1>3, <1>5, <2>1, <2>2, <2>3 DEF Store!SavedAsChosen
<1>9. Store!GamesAsChosen'
  <2> SUFFICES ASSUME v7 = {} PROVE Store!GamesAsChosen'
    BY <1>1 DEF Store!GamesAsChosen
  <2>1. /\ \A t \in Threads : v5[t].pc = "none"
        /\ Store!Present("games") # Torn /\ Store!LoadedGames = v6["games"]
    BY <1>1, <1>3 DEF Store!GamesAsChosen, Store!Savers
  <2>2. v1'["games"] = v6["games"]
    BY <1>2, <2>1 DEF Store!LoadedGames
  <2> QED
    BY <1>1, <1>2, <2>1, <2>2 DEF Store!GamesAsChosen
<1> QED
  BY <1>7, <1>8, <1>9

\* A thread opens the file of the games.
LEMMA OpenInv ==
  ASSUME Store!FilesInv, NEW t \in Threads, NEW games \in SUBSET Items,
         Store!Open(t, games), v4, UNCHANGED <<v2, v4, v8>>,
         v3' = [v3 EXCEPT !["games"] = games],
         v6' = [v6 EXCEPT !["games"] = games]
         \/ (v3["games"] = games /\ v6' = v6)
  PROVE  Store!FilesInv'
<1> USE FilesNames DEF Store!FilesInv, Store!Names, Store!Kinds
<1> DEFINE s == [pc |-> "write", content |-> games]
<1>1. /\ v5[t].pc = "none" /\ v5' = [v5 EXCEPT ![t] = s]
      /\ v1' = [v1 EXCEPT !["games"] = Torn]
      /\ v7' = v7 \cup (IF \E r \in Threads : v5[r].pc # "none" THEN {"together"}
                        ELSE {})
  BY DEF Store!Open
<1>2. s \in Saving /\ s.pc = "write" /\ s.content = games
  BY DEF Saving
<1> HIDE DEF s
<1>3. t \in Store!Savers /\ t # "profiles"
  BY DEF Store!Savers
<1>4. \A r \in Store!Savers : v5'[r] = IF r = t THEN s ELSE v5[r]
  BY <1>1, FilesTyped
<1>5. /\ v6' \in [Store!Kinds -> SUBSET Items]
      /\ v6'["profiles"] = v6["profiles"]
      /\ v3' \in [Store!Kinds -> SUBSET Items]
      /\ v3'["profiles"] = v3["profiles"] /\ v3'["games"] = games
      /\ v6'["games"] = games \/ (v3["games"] = games /\ v6' = v6)
  <2>1. /\ v3 \in [Store!Kinds -> SUBSET Items]
        /\ v6 \in [Store!Kinds -> SUBSET Items]
    BY FilesTyped
  <2> QED
    BY <2>1
<1>6. /\ v1' \in [Store!Names -> (SUBSET Items) \cup {NoFile, Torn}]
      /\ v1'["backup"] = v1["backup"] /\ v1'["profiles"] = v1["profiles"]
  <2>1. v1 \in [Store!Names -> (SUBSET Items) \cup {NoFile, Torn}]
    BY FilesTyped
  <2> QED
    BY <1>1, <2>1
<1>7. Store!FilesTypeOK'
  BY <1>1, <1>2, <1>3, <1>5, <1>6, FilesTyped DEF Store!FilesTypeOK, Saving
<1>8. Store!SavedAsChosen'
  <2>1. "profiles" \in Store!Savers
    BY DEF Store!Savers
  <2> QED
    BY <1>3, <1>4, <1>5, <1>6, <2>1 DEF Store!SavedAsChosen, Store!LoadedProfiles,
       Store!Present, Store!Migrated
<1>9. Store!GamesAsChosen'
  <2> SUFFICES ASSUME v7' = {} PROVE Store!GamesAsChosen'
    BY DEF Store!GamesAsChosen
  <2>1. v7 = {} /\ \A r \in Threads : v5[r].pc = "none"
    BY <1>1
  <2>2. v6'["games"] = games
    BY <1>5, <2>1 DEF Store!GamesAsChosen
  <2>3. \A r \in Threads : v5'[r] = IF r = t THEN s ELSE v5[r]
    BY <1>4 DEF Store!Savers
  <2> QED
    BY <1>2, <1>5, <2>1, <2>2, <2>3 DEF Store!GamesAsChosen
<1> QED
  BY <1>7, <1>8, <1>9

LEMMA WriteGamesInv ==
  ASSUME Store!FilesInv, NEW t \in Threads, Store!WriteGames(t)
  PROVE  Store!FilesInv'
<1> USE FilesNames DEF Store!FilesInv, Store!Names, Store!Kinds
<1>1. /\ v5[t].pc = "write" /\ v5' = [v5 EXCEPT ![t] = Store!Idle]
      /\ v1' = [v1 EXCEPT !["games"] = v5[t].content]
      /\ UNCHANGED <<v2, v3, v4, v6, v7, v8>>
  BY DEF Store!WriteGames
<1>2. t \in Store!Savers /\ t # "profiles" /\ "profiles" \in Store!Savers
  BY DEF Store!Savers
<1>3. v5[t] \in Saving /\ v5[t].content \in SUBSET Items
  BY <1>2, FilesTyped DEF Saving
<1>4. \A r \in Store!Savers : v5'[r] = IF r = t THEN Store!Idle ELSE v5[r]
  BY <1>1, FilesTyped
<1>5. /\ v1' \in [Store!Names -> (SUBSET Items) \cup {NoFile, Torn}]
      /\ v1'["backup"] = v1["backup"] /\ v1'["profiles"] = v1["profiles"]
      /\ v1'["games"] = v5[t].content
  BY <1>1, <1>3, FilesTyped
<1>6. Store!FilesTypeOK'
  BY <1>1, <1>2, <1>4, <1>5, FilesIdle, FilesTyped DEF Store!FilesTypeOK, Saving
<1>7. Store!SavedAsChosen'
  BY <1>1, <1>2, <1>4, <1>5 DEF Store!SavedAsChosen, Store!LoadedProfiles,
     Store!Present, Store!Migrated
<1>8. Store!GamesAsChosen'
  <2> SUFFICES ASSUME v7 = {} PROVE Store!GamesAsChosen'
    BY <1>1 DEF Store!GamesAsChosen
  <2>1. \A r \in Threads : v5'[r].pc = "none"
    BY <1>1, <1>2, <1>4, FilesIdle, FilesTyped DEF Store!GamesAsChosen, Saving,
       Store!Savers
  <2>2. v5[t].content = v6["games"] /\ v4
    BY <1>1, <1>2 DEF Store!GamesAsChosen, Store!FilesTypeOK
  <2> QED
    BY <1>1, <1>5, <2>1, <2>2 DEF Store!GamesAsChosen
<1> QED
  BY <1>6, <1>7, <1>8

LEMMA ProfilesInv ==
  ASSUME Store!FilesInv,
         \/ \E content \in SUBSET Items : Store!EditProfiles(content)
         \/ Store!ReplaceProfiles
  PROVE  Store!FilesInv'
<1> USE FilesNames DEF Store!FilesInv, Store!Names, Store!Kinds
<1>1. /\ "profiles" \in Store!Savers /\ Threads \subseteq Store!Savers
      /\ \A t \in Threads : t # "profiles"
  BY DEF Store!Savers
<1>2. ASSUME NEW content \in SUBSET Items, Store!EditProfiles(content)
      PROVE  Store!FilesInv'
  <2> DEFINE s == [pc |-> "write", content |-> content]
  <2>1. /\ v4 /\ v3' = [v3 EXCEPT !["profiles"] = content]
        /\ v5' = [v5 EXCEPT !["profiles"] = s]
        /\ UNCHANGED <<v1, v2, v4, v6, v7, v8>>
    BY <1>2 DEF Store!EditProfiles
  <2>2. s \in Saving /\ s.pc = "write" /\ s.content = content
    BY DEF Saving
  <2> HIDE DEF s
  <2>3. \A r \in Store!Savers : v5'[r] = IF r = "profiles" THEN s ELSE v5[r]
    BY <2>1, FilesTyped
  <2>4. /\ v3' \in [Store!Kinds -> SUBSET Items]
        /\ v3'["games"] = v3["games"] /\ v3'["profiles"] = content
    BY <2>1, FilesTyped
  <2>5. Store!FilesTypeOK'
    BY <1>1, <2>1, <2>2, <2>3, <2>4, FilesTyped DEF Store!FilesTypeOK, Saving
  <2>6. Store!SavedAsChosen'
    BY <1>1, <2>1, <2>2, <2>3, <2>4 DEF Store!SavedAsChosen,
       Store!LoadedProfiles, Store!Present, Store!Migrated
  <2>7. \A t \in Threads : v5'[t] = v5[t]
    BY <1>1, <2>3
  <2>8. Store!GamesAsChosen'
    BY <2>1, <2>4, <2>7 DEF Store!GamesAsChosen, Store!LoadedGames,
       Store!Present, Store!Migrated
  <2> QED
    BY <2>5, <2>6, <2>8
<1>3. CASE Store!ReplaceProfiles
  <2> DEFINE content == v5["profiles"].content
  <2>1. /\ v5["profiles"].pc = "write"
        /\ v1' = [v1 EXCEPT !["profiles"] = content]
        /\ v6' = [v6 EXCEPT !["profiles"] = content]
        /\ v5' = [v5 EXCEPT !["profiles"] = Store!Idle]
        /\ UNCHANGED <<v2, v3, v4, v7, v8>>
    BY <1>3 DEF Store!ReplaceProfiles
  <2>2. content \in SUBSET Items /\ content = v3["profiles"]
    BY <1>1, <2>1, FilesTyped DEF Saving, Store!SavedAsChosen
  <2> HIDE DEF content
  <2>3. \A r \in Store!Savers : v5'[r] = IF r = "profiles" THEN Store!Idle ELSE v5[r]
    BY <2>1, FilesTyped
  <2>4. /\ v6' \in [Store!Kinds -> SUBSET Items]
        /\ v6'["games"] = v6["games"] /\ v6'["profiles"] = content
    BY <2>1, <2>2, FilesTyped
  <2>5. /\ v1' \in [Store!Names -> (SUBSET Items) \cup {NoFile, Torn}]
        /\ v1'["games"] = v1["games"] /\ v1'["backup"] = v1["backup"]
        /\ v1'["profiles"] = content
    BY <2>1, <2>2, FilesTyped
  <2>6. Store!FilesTypeOK'
    BY <1>1, <2>1, <2>3, <2>4, <2>5, FilesIdle, FilesTyped
       DEF Store!FilesTypeOK, Saving
  <2>7. Store!SavedAsChosen'
    BY <1>1, <2>1, <2>2, <2>3, <2>4, <2>5, FilesIdle DEF Store!SavedAsChosen,
       Store!LoadedProfiles, Store!Present, Store!Migrated
  <2>8. \A t \in Threads : v5'[t] = v5[t]
    BY <1>1, <2>3
  <2>9. Store!GamesAsChosen'
    BY <2>1, <2>4, <2>5, <2>8 DEF Store!GamesAsChosen, Store!LoadedGames,
       Store!Present, Store!Migrated
  <2> QED
    BY <2>6, <2>7, <2>9
<1> QED
  BY <1>2, <1>3

\* The backup of the DNS settings.
LEMMA BackupInv ==
  ASSUME Store!FilesInv,
         \/ \E content \in SUBSET Items : Store!SaveBackup(content)
         \/ Store!RemoveBackup
  PROVE  Store!FilesInv'
<1> USE FilesNames DEF Store!FilesInv, Store!Names, Store!Kinds
<1>1. PICK content \in (SUBSET Items) \cup {NoFile} :
         /\ v1' = [v1 EXCEPT !["backup"] = content]
         /\ v8' \in BOOLEAN /\ (v8' => content = NoFile)
         /\ UNCHANGED <<v2, v3, v4, v5, v6, v7>>
  <2>1. CASE Store!RemoveBackup
    <3>1. /\ v1' = [v1 EXCEPT !["backup"] = NoFile] /\ v8' = TRUE
          /\ UNCHANGED <<v2, v3, v4, v5, v6, v7>>
      BY <2>1 DEF Store!RemoveBackup
    <3>2. NoFile \in (SUBSET Items) \cup {NoFile}
      OBVIOUS
    <3> QED
      BY <3>1, <3>2
  <2>2. ASSUME NEW new \in SUBSET Items, Store!SaveBackup(new)
        PROVE  \E content \in (SUBSET Items) \cup {NoFile} :
                  /\ v1' = [v1 EXCEPT !["backup"] = content]
                  /\ v8' = FALSE
                  /\ UNCHANGED <<v2, v3, v4, v5, v6, v7>>
    BY <2>2, LoadedTypes DEF Store!SaveBackup
  <2>3. ASSUME NEW new \in SUBSET Items, Store!SaveBackup(new)
        PROVE  \E content \in (SUBSET Items) \cup {NoFile} :
                  /\ v1' = [v1 EXCEPT !["backup"] = content]
                  /\ v8' \in BOOLEAN /\ (v8' => content = NoFile)
                  /\ UNCHANGED <<v2, v3, v4, v5, v6, v7>>
    BY <2>2, <2>3
  <2> QED
    BY <2>1, <2>3
<1>2. /\ v1' \in [Store!Names -> (SUBSET Items) \cup {NoFile, Torn}]
      /\ v1'["games"] = v1["games"] /\ v1'["profiles"] = v1["profiles"]
      /\ v1'["backup"] = content /\ content # Torn
  <2>1. v1 \in [Store!Names -> (SUBSET Items) \cup {NoFile, Torn}]
    BY FilesTyped
  <2>2. content # Torn /\ content \in (SUBSET Items) \cup {NoFile, Torn}
    OBVIOUS
  <2> QED
    BY <1>1, <2>1, <2>2
<1>3. Store!FilesTypeOK'
  BY <1>1, <1>2 DEF Store!FilesTypeOK
<1>4. Store!SavedAsChosen'
  BY <1>1, <1>2 DEF Store!SavedAsChosen, Store!LoadedProfiles, Store!Present,
     Store!Migrated
<1>5. Store!GamesAsChosen'
  BY <1>1, <1>2 DEF Store!GamesAsChosen, Store!LoadedGames, Store!Present,
     Store!Migrated
<1> QED
  BY <1>3, <1>4, <1>5

LEMMA EndInv ==
  ASSUME Store!FilesInv, Store!End PROVE Store!FilesInv'
<1> USE FilesNames DEF Store!FilesInv, Store!Names, Store!Kinds
<1>1. /\ v4 /\ v4' = FALSE /\ v5' = [s \in Store!Savers |-> Store!Idle]
      /\ v7' = IF \E t \in Threads : v5[t].pc # "none" THEN v7 \cup {"cut"} ELSE v7
      /\ UNCHANGED <<v1, v2, v3, v6, v8>>
  BY DEF Store!End
<1>2. \A r \in Store!Savers : v5'[r] = Store!Idle
  BY <1>1
<1>3. Store!FilesTypeOK'
  BY <1>1, <1>2, FilesIdle DEF Store!FilesTypeOK, Saving
<1>4. Store!SavedAsChosen'
  BY <1>1, <1>2, FilesIdle DEF Store!SavedAsChosen, Store!LoadedProfiles,
     Store!Present, Store!Migrated, Store!Savers
<1>5. Store!GamesAsChosen'
  <2> SUFFICES ASSUME v7' = {} PROVE Store!GamesAsChosen'
    BY DEF Store!GamesAsChosen
  <2>1. v7 = {} /\ \A t \in Threads : v5[t].pc = "none"
    BY <1>1
  <2>2. v1["games"] = v6["games"] /\ v6["games"] \in SUBSET Items
    BY <1>1, <2>1, FilesTyped DEF Store!GamesAsChosen
  <2>3. \A t \in Threads : v5'[t] = Store!Idle
    BY <1>2 DEF Store!Savers
  <2> QED
    BY <1>1, <2>2, <2>3, FilesIdle DEF Store!GamesAsChosen, Store!LoadedGames,
       Store!Present, Store!Migrated
<1> QED
  BY <1>3, <1>4, <1>5

LEMMA FilesInvariance == Spec => [](part = "files" => Store!FilesInv)
<1> USE FilesNames
<1>1. Init => (part = "files" => Store!FilesInv)
  <2> SUFFICES ASSUME Init, part = "files" PROVE Store!FilesInv
    OBVIOUS
  <2>1. Store!FilesInit
    BY DEF Init
  <2>2. /\ \A n \in Store!Names : v1[n] = NoFile /\ Store!Present(n) = v2[n]
        /\ \A s \in Store!Savers : v5[s] = Store!Idle
        /\ v6["games"] = Store!LoadedGames /\ v6["profiles"] = Store!LoadedProfiles
    BY <2>1 DEF Store!FilesInit, Store!Present, Store!Migrated, Store!Loaded,
       Store!Kinds
  <2>3. /\ Store!LoadedGames \in SUBSET Items
        /\ Store!LoadedProfiles \in SUBSET Items
        /\ Store!Present("games") # Torn
    <3>1. v2["games"] \in (SUBSET Items) \cup {NoFile}
          /\ v2["profiles"] \in (SUBSET Items) \cup {NoFile}
      BY <2>1 DEF Store!FilesInit, Store!Names, Store!Kinds
    <3>2. Store!Present("games") = v2["games"] /\ Store!Present("profiles") = v2["profiles"]
      BY <2>2 DEF Store!Names, Store!Kinds
    <3> QED
      <4>1. v2["games"] # Torn
        BY <3>1
      <4> QED
        BY <3>1, <3>2, <4>1 DEF Store!LoadedGames, Store!LoadedProfiles
  <2>4. Store!FilesTypeOK
    <3>1. v6 \in [Store!Kinds -> SUBSET Items]
      BY <2>1, <2>3 DEF Store!FilesInit, Store!Loaded
    <3>2. v1 \in [Store!Names -> (SUBSET Items) \cup {NoFile, Torn}]
          /\ v1["backup"] # Torn
      BY <2>1 DEF Store!FilesInit, Store!Names
    <3>3. v3 \in [Store!Kinds -> SUBSET Items]
      BY <2>1 DEF Store!FilesInit
    <3>4. v5 \in [Store!Savers -> Saving] /\ \A q \in Store!Savers : v5[q].pc = "none"
      BY <2>1, FilesIdle DEF Store!FilesInit
    <3> QED
      BY <2>1, <3>1, <3>2, <3>3, <3>4, FilesTyped DEF Store!FilesInit
  <2> QED
    BY <2>1, <2>2, <2>3, <2>4, FilesIdle DEF Store!FilesInit, Store!FilesInv,
       Store!SavedAsChosen, Store!GamesAsChosen, Store!Savers, Store!Names
<1>2. (part = "files" => Store!FilesInv) /\ [Next]_vars => (part = "files" => Store!FilesInv)'
  <2> SUFFICES ASSUME part = "files", Store!FilesInv,
                      Store!FilesNext \/ UNCHANGED Store!fileVars
               PROVE  Store!FilesInv'
    BY PartSteps
  <2>1. CASE UNCHANGED Store!fileVars
    BY <2>1 DEF Store!fileVars, Store!FilesInv, Store!FilesTypeOK,
       Store!SavedAsChosen, Store!GamesAsChosen, Store!LoadedProfiles,
       Store!LoadedGames, Store!Present, Store!Migrated
  <2>2. ASSUME NEW t \in Threads, NEW games \in SUBSET Items,
               Store!EditGames(t, games)
        PROVE  Store!FilesInv'
    BY <2>2, OpenInv DEF Store!EditGames
  <2>3. ASSUME NEW t \in Threads, Store!LearnedRoute(t) PROVE Store!FilesInv'
    <3>1. v3 \in [Store!Kinds -> SUBSET Items]
      BY DEF Store!FilesInv, Store!FilesTypeOK
    <3>2. v3["games"] \in SUBSET Items /\ v3 = [v3 EXCEPT !["games"] = v3["games"]]
      BY <3>1 DEF Store!Kinds
    <3> QED
      BY <2>3, <3>2, OpenInv DEF Store!LearnedRoute
  <2> QED
    BY <2>1, <2>2, <2>3, StartUpInv, WriteGamesInv, ProfilesInv, BackupInv, EndInv
       DEF Store!FilesNext
<1> QED
  BY <1>1, <1>2, PTL DEF Spec

(***************************************************************************)
(* What the user saved is there at the next start, and what was removed    *)
(* stays removed, whichever of the two steps of a save a crash comes       *)
(* between (games_service.py, tunnel_storage_service.py, app_paths.py):    *)
(* the file, or its backup, is what was saved last, and whoever saves has  *)
(* it in hand.                                                             *)
(***************************************************************************)
THEOREM ChoicesSurvive == Spec => []ChoicesKept
<1>1. (part = "files" => Store!FilesInv) => ChoicesKept
  <2> SUFFICES ASSUME Store!FilesInv PROVE Store!ChoicesKept
    BY DEF ChoicesKept
  <2> QED
    BY DEF Store!ChoicesKept, Store!FilesInv, Store!SavedAsChosen,
       Store!GamesAsChosen, Store!Present, Store!Migrated
<1> QED
  BY <1>1, FilesInvariance, PTL

-------------------------------------------------------------------------------
(***************************************************************************)
(* Blackbox: v1 to v9 are marker, running, enabled, queue, writer, ui,     *)
(* owed, wrong and doubts                                                  *)
(***************************************************************************)
LEMMA RestingFields ==
  Box!Resting \in Box!Recordings /\ Box!Resting.pc = "none" /\ Box!Resting.drop = 0
BY DEF Box!Resting, Box!Recordings

\* A recording that has n files fewer to remove, as others removed them
Less(t, n) == [t EXCEPT !.drop = IF @ > n THEN @ - n ELSE 0]

LEMMA LessFields ==
  ASSUME NEW t \in Box!Recordings, NEW n \in Nat
  PROVE  /\ Less(t, n) \in Box!Recordings /\ Less(t, n).pc = t.pc
         /\ Less(t, n).drop = IF t.drop > n THEN t.drop - n ELSE 0
BY DEF Less, Box!Recordings

LEMMA LessAll ==
  ASSUME NEW f \in [Box!Recorders -> Box!Recordings], NEW n \in Nat, NEW g,
         g = [w \in Box!Recorders |-> g[w]],
         \A w \in Box!Recorders :
            g[w] = Less(f[w], n) \/ (f[w].pc = "glob" /\ g[w] = Box!Resting)
  PROVE  /\ g \in [Box!Recorders -> Box!Recordings]
         /\ \A w \in Box!Recorders :
               \/ /\ g[w].pc = f[w].pc
                  /\ g[w].drop = IF f[w].drop > n THEN f[w].drop - n ELSE 0
               \/ f[w].pc = "glob" /\ g[w] = Box!Resting
<1>1. \A w \in Box!Recorders :
         /\ g[w] \in Box!Recordings
         /\ \/ /\ g[w].pc = f[w].pc
               /\ g[w].drop = IF f[w].drop > n THEN f[w].drop - n ELSE 0
            \/ f[w].pc = "glob" /\ g[w] = Box!Resting
  BY LessFields, RestingFields
<1> QED
  BY <1>1

\* What is left to remove, when others remove the oldest files
LEMMA LaunchGone ==
  ASSUME NEW p, NEW alive, Box!Launch(p, alive)
  PROVE  /\ v5' = [w \in Box!Recorders |-> v5'[w]]
         /\ \A w \in Box!Recorders :
               v5'[w] = Less(v5[w], IF v4' < v4 THEN v4 - v4' ELSE 0)
<1>1. v5' = Box!Gone(v5, IF v4' < v4 THEN v4 - v4' ELSE 0, FALSE)
  BY DEF Box!Launch
<1> QED
  BY <1>1 DEF Box!Gone, Less

LEMMA CutGone ==
  ASSUME NEW w, NEW old, NEW raises \in BOOLEAN, Box!Cut(w, old, raises),
         NEW n, NEW rest, n = IF v5[w].drop > old THEN v5[w].drop ELSE old,
         rest = [v5 EXCEPT ![w] = Box!Resting]
  PROVE  /\ v5' = [v \in Box!Recorders |-> v5'[v]]
         /\ \A v \in Box!Recorders :
               \/ v5'[v] = Less(rest[v], n)
               \/ rest[v].pc = "glob" /\ v5'[v] = Box!Resting
<1>1. v5' = Box!Gone(rest, n, raises)
  BY DEF Box!Cut
<1> QED
  BY <1>1 DEF Box!Gone, Less

LEMMA ClearGone ==
  ASSUME Box!ClearPending
  PROVE  /\ v5' = [v \in Box!Recorders |-> v5'[v]]
         /\ \A v \in Box!Recorders :
               \/ v5'[v] = Less(v5[v], v4)
               \/ v5[v].pc = "glob" /\ v5'[v] = Box!Resting
BY DEF Box!ClearPending, Box!Gone, Less

LEMMA BoxLaunchInv ==
  ASSUME Box!BoxInv, NEW p \in Pids, NEW alive \in BOOLEAN, Box!Launch(p, alive)
  PROVE  Box!BoxInv'
<1> USE ReportsAssumption DEF Box!BoxInv, Box!BoxTypeOK
<1> DEFINE told == v1 # "none" /\ ~Box!Alive(alive)
           n == IF v4' < v4 THEN v4 - v4' ELSE 0
<1>1. /\ p \notin v2 /\ v2' = v2 \cup {p} /\ v1' = p
      /\ v4' = IF told /\ v3 THEN Box!Remaining(v4 + 1) ELSE v4
      /\ v8' = (v8 \/ told # v7) /\ v7' = FALSE
      /\ v6' = [hung |-> FALSE, recorded |-> FALSE, noted |-> 0]
      /\ v3' = v3
  BY DEF Box!Launch
<1>2. v4' \in 0..(MaxReports + Surplus) /\ n \in Nat /\ v4 - n <= v4'
      /\ (told /\ v3 => v4' <= MaxReports) /\ (~(told /\ v3) => n = 0 /\ v4' = v4)
  BY <1>1 DEF Box!Remaining
<1>3. /\ v9' \subseteq {"second", "misread", "kept", "raced", "unpruned"}
      /\ v9 \ {"unpruned"} \subseteq v9'
      /\ ~(told /\ v3) => v9 \subseteq v9'
      /\ v2 # {} => "second" \in v9'
      /\ v1 \in Pids /\ alive # (v1 \in v2) => "misread" \in v9'
  BY DEF Box!Launch
<1>4. /\ v5' \in [Box!Recorders -> Box!Recordings]
      /\ \A w \in Box!Recorders :
            /\ v5'[w].pc = v5[w].pc
            /\ v5'[w].drop = IF v5[w].drop > n THEN v5[w].drop - n ELSE 0
  <2>1. /\ v5' = [w \in Box!Recorders |-> v5'[w]]
        /\ \A w \in Box!Recorders :
              v5'[w] = Less(v5[w], n)
    BY LaunchGone
  <2> HIDE DEF n
  <2>2. \A w \in Box!Recorders : v5[w] \in Box!Recordings
    OBVIOUS
  <2>3. ASSUME NEW w \in Box!Recorders
        PROVE  /\ v5'[w] \in Box!Recordings /\ v5'[w].pc = v5[w].pc
               /\ v5'[w].drop = IF v5[w].drop > n THEN v5[w].drop - n ELSE 0
    <3>1. v5[w] \in Box!Recordings /\ n \in Nat /\ v5'[w] = Less(v5[w], n)
      BY <1>2, <2>1, <2>2
    <3> HIDE DEF Box!BoxInv, Box!BoxTypeOK
    <3> QED
      BY <3>1, LessFields
  <2> QED
    BY <2>1, <2>3
<1> HIDE DEF n
<1>5. \A w \in Box!Recorders : v5[w].drop \in Nat /\ v5[w].pc \in
            {"none", "mark", "write", "glob", "cut"}
  BY DEF Box!Recordings
<1>6. Box!BoxTypeOK'
  <2>1. \A w \in Box!Recorders : /\ v5'[w].pc = "mark" => w = Watchdog
                                 /\ v5'[w].drop <= v4'
    BY <1>2, <1>4, <1>5
  <2> QED
    BY <1>1, <1>2, <1>3, <1>4, <2>1
<1>7. Box!MarkerTells'
  BY <1>1, <1>3 DEF Box!MarkerTells, Box!Alive
<1>8. Box!HangsOnce'
  BY <1>1 DEF Box!HangsOnce
<1>9. Box!PruningIsDue'
  <2>1. CASE told /\ v3
    BY <2>1, <1>2 DEF Box!PruningIsDue
  <2>2. CASE ~(told /\ v3)
    BY <2>2, <1>2, <1>3, <1>4, <1>5 DEF Box!PruningIsDue, Box!Prunes
  <2> QED
    BY <2>1, <2>2
<1> QED
  BY <1>6, <1>7, <1>8, <1>9

LEMMA BoxEndInv ==
  ASSUME Box!BoxInv,
         NEW p \in Pids, NEW yes \in BOOLEAN, Box!Quit(p, yes) \/ Box!Dies(p)
  PROVE  Box!BoxInv'
<1> USE ReportsAssumption DEF Box!BoxInv, Box!BoxTypeOK
<1>1. /\ v5' = [w \in Box!Recorders |-> Box!Resting]
      /\ v2' = v2 \ {p} /\ p \in v2 /\ UNCHANGED <<v3, v4, v6, v8>>
      /\ v9 \subseteq v9' /\ Box!Unpruned \subseteq v9'
  BY DEF Box!Quit, Box!Dies
<1>2. v9' \subseteq {"second", "misread", "kept", "raced", "unpruned"}
  BY DEF Box!Quit, Box!Dies, Box!Unpruned
<1>3. /\ v5' \in [Box!Recorders -> Box!Recordings]
      /\ \A w \in Box!Recorders : v5'[w].pc = "none" /\ v5'[w].drop = 0
  BY <1>1, RestingFields
<1>4. v1' \in Pids \cup {"none", "garbled"} /\ v7' \in BOOLEAN
  BY DEF Box!Quit, Box!Dies
<1>5. Box!BoxTypeOK'
  BY <1>1, <1>2, <1>3, <1>4
<1>6. Box!MarkerTells'
  <2>1. CASE Box!Quit(p, yes)
    BY <1>1, <2>1 DEF Box!MarkerTells, Box!Quit
  <2>2. CASE Box!Dies(p)
    BY <1>1, <2>2 DEF Box!MarkerTells, Box!Dies
  <2> QED
    BY <2>1, <2>2
<1>7. Box!HangsOnce'
  BY <1>1, <1>3 DEF Box!HangsOnce, Box!Recorders
<1>8. Box!PruningIsDue'
  BY <1>1, <1>3 DEF Box!PruningIsDue, Box!Unpruned, Box!Prunes
<1> QED
  BY <1>5, <1>6, <1>7, <1>8

\* A step of one recorder that lets the queue grow at most
LEMMA BoxRecorderInv ==
  ASSUME Box!BoxInv, NEW w \in Box!Recorders, NEW e \in Box!Recordings,
         v5' = [v5 EXCEPT ![w] = e], v4' \in 0..(MaxReports + Surplus),
         UNCHANGED <<v1, v2, v3, v7, v8, v9>>,
         Box!HangsOnce', v6' \in [hung : BOOLEAN, recorded : BOOLEAN, noted : Nat],
         e.pc = "mark" => w = Watchdog, e.drop <= v4', v4 <= v4',
         \/ e.pc = "glob"
         \/ e.pc = "cut" /\ v4' <= MaxReports + e.drop
         \/ v4' = v4 /\ e.pc \notin {"glob", "cut"} /\ v5[w].pc \notin {"glob", "cut"}
  PROVE  Box!BoxInv'
<1> USE ReportsAssumption DEF Box!BoxInv, Box!BoxTypeOK
<1>1. /\ v5' \in [Box!Recorders -> Box!Recordings] /\ v5'[w] = e
      /\ \A v \in Box!Recorders \ {w} : v5'[v] = v5[v]
  OBVIOUS
<1>2. \A v \in Box!Recorders : v5[v].drop \in Nat
  BY DEF Box!Recordings
<1>3. \A v \in Box!Recorders : /\ v5'[v].pc = "mark" => v = Watchdog
                               /\ v5'[v].drop <= v4'
  BY <1>1, <1>2
<1>4. Box!BoxTypeOK'
  BY <1>1, <1>3
<1>5. Box!MarkerTells'
  BY DEF Box!MarkerTells
<1>6. Box!PruningIsDue'
  <2>1. CASE e.pc = "glob" \/ (e.pc = "cut" /\ v4' <= MaxReports + e.drop)
    BY <1>1, <2>1 DEF Box!PruningIsDue, Box!Prunes
  <2>2. CASE v4' = v4 /\ e.pc \notin {"glob", "cut"} /\ v5[w].pc \notin {"glob", "cut"}
    BY <1>1, <2>2 DEF Box!PruningIsDue, Box!Prunes
  <2> QED
    BY <2>1, <2>2
<1> QED
  BY <1>4, <1>5, <1>6

LEMMA WritingInv ==
  ASSUME Box!BoxInv, NEW w \in Box!Recorders,
         Box!Exception(w) \/ Box!WriteReport(w) \/ Box!List(w)
  PROVE  Box!BoxInv'
<1> USE ReportsAssumption
<1>0. Box!HangsOnce /\ Box!BoxTypeOK
  BY DEF Box!BoxInv
<1>a. /\ v6 \in [hung : BOOLEAN, recorded : BOOLEAN, noted : Nat]
      /\ v4 \in 0..(MaxReports + Surplus) /\ v4 \in Nat /\ v6.noted \in Nat
  BY <1>0 DEF Box!BoxTypeOK
<1>1. v5[w] \in Box!Recordings /\ v5[w].drop \in Nat /\ v5[w].drop <= v4
  BY <1>0 DEF Box!BoxTypeOK, Box!Recordings
<1>2. Watchdog \in Box!Recorders
  BY DEF Box!Recorders
<1>3. CASE Box!Exception(w)
  <2> DEFINE e == [v5[w] EXCEPT !.pc = "write"]
  <2>1. e \in Box!Recordings /\ e.pc = "write" /\ e.drop = v5[w].drop
    BY <1>1 DEF Box!Recordings
  <2>2. v5' = [v5 EXCEPT ![w] = e] /\ v5[w].pc = "none"
        /\ UNCHANGED <<v1, v2, v3, v4, v6, v7, v8, v9>>
    BY <1>3 DEF Box!Exception
  <2> HIDE DEF e
  <2>3. Box!HangsOnce'
    BY <1>0, <1>a, <1>2, <2>1, <2>2 DEF Box!HangsOnce
  <2>4. /\ v4' \in 0..(MaxReports + Surplus) /\ e.drop <= v4' /\ v4 <= v4'
        /\ v6' \in [hung : BOOLEAN, recorded : BOOLEAN, noted : Nat]
    BY <1>a, <1>1, <2>1, <2>2
  <2>6. v4' = v4 /\ e.pc \notin {"glob", "cut"} /\ v5[w].pc \notin {"glob", "cut"}
    BY <2>1, <2>2
  <2>5. UNCHANGED <<v1, v2, v3, v7, v8, v9>>
    BY <2>2
  <2> QED
    BY <2>1, <2>2, <2>3, <2>4, <2>5, <2>6, BoxRecorderInv
<1>4. CASE Box!WriteReport(w) /\ v3
  <2> DEFINE e == [v5[w] EXCEPT !.pc = "glob"]
  <2>1. e \in Box!Recordings /\ e.pc = "glob" /\ e.drop = v5[w].drop
    BY <1>1 DEF Box!Recordings
  <2>2. v5' = [v5 EXCEPT ![w] = e] /\ v4' = v4 + 1
        /\ v4 < MaxReports + Surplus
        /\ UNCHANGED <<v1, v2, v3, v6, v7, v8, v9>>
    BY <1>4 DEF Box!WriteReport
  <2> HIDE DEF e
  <2>3. Box!HangsOnce'
    BY <1>0, <1>a, <1>2, <2>1, <2>2 DEF Box!HangsOnce
  <2>4. /\ v4' \in 0..(MaxReports + Surplus) /\ e.drop <= v4' /\ v4 <= v4'
        /\ v6' \in [hung : BOOLEAN, recorded : BOOLEAN, noted : Nat]
    BY <1>a, <1>1, <2>1, <2>2
  <2>5. UNCHANGED <<v1, v2, v3, v7, v8, v9>>
    BY <2>2
  <2> QED
    BY <2>1, <2>2, <2>3, <2>4, <2>5, BoxRecorderInv
<1>5. CASE Box!WriteReport(w) /\ ~v3
  <2>1. Box!Resting \in Box!Recordings /\ Box!Resting.pc = "none"
        /\ Box!Resting.drop = 0
    BY RestingFields
  <2>2. v5' = [v5 EXCEPT ![w] = Box!Resting] /\ v5[w].pc = "write"
        /\ UNCHANGED <<v1, v2, v3, v4, v6, v7, v8, v9>>
    BY <1>5 DEF Box!WriteReport
  <2>3. Box!HangsOnce'
    BY <1>0, <1>a, <1>2, <2>1, <2>2 DEF Box!HangsOnce
  <2>4. /\ v4' \in 0..(MaxReports + Surplus) /\ Box!Resting.drop <= v4' /\ v4 <= v4'
        /\ v6' \in [hung : BOOLEAN, recorded : BOOLEAN, noted : Nat]
    BY <1>a, <1>1, <2>1, <2>2
  <2>6. /\ v4' = v4 /\ Box!Resting.pc \notin {"glob", "cut"}
        /\ v5[w].pc \notin {"glob", "cut"}
    BY <2>1, <2>2
  <2>5. UNCHANGED <<v1, v2, v3, v7, v8, v9>>
    BY <2>2
  <2> QED
    BY <2>1, <2>2, <2>3, <2>4, <2>5, <2>6, BoxRecorderInv
<1>6. CASE Box!List(w)
  <2> DEFINE e == [pc |-> "cut", drop |-> IF v4 > MaxReports THEN v4 - MaxReports ELSE 0]
  <2>1. e \in Box!Recordings /\ e.pc = "cut" /\ e.drop <= v4 /\ v4 <= MaxReports + e.drop
    BY <1>a DEF Box!BoxTypeOK, Box!Recordings
  <2>2. v5' = [v5 EXCEPT ![w] = e] /\ v5[w].pc = "glob"
        /\ UNCHANGED <<v1, v2, v3, v4, v6, v7, v8, v9>>
    BY <1>6 DEF Box!List
  <2> HIDE DEF e
  <2>3. Box!HangsOnce'
    BY <1>0, <1>a, <1>2, <2>1, <2>2 DEF Box!HangsOnce
  <2>4. /\ v4' \in 0..(MaxReports + Surplus) /\ e.drop <= v4' /\ v4 <= v4'
        /\ v6' \in [hung : BOOLEAN, recorded : BOOLEAN, noted : Nat]
    BY <1>a, <1>1, <2>1, <2>2
  <2>5. UNCHANGED <<v1, v2, v3, v7, v8, v9>>
    BY <2>2
  <2> QED
    BY <2>1, <2>2, <2>3, <2>4, <2>5, BoxRecorderInv
<1> QED
  BY <1>3, <1>4, <1>5, <1>6

LEMMA WatchdogInv ==
  ASSUME Box!BoxInv, Box!WatchdogLooks \/ Box!WatchdogMarks
  PROVE  Box!BoxInv'
<1> USE ReportsAssumption
<1>0. Box!HangsOnce /\ Box!BoxTypeOK
  BY DEF Box!BoxInv
<1>a. /\ v6 \in [hung : BOOLEAN, recorded : BOOLEAN, noted : Nat]
      /\ v4 \in 0..(MaxReports + Surplus) /\ v4 \in Nat /\ v6.noted \in Nat
  BY <1>0 DEF Box!BoxTypeOK
<1>1. Watchdog \in Box!Recorders /\ v5[Watchdog] \in Box!Recordings
      /\ v5[Watchdog].drop \in Nat /\ v5[Watchdog].drop <= v4
  BY <1>0 DEF Box!BoxTypeOK, Box!Recordings, Box!Recorders
<1>2. CASE Box!WatchdogLooks
  <2> DEFINE e == [v5[Watchdog] EXCEPT !.pc = "mark"]
  <2>1. e \in Box!Recordings /\ e.pc = "mark" /\ e.drop = v5[Watchdog].drop
    BY <1>1 DEF Box!Recordings
  <2>2. v5' = [v5 EXCEPT ![Watchdog] = e] /\ v5[Watchdog].pc = "none" /\ ~v6.recorded
        /\ UNCHANGED <<v1, v2, v3, v4, v6, v7, v8, v9>>
    BY <1>2 DEF Box!WatchdogLooks
  <2> HIDE DEF e
  <2>3. Box!HangsOnce'
    BY <1>0, <1>a, <1>1, <2>1, <2>2 DEF Box!HangsOnce
  <2>4. /\ v4' \in 0..(MaxReports + Surplus) /\ e.drop <= v4' /\ v4 <= v4'
        /\ v6' \in [hung : BOOLEAN, recorded : BOOLEAN, noted : Nat]
    BY <1>a, <1>1, <2>1, <2>2
  <2>6. /\ v4' = v4 /\ e.pc \notin {"glob", "cut"}
        /\ v5[Watchdog].pc \notin {"glob", "cut"}
    BY <2>1, <2>2
  <2>5. UNCHANGED <<v1, v2, v3, v7, v8, v9>>
    BY <2>2
  <2> QED
    BY <2>1, <2>2, <2>3, <2>4, <2>5, <2>6, <1>1, BoxRecorderInv
<1>3. CASE Box!WatchdogMarks
  <2> DEFINE e == [v5[Watchdog] EXCEPT !.pc = "write"]
             t == [v6 EXCEPT !.recorded = TRUE]
             u == [t EXCEPT !.noted = @ + 1]
  <2>1. e \in Box!Recordings /\ e.pc = "write" /\ e.drop = v5[Watchdog].drop
    BY <1>1 DEF Box!Recordings
  <2>a. /\ t \in [hung : BOOLEAN, recorded : BOOLEAN, noted : Nat]
        /\ t.recorded = TRUE /\ t.noted = v6.noted
    BY <1>a
  <2>2. /\ u \in [hung : BOOLEAN, recorded : BOOLEAN, noted : Nat]
        /\ u.recorded = TRUE /\ u.noted = v6.noted + 1
    <3> HIDE DEF t
    <3> QED
      BY <1>a, <2>a
  <2>3. v5' = [v5 EXCEPT ![Watchdog] = e] /\ v5[Watchdog].pc = "mark" /\ v6' = u
        /\ UNCHANGED <<v1, v2, v3, v4, v7, v8, v9>>
    BY <1>3 DEF Box!WatchdogMarks
  <2> HIDE DEF e, u
  <2>b. v5'[Watchdog] = e
    BY <1>0, <1>1, <2>3 DEF Box!BoxTypeOK
  <2>c. v6.noted = 0
    BY <1>0, <2>3 DEF Box!HangsOnce
  <2>7. Box!HangsOnce'
    BY <2>1, <2>2, <2>3, <2>b, <2>c DEF Box!HangsOnce
  <2>4. /\ v4' \in 0..(MaxReports + Surplus) /\ e.drop <= v4' /\ v4 <= v4'
        /\ v6' \in [hung : BOOLEAN, recorded : BOOLEAN, noted : Nat]
    BY <1>a, <1>1, <2>1, <2>2, <2>3
  <2>6. /\ v4' = v4 /\ e.pc \notin {"glob", "cut"}
        /\ v5[Watchdog].pc \notin {"glob", "cut"}
    BY <2>1, <2>3
  <2>5. UNCHANGED <<v1, v2, v3, v7, v8, v9>>
    BY <2>3
  <2> QED
    BY <2>1, <2>2, <2>3, <2>7, <2>4, <2>5, <2>6, <1>1, BoxRecorderInv
<1> QED
  BY <1>2, <1>3

LEMMA CutInv ==
  ASSUME Box!BoxInv, NEW w \in Box!Recorders, NEW old \in 0..v4,
         NEW raises \in BOOLEAN, Box!Cut(w, old, raises)
  PROVE  Box!BoxInv'
<1> USE ReportsAssumption DEF Box!BoxInv, Box!BoxTypeOK
<1> DEFINE n == IF v5[w].drop > old THEN v5[w].drop ELSE old
           rest == [v5 EXCEPT ![w] = Box!Resting]
<1>1. v5[w].drop \in Nat /\ v5[w].drop <= v4 /\ v4 \in Nat
  BY DEF Box!Recordings
<1>2. n \in Nat /\ n <= v4 /\ n >= v5[w].drop
  BY <1>1
<1>3. /\ v5[w].pc = "cut" /\ v4' = v4 - n
      /\ v9' = (v9 \ {"unpruned"}) \cup
                  (IF \E v \in Box!Recorders : v5[v].pc = "glob" /\ v5'[v].pc = "none"
                   THEN {"raced"} ELSE {})
      /\ UNCHANGED <<v1, v2, v3, v6, v7, v8>>
  BY DEF Box!Cut
<1>4. /\ rest \in [Box!Recorders -> Box!Recordings] /\ rest[w] = Box!Resting
      /\ \A v \in Box!Recorders \ {w} : rest[v] = v5[v]
  BY RestingFields
<1> HIDE DEF n, rest
<1>5. /\ v5' \in [Box!Recorders -> Box!Recordings]
      /\ \A v \in Box!Recorders :
            \/ /\ v5'[v].pc = rest[v].pc
               /\ v5'[v].drop = IF rest[v].drop > n THEN rest[v].drop - n ELSE 0
            \/ rest[v].pc = "glob" /\ v5'[v] = Box!Resting
  <2>1. /\ n = IF v5[w].drop > old THEN v5[w].drop ELSE old
        /\ rest = [v5 EXCEPT ![w] = Box!Resting]
    BY DEF n, rest
  <2>2. /\ v5' = [v \in Box!Recorders |-> v5'[v]]
        /\ \A v \in Box!Recorders :
              \/ v5'[v] = Less(rest[v], n)
              \/ rest[v].pc = "glob" /\ v5'[v] = Box!Resting
    BY <2>1, CutGone
  <2> HIDE DEF Box!BoxInv, Box!BoxTypeOK
  <2> QED
    BY <1>2, <1>4, <2>2, LessAll
<1>6. \A v \in Box!Recorders : /\ rest[v].drop \in Nat /\ rest[v].drop <= v4
                               /\ rest[v].pc = "mark" => v = Watchdog /\ v5[v].pc = "mark"
  <2>1. rest[w].drop \in Nat /\ rest[w].drop <= v4 /\ rest[w].pc # "mark"
    BY <1>1, <1>4, RestingFields
  <2>2. \A v \in Box!Recorders \ {w} : v5[v].drop \in Nat
    BY DEF Box!Recordings
  <2> QED
    BY <1>4, <2>1, <2>2
<1>7. Box!BoxTypeOK'
  <2>1. \A v \in Box!Recorders : /\ v5'[v].pc = "mark" => v = Watchdog
                                 /\ v5'[v].drop <= v4'
    BY <1>1, <1>2, <1>3, <1>5, <1>6, RestingFields
  <2>2. v4' \in 0..(MaxReports + Surplus)
    BY <1>1, <1>2, <1>3
  <2>3. v9' \subseteq {"second", "misread", "kept", "raced", "unpruned"}
    BY <1>3
  <2> QED
    BY <1>3, <1>5, <2>1, <2>2, <2>3
<1>8. Box!MarkerTells'
  BY <1>3 DEF Box!MarkerTells
<1>9. Box!HangsOnce'
  <2>1. Watchdog \in Box!Recorders
    BY DEF Box!Recorders
  <2>2. v5'[Watchdog].pc = "mark" => v5[Watchdog].pc = "mark"
    BY <1>5, <1>6, <2>1, RestingFields
  <2> QED
    BY <1>3, <2>2 DEF Box!HangsOnce
<1>10. Box!PruningIsDue'
  <2> SUFFICES ASSUME "raced" \notin v9', ~(v4' <= MaxReports)
               PROVE  \E v \in Box!Recorders : Box!Prunes(v)'
    BY DEF Box!PruningIsDue
  <2>1. "raced" \notin v9 /\ ~(v4 <= MaxReports)
    BY <1>1, <1>2, <1>3
  <2>2. PICK v \in Box!Recorders : Box!Prunes(v)
    BY <1>3, <2>1 DEF Box!PruningIsDue
  <2>3. v # w
    BY <1>1, <1>2, <1>3, <2>2 DEF Box!Prunes
  <2>4. rest[v] = v5[v] /\ v5[v].drop \in Nat
    BY <1>4, <2>3 DEF Box!Recordings
  <2>5. v5'[v].pc = v5[v].pc
    BY <1>3, <1>5, <2>4, RestingFields
  <2>6. CASE v5[v].pc = "glob"
    BY <2>5, <2>6 DEF Box!Prunes
  <2>7. CASE v5[v].pc = "cut" /\ v4 <= MaxReports + v5[v].drop
    <3>1. v5'[v].drop = IF v5[v].drop > n THEN v5[v].drop - n ELSE 0
      BY <1>5, <2>4, <2>7
    <3> QED
      BY <1>1, <1>2, <1>3, <2>4, <2>5, <2>7, <3>1 DEF Box!Prunes
  <2> QED
    BY <2>2, <2>6, <2>7 DEF Box!Prunes
<1> QED
  BY <1>7, <1>8, <1>9, <1>10

LEMMA ClearPendingInv ==
  ASSUME Box!BoxInv, Box!ClearPending
  PROVE  Box!BoxInv'
<1> USE ReportsAssumption DEF Box!BoxInv, Box!BoxTypeOK
<1>1. /\ v4' = 0 /\ v9' = v9 \ {"unpruned"}
      /\ UNCHANGED <<v1, v2, v3, v6, v7, v8>> /\ v4 \in Nat
  BY DEF Box!ClearPending
<1>2. /\ v5' \in [Box!Recorders -> Box!Recordings]
      /\ \A v \in Box!Recorders :
            \/ /\ v5'[v].pc = v5[v].pc
               /\ v5'[v].drop = IF v5[v].drop > v4 THEN v5[v].drop - v4 ELSE 0
            \/ v5'[v] = Box!Resting
  <2>1. /\ v5' = [v \in Box!Recorders |-> v5'[v]]
        /\ \A v \in Box!Recorders :
              \/ v5'[v] = Less(v5[v], v4)
              \/ v5[v].pc = "glob" /\ v5'[v] = Box!Resting
    BY ClearGone
  <2>2. v5 \in [Box!Recorders -> Box!Recordings]
    OBVIOUS
  <2> HIDE DEF Box!BoxInv, Box!BoxTypeOK
  <2>3. v4 \in Nat
    BY <1>1
  <2> QED
    BY <2>1, <2>2, <2>3, LessAll
<1>3. \A v \in Box!Recorders : v5[v].drop \in Nat
  BY DEF Box!Recordings
<1>4. \A v \in Box!Recorders : /\ v5'[v].drop <= v4'
                               /\ v5'[v].pc = "mark" => v5[v].pc = "mark"
  BY <1>1, <1>2, <1>3, RestingFields
<1>5. Box!BoxTypeOK'
  BY <1>1, <1>2, <1>4
<1>6. Box!MarkerTells'
  BY <1>1 DEF Box!MarkerTells
<1>7. Box!HangsOnce'
  BY <1>1, <1>4 DEF Box!HangsOnce, Box!Recorders
<1>8. Box!PruningIsDue'
  BY <1>1 DEF Box!PruningIsDue
<1> QED
  BY <1>5, <1>6, <1>7, <1>8

LEMMA BoxRestInv ==
  ASSUME Box!BoxInv, NEW yes \in BOOLEAN,
         \/ Box!LaunchDies(yes) \/ Box!SetEnabled(yes)
         \/ Box!UiHangs \/ Box!Heartbeat
  PROVE  Box!BoxInv'
<1> USE ReportsAssumption DEF Box!BoxInv, Box!BoxTypeOK
<1>1. UNCHANGED <<v2, v4, v5, v8, v9>>
  BY DEF Box!LaunchDies, Box!SetEnabled, Box!UiHangs, Box!Heartbeat
<1>2. Box!PruningIsDue'
  BY <1>1 DEF Box!PruningIsDue, Box!Prunes
<1>3. CASE Box!LaunchDies(yes)
  BY <1>1, <1>2, <1>3 DEF Box!LaunchDies, Box!MarkerTells, Box!HangsOnce
<1>4. CASE Box!SetEnabled(yes)
  BY <1>1, <1>2, <1>4 DEF Box!SetEnabled, Box!MarkerTells, Box!HangsOnce
<1>5. CASE Box!UiHangs
  <2> DEFINE u == [v6 EXCEPT !.hung = TRUE]
  <2>1. /\ u \in [hung : BOOLEAN, recorded : BOOLEAN, noted : Nat]
        /\ u.recorded = v6.recorded /\ u.noted = v6.noted
    OBVIOUS
  <2>2. v6' = u /\ UNCHANGED <<v1, v3, v7>>
    BY <1>5 DEF Box!UiHangs
  <2> HIDE DEF u
  <2> QED
    BY <1>1, <1>2, <2>1, <2>2 DEF Box!MarkerTells, Box!HangsOnce
<1>6. CASE Box!Heartbeat
  BY <1>1, <1>2, <1>6 DEF Box!Heartbeat, Box!MarkerTells, Box!HangsOnce
<1> QED
  BY <1>3, <1>4, <1>5, <1>6

LEMMA BoxInvariance == Spec => [](part = "blackbox" => Box!BoxInv)
<1>1. Init => (part = "blackbox" => Box!BoxInv)
  <2> SUFFICES ASSUME Init, part = "blackbox" PROVE Box!BoxInv
    OBVIOUS
  <2>1. Box!BoxInit
    BY DEF Init
  <2>2. /\ v5 = [w \in Box!Recorders |-> Box!Resting] /\ v4 = 0
        /\ v6 = [hung |-> FALSE, recorded |-> FALSE, noted |-> 0]
        /\ v1 = "none" /\ v2 = {} /\ v3 = TRUE /\ v7 = FALSE /\ v8 = FALSE /\ v9 = {}
    BY <2>1 DEF Box!BoxInit
  <2>3. \A w \in Box!Recorders : v5[w] = Box!Resting
    BY <2>2
  <2>4. Box!BoxTypeOK
    <3>1. v5 \in [Box!Recorders -> Box!Recordings] /\ v4 \in 0..(MaxReports + Surplus)
      BY <2>2, RestingFields, ReportsAssumption
    <3>2. \A w \in Box!Recorders : /\ v5[w].pc = "mark" => w = Watchdog
                                   /\ v5[w].drop <= v4
      BY <2>2, <2>3, RestingFields
    <3>3. v6 \in [hung : BOOLEAN, recorded : BOOLEAN, noted : Nat]
      BY <2>2
    <3> QED
      BY <2>2, <3>1, <3>2, <3>3 DEF Box!BoxTypeOK
  <2>5. Box!MarkerTells /\ Box!PruningIsDue
    BY <2>2, ReportsAssumption DEF Box!MarkerTells, Box!PruningIsDue
  <2>6. Box!HangsOnce
    BY <2>2, <2>3, RestingFields DEF Box!HangsOnce, Box!Recorders
  <2> QED
    BY <2>4, <2>5, <2>6 DEF Box!BoxInv
<1>2. (part = "blackbox" => Box!BoxInv) /\ [Next]_vars
         => (part = "blackbox" => Box!BoxInv)'
  <2> SUFFICES ASSUME part = "blackbox", Box!BoxInv,
                      Box!BoxNext \/ UNCHANGED Box!boxVars
               PROVE  Box!BoxInv'
    BY PartSteps
  <2>1. CASE UNCHANGED Box!boxVars
    BY <2>1 DEF Box!boxVars, Box!BoxInv, Box!BoxTypeOK, Box!MarkerTells,
       Box!HangsOnce, Box!PruningIsDue, Box!Prunes
  <2>2. ASSUME NEW p \in Pids, NEW yes \in BOOLEAN,
               Box!Launch(p, yes) \/ Box!Quit(p, yes) \/ Box!Dies(p)
        PROVE  Box!BoxInv'
    BY <2>2, BoxLaunchInv, BoxEndInv
  <2>3. ASSUME NEW yes \in BOOLEAN, Box!LaunchDies(yes) \/ Box!SetEnabled(yes)
        PROVE  Box!BoxInv'
    BY <2>3, BoxRestInv
  <2>4. ASSUME NEW w \in Box!Recorders,
               \/ Box!Exception(w) \/ Box!WriteReport(w) \/ Box!List(w)
               \/ \E old \in 0..v4, raises \in BOOLEAN : Box!Cut(w, old, raises)
        PROVE  Box!BoxInv'
    BY <2>4, WritingInv, CutInv
  <2>5. CASE \/ Box!ClearPending \/ Box!UiHangs \/ Box!Heartbeat
             \/ Box!WatchdogLooks \/ Box!WatchdogMarks
    <3>1. TRUE \in BOOLEAN
      OBVIOUS
    <3>2. CASE Box!UiHangs \/ Box!Heartbeat
      BY <3>1, <3>2, BoxRestInv
    <3> QED
      BY <2>5, <3>2, ClearPendingInv, WatchdogInv
  <2> QED
    BY <2>1, <2>2, <2>3, <2>4, <2>5 DEF Box!BoxNext
<1> QED
  BY <1>1, <1>2, PTL DEF Spec

(***************************************************************************)
(* However instances start, end and crash and threads report: a start      *)
(* tells of an unclean end exactly when there was one, a hang is reported  *)
(* once, and the reports stay within their bound when none is being        *)
(* written (crash_service.py) - except for the reasons that the history    *)
(* names.                                                                  *)
(***************************************************************************)
THEOREM BlackboxRight == Spec => []BlackboxTells
<1>1. (part = "blackbox" => Box!BoxInv) => BlackboxTells
  <2> SUFFICES ASSUME part = "blackbox", Box!BoxInv PROVE Box!BlackboxTells
    BY DEF BlackboxTells
  <2>1. v8 => v9 \cap {"second", "misread", "kept"} # {}
    BY DEF Box!BoxInv, Box!MarkerTells
  <2>2. v6.noted <= 1
    BY DEF Box!BoxInv, Box!HangsOnce
  <2>3. (\A w \in Box!Recorders : v5[w].pc = "none") /\ v4 > MaxReports =>
           v9 \cap {"raced", "unpruned"} # {}
    BY ReportsAssumption DEF Box!BoxInv, Box!BoxTypeOK, Box!PruningIsDue, Box!Prunes
  <2> QED
    BY <2>1, <2>2, <2>3 DEF Box!BlackboxTells
<1> QED
  BY <1>1, BoxInvariance, PTL

-------------------------------------------------------------------------------
(***************************************************************************)
(* Monitors: v1 to v11 are net, answering, dns, tunnel, context, bad,      *)
(* probe, shows, fails, warned and crossed                                 *)
(***************************************************************************)
\* The steps that leave the other monitors alone: their probe is p afterwards.
LEMMA ProbedInv ==
  ASSUME Watch!MonitorInv, NEW p \in Watch!Looks, v7' = p,
         p.pc # "none" => p.before # NoContext,
         v1' \in Networks, v2' \subseteq Servers, v3' \in Servers \cup {NoServer},
         v4' \in BOOLEAN, v5' \in Networks \cup {NoContext},
         v6' \in 0..(Bad + Slack), v9' \in 0..(Bad + Slack), v8' = v8,
         v10' \in BOOLEAN, v11' \in BOOLEAN,
         v11' = FALSE =>
            /\ v10' = TRUE => v9' >= Bad
            /\ p.pc \in {"look", "ask", "done"} => p.server = v3'
            /\ p.pc = "done" /\ p.health = "bad" /\ v6' < Bad + Slack => v9' > v6'
            /\ p.pc # "done" \/ p.health = "none" => v9' >= v6'
  PROVE  Watch!MonitorInv'
<1>1. Watch!MonitorTypeOK'
  BY DEF Watch!MonitorInv, Watch!MonitorTypeOK
<1>2. Watch!CountsWhatFailed'
  BY DEF Watch!CountsWhatFailed
<1>3. Watch!NoneIsStuck'
  BY DEF Watch!MonitorInv, Watch!NoneIsStuck
<1> QED
  BY <1>1, <1>2, <1>3 DEF Watch!MonitorInv

\* What MonitorInv says of a probe, in the form of ProbedInv
LEMMA ProbeKnown ==
  ASSUME Watch!MonitorInv
  PROVE  /\ v7 \in Watch!Looks /\ (v7.pc # "none" => v7.before # NoContext)
         /\ v1 \in Networks /\ v2 \subseteq Servers /\ v3 \in Servers \cup {NoServer}
         /\ v4 \in BOOLEAN /\ v5 \in Networks \cup {NoContext}
         /\ v6 \in 0..(Bad + Slack) /\ v9 \in 0..(Bad + Slack)
         /\ v10 \in BOOLEAN /\ v11 \in BOOLEAN
         /\ v6 \in Nat /\ v9 \in Nat /\ v6 <= Bad + Slack /\ v9 <= Bad + Slack
         /\ v11 = FALSE =>
              /\ v10 = TRUE => v9 >= Bad
              /\ v7.pc \in {"look", "ask", "done"} => v7.server = v3
              /\ v7.pc = "done" /\ v7.health = "bad" /\ v6 < Bad + Slack => v9 > v6
              /\ v7.pc # "done" \/ v7.health = "none" => v9 >= v6
BY FailuresAssumption DEF Watch!MonitorInv, Watch!MonitorTypeOK, Watch!CountsWhatFailed

LEMMA WaitingProbe ==
  /\ Watch!Resting \in Watch!Looks /\ Watch!Resting.pc = "none"
  /\ Watch!Resting.health = "none"
BY DEF Watch!Resting, Watch!Looks, Watch!Healths

LEMMA ChangedInv ==
  ASSUME Watch!MonitorInv, NEW known \in BOOLEAN,
         \/ \E server \in Servers : Watch!DnsConnected(server, known)
         \/ Watch!DnsEnded
         \/ Watch!TunnelConnected(known) \/ Watch!TunnelEnded
  PROVE  Watch!MonitorInv'
<1> USE FailuresAssumption
<1>1. ASSUME NEW moved \in BOOLEAN
      PROVE  LET p == [v7 EXCEPT !.moved = moved]
             IN  /\ p \in Watch!Looks /\ p.pc = v7.pc /\ p.before = v7.before
                 /\ p.server = v7.server /\ p.health = v7.health
  BY ProbeKnown DEF Watch!Looks
<1>2. ASSUME \/ \E server \in Servers : Watch!DnsConnected(server, known)
             \/ Watch!DnsEnded
      PROVE  Watch!MonitorInv'
  <2> DEFINE p == [v7 EXCEPT !.moved = v7.pc # "none"]
  <2>1. /\ v7' = p /\ v6' = 0 /\ v9' = 0 /\ v10' = FALSE
        /\ UNCHANGED <<v1, v2, v4, v8>>
        /\ v11' = (v11 \/ v7.pc \in {"look", "ask", "done"})
        /\ v3' \in Servers \cup {NoServer} /\ v5' \in Networks \cup {NoContext}
    BY <1>2, ProbeKnown DEF Watch!DnsConnected, Watch!DnsEnded, Watch!Changed,
       Watch!Snapshot
  <2>2. p \in Watch!Looks /\ p.pc = v7.pc /\ p.before = v7.before
    BY <1>1
  <2> HIDE DEF p
  <2>3. v11' = FALSE => p.pc \notin {"look", "ask", "done"}
    BY <2>1, <2>2
  <2>4. /\ v6' \in 0..(Bad + Slack) /\ v9' \in 0..(Bad + Slack) /\ v9' >= v6'
    BY <2>1
  <2>5. v10' \in BOOLEAN /\ ~(v10' = TRUE) /\ v11' \in BOOLEAN
    BY <2>1
  <2>6. /\ p.pc # "none" => p.before # NoContext
        /\ v1' \in Networks /\ v2' \subseteq Servers /\ v4' \in BOOLEAN
    BY <2>1, <2>2, ProbeKnown
  <2> QED
    BY <2>1, <2>2, <2>3, <2>4, <2>5, <2>6, ProbedInv
<1>3. ASSUME \/ Watch!TunnelConnected(known) \/ Watch!TunnelEnded
      PROVE  Watch!MonitorInv'
  <2> DEFINE moved == v7.moved \/ v7.pc # "none"
             p == [v7 EXCEPT !.moved = moved]
  <2>1. /\ v7' = p /\ v10' = FALSE
        /\ UNCHANGED <<v1, v2, v3, v6, v8, v9, v11>>
        /\ v4' \in BOOLEAN /\ v5' \in Networks \cup {NoContext}
    BY <1>3, ProbeKnown DEF Watch!TunnelConnected, Watch!TunnelEnded, Watch!Snapshot
  <2>2. /\ p \in Watch!Looks /\ p.pc = v7.pc /\ p.before = v7.before
        /\ p.server = v7.server /\ p.health = v7.health
    BY <1>1
  <2> HIDE DEF p, moved
  <2>3. v11' = FALSE =>
           /\ p.pc \in {"look", "ask", "done"} => p.server = v3'
           /\ p.pc = "done" /\ p.health = "bad" /\ v6' < Bad + Slack => v9' > v6'
           /\ p.pc # "done" \/ p.health = "none" => v9' >= v6'
    BY <2>1, <2>2, ProbeKnown
  <2> QED
    BY <2>1, <2>2, <2>3, ProbeKnown, ProbedInv
<1> QED
  BY <1>2, <1>3

LEMMA OutsideInv ==
  ASSUME Watch!MonitorInv, Watch!Outside
  PROVE  Watch!MonitorInv'
BY ProbeKnown, ProbedInv DEF Watch!Outside

LEMMA TickInv ==
  ASSUME Watch!MonitorInv, Watch!Tick
  PROVE  Watch!MonitorInv'
<1> DEFINE p == [Watch!Resting EXCEPT !.pc = "look", !.before = v5, !.server = v3]
<1>1. /\ p \in Watch!Looks /\ p.pc = "look" /\ p.before = v5 /\ p.server = v3
  BY ProbeKnown DEF Watch!Looks, Watch!Resting, Watch!Healths
<1>2. /\ v7' = p /\ v7.pc = "none" /\ v5 # NoContext /\ v10' = FALSE
      /\ UNCHANGED <<v1, v2, v3, v4, v5, v6, v8, v9, v11>>
  BY DEF Watch!Tick
<1> HIDE DEF p
<1> QED
  BY <1>1, <1>2, ProbeKnown, ProbedInv

LEMMA WatchLookInv ==
  ASSUME Watch!MonitorInv, NEW raises \in BOOLEAN, Watch!Look(raises)
  PROVE  Watch!MonitorInv'
<1>1. /\ v7.pc = "look" /\ v10' = FALSE
      /\ UNCHANGED <<v1, v2, v3, v4, v5, v6, v8, v9, v11>>
      /\ v7' \in {[v7 EXCEPT !.pc = "lost"], [v7 EXCEPT !.pc = "ask", !.now = v1]}
  BY DEF Watch!Look, Watch!Snapshot
<1>2. ASSUME NEW p \in {[v7 EXCEPT !.pc = "lost"], [v7 EXCEPT !.pc = "ask", !.now = v1]}
      PROVE  /\ p \in Watch!Looks /\ p.pc \in {"lost", "ask"}
             /\ p.before = v7.before /\ p.server = v7.server
  BY ProbeKnown DEF Watch!Looks
<1>3. PICK p : /\ v7' = p /\ p \in Watch!Looks /\ p.pc \in {"lost", "ask"}
               /\ p.before = v7.before /\ p.server = v7.server
  BY <1>1, <1>2
<1> QED
  BY <1>1, <1>3, ProbeKnown, ProbedInv

LEMMA AskInv ==
  ASSUME Watch!MonitorInv, Watch!Ask
  PROVE  Watch!MonitorInv'
<1> USE FailuresAssumption
<1> DEFINE h == IF v7.server = NoServer THEN "none"
                ELSE IF v7.server \in v2 THEN "good" ELSE "bad"
           p == [v7 EXCEPT !.pc = "done", !.health = h]
<1>1. /\ v7' = p /\ v7.pc = "ask" /\ v10' = FALSE
      /\ v9' = IF h = "none" \/ v7.server # v3 THEN v9
               ELSE IF h = "good" THEN 0
               ELSE IF v9 < Bad + Slack THEN v9 + 1 ELSE v9
      /\ UNCHANGED <<v1, v2, v3, v4, v5, v6, v8, v11>>
  BY DEF Watch!Ask
<1>2. h \in Watch!Healths
  BY DEF Watch!Healths
<1> HIDE DEF h
<1>3. /\ p \in Watch!Looks /\ p.pc = "done" /\ p.before = v7.before
      /\ p.server = v7.server /\ p.health = h
  BY <1>2, ProbeKnown DEF Watch!Looks
<1> HIDE DEF p
<1>4. v9' \in 0..(Bad + Slack)
  BY <1>1, ProbeKnown
<1>5. ASSUME v11' = FALSE
      PROVE  /\ p.server = v3'
             /\ p.health = "bad" /\ v6' < Bad + Slack => v9' > v6'
             /\ p.health = "none" => v9' >= v6'
  <2>0. v11 = FALSE
    BY <1>1, <1>5
  <2>1. v7.server = v3 /\ v9 >= v6 /\ v9 \in Nat /\ v6 \in Nat
    BY <1>1, <2>0, ProbeKnown
  <2> QED
    BY <1>1, <1>3, <2>1
<1> QED
  BY <1>1, <1>3, <1>4, <1>5, ProbeKnown, ProbedInv

LEMMA CheckedInv ==
  ASSUME Watch!MonitorInv, Watch!Checked
  PROVE  Watch!MonitorInv'
<1> USE FailuresAssumption
<1> DEFINE drifted == Watch!Drifted(v7.before, v7.now)
<1>1. /\ v7' = Watch!Resting /\ v7.pc = "done"
      /\ v7.health = "bad" => v6 < Bad + Slack
      /\ v5' = IF drifted THEN v1 ELSE v5
      /\ v6' = IF drifted \/ v7.health = "good" THEN 0
               ELSE IF v7.health = "bad" THEN v6 + 1 ELSE v6
      /\ v9' = IF drifted THEN 0 ELSE v9
      /\ v10' = (~drifted /\ v3 # NoServer /\ v6' = Bad)
      /\ UNCHANGED <<v1, v2, v3, v4, v8, v11>>
  BY DEF Watch!Checked, Watch!Snapshot
<1> HIDE DEF drifted
<1>2. v7.health \in {"good", "bad", "none"}
  BY ProbeKnown DEF Watch!Looks, Watch!Healths
<1>a. v6 \in Nat /\ v9 \in Nat /\ v6 <= Bad + Slack /\ v9 <= Bad + Slack
  BY ProbeKnown
<1>3. v6' \in 0..(Bad + Slack) /\ v9' \in 0..(Bad + Slack)
  BY <1>1, <1>2, <1>a
<1>b. v11 = FALSE =>
         /\ v7.health = "bad" /\ v6 < Bad + Slack => v9 > v6
         /\ v7.health = "none" => v9 >= v6
  BY <1>1, ProbeKnown
<1>4. v11' = FALSE => v9' >= v6'
  BY <1>1, <1>2, <1>a, <1>b
<1>5. v10' \in BOOLEAN /\ (v10' = TRUE => v6' = Bad)
  BY <1>1
<1> QED
  BY <1>1, <1>3, <1>4, <1>5, WaitingProbe, ProbeKnown, ProbedInv

LEMMA ShowsInv ==
  ASSUME Watch!MonitorInv, NEW m \in Watch!Shows,
         Watch!Starts(m) \/ Watch!Works(m) \/ Watch!Arrives(m)
  PROVE  Watch!MonitorInv'
<1>1. ASSUME NEW busy \in BOOLEAN, NEW pc \in {"none", "work", "done"},
             Watch!Show(m, busy, pc), busy = TRUE => pc # "none"
      PROVE  Watch!MonitorInv'
  <2> DEFINE s == [busy |-> busy, pc |-> pc]
  <2>1. v8' = [v8 EXCEPT ![m] = s] /\ v10' = FALSE
        /\ UNCHANGED <<v1, v2, v3, v4, v5, v6, v7, v9, v11>>
    BY <1>1 DEF Watch!Show
  <2>2. s \in [busy : BOOLEAN, pc : {"none", "work", "done"}]
        /\ s.busy = busy /\ s.pc = pc
    OBVIOUS
  <2> HIDE DEF s
  <2>3. Watch!MonitorTypeOK'
    BY <2>1, <2>2 DEF Watch!MonitorInv, Watch!MonitorTypeOK
  <2>4. Watch!CountsWhatFailed'
    BY <2>1 DEF Watch!MonitorInv, Watch!CountsWhatFailed
  <2>5. Watch!NoneIsStuck'
    BY <1>1, <2>1, <2>2 DEF Watch!MonitorInv, Watch!MonitorTypeOK, Watch!NoneIsStuck
  <2> QED
    BY <2>3, <2>4, <2>5 DEF Watch!MonitorInv
<1>2. CASE Watch!Starts(m)
  BY <1>1, <1>2 DEF Watch!Starts
<1>3. CASE Watch!Works(m)
  <2>1. CASE m = "catalog"
    BY <1>1, <1>3, <2>1 DEF Watch!Works
  <2>2. CASE m = "standby"
    BY <1>1, <1>3, <2>2 DEF Watch!Works
  <2>3. CASE m = "load"
    BY <1>1, <1>3, <2>3 DEF Watch!Works
  <2> QED
    BY <2>1, <2>2, <2>3 DEF Watch!Shows
<1>4. CASE Watch!Arrives(m)
  BY <1>1, <1>4 DEF Watch!Arrives
<1> QED
  BY <1>2, <1>3, <1>4

LEMMA MonitorInvariance == Spec => [](part = "monitors" => Watch!MonitorInv)
<1>1. Init => (part = "monitors" => Watch!MonitorInv)
  <2> SUFFICES ASSUME Init, part = "monitors" PROVE Watch!MonitorInv
    OBVIOUS
  <2>1. Watch!MonitorInit
    BY DEF Init
  <2>2. \A m \in Watch!Shows : v8[m].busy = FALSE
    BY <2>1 DEF Watch!MonitorInit
  <2>3. v8 \in [Watch!Shows -> [busy : BOOLEAN, pc : {"none", "work", "done"}]]
    BY <2>1 DEF Watch!MonitorInit
  <2>4. Watch!MonitorTypeOK
    <3>1. 0 \in 0..(Bad + Slack)
      BY FailuresAssumption
    <3> QED
      BY <2>1, <2>3, <3>1, WaitingProbe DEF Watch!MonitorInit, Watch!MonitorTypeOK
  <2> QED
    BY <2>1, <2>2, <2>4, WaitingProbe, FailuresAssumption
       DEF Watch!MonitorInit, Watch!MonitorInv, Watch!CountsWhatFailed, Watch!NoneIsStuck
<1>2. (part = "monitors" => Watch!MonitorInv) /\ [Next]_vars
         => (part = "monitors" => Watch!MonitorInv)'
  <2> SUFFICES ASSUME part = "monitors", Watch!MonitorInv,
                      Watch!MonitorNext \/ UNCHANGED Watch!monitorVars
               PROVE  Watch!MonitorInv'
    BY PartSteps
  <2>1. CASE UNCHANGED Watch!monitorVars
    BY <2>1 DEF Watch!monitorVars, Watch!MonitorInv, Watch!MonitorTypeOK,
       Watch!CountsWhatFailed, Watch!NoneIsStuck
  <2>2. ASSUME NEW yes \in BOOLEAN,
               \/ Watch!TunnelConnected(yes) \/ Watch!Look(yes)
               \/ \E server \in Servers : Watch!DnsConnected(server, yes)
        PROVE  Watch!MonitorInv'
    BY <2>2, ChangedInv, WatchLookInv
  <2>3. CASE Watch!DnsEnded \/ Watch!TunnelEnded
    <3>1. TRUE \in BOOLEAN
      OBVIOUS
    <3> QED
      BY <2>3, <3>1, ChangedInv
  <2> QED
    BY <2>1, <2>2, <2>3, OutsideInv, TickInv, AskInv, CheckedInv, ShowsInv
       DEF Watch!MonitorNext
<1> QED
  BY <1>1, <1>2, PTL DEF Spec

(***************************************************************************)
(* The warning that the connected server no longer answers has a cause,    *)
(* however probes, changes of the connection and their handlers interleave *)
(* (main_viewmodel.py:440-490).                                            *)
(***************************************************************************)
THEOREM WarnedRight == Spec => [](part = "monitors" => Watch!WarnedWithCause)
<1>1. (part = "monitors" => Watch!MonitorInv)
         => (part = "monitors" => Watch!WarnedWithCause)
  BY DEF Watch!MonitorInv, Watch!CountsWhatFailed, Watch!NoneIsStuck,
     Watch!WarnedWithCause
<1> QED
  BY <1>1, MonitorInvariance, PTL

-------------------------------------------------------------------------------
(***************************************************************************)
(* RouteLearning: v1 to v6 are profile, worker, pktmon, path, written and  *)
(* marred                                                                  *)
(***************************************************************************)
LEMMA IdleLearner ==
  /\ Learning!Idle \in Learning!Learnings /\ Learning!Idle.pc = "none"
  /\ Learning!Measures(Learning!Idle)
BY LearningAssumption DEF Learning!Idle, Learning!Learnings, Learning!Measures,
   Learning!Unknown

\* A step of one worker, which leaves the profile alone.
LEMMA LearnerStep ==
  ASSUME Learning!LearnInv, NEW w \in Learning!Observers, NEW e \in Learning!Learnings,
         v2' = [v2 EXCEPT ![w] = e], UNCHANGED <<v1, v4, v5>>,
         v3' \in Learning!Observers \cup {"none", "user"}, v6 \subseteq v6',
         Learning!CaptureIsOwned', Learning!Measures(e),
         \/ e.pc = "none" \/ e.base = v1.known
         \/ v2[w].pc # "none" /\ e.base = v2[w].base,
         e.pc = "write" /\ ~e.valid => v2[w].pc = "write" /\ ~v2[w].valid,
         "foreign" \in v6' => "foreign" \in v6
  PROVE  Learning!LearnInv'
<1>1. /\ v2' \in [Learning!Observers -> Learning!Learnings] /\ v2'[w] = e
      /\ \A x \in Learning!Observers \ {w} : v2'[x] = v2[x]
  BY DEF Learning!LearnInv, Learning!LearnTypeOK
<1>2. \A x \in Learning!Observers : Learning!Measures(v2[x])
  BY DEF Learning!LearnInv
<1>3. \A x \in Learning!Observers : Learning!Measures(v2[x])'
  <2>1. Learning!Measures(v2[w])'
    BY <1>1 DEF Learning!Measures
  <2>2. ASSUME NEW x \in Learning!Observers \ {w} PROVE Learning!Measures(v2[x])'
    BY <1>1, <1>2 DEF Learning!Measures
  <2> QED
    BY <2>1, <2>2
<1>4. Learning!LearnTypeOK'
  <2>1. e.pc = "mtu" => e.low <= e.high + 1
    BY DEF Learning!Measures
  <2> QED
    BY <1>1, <2>1 DEF Learning!LearnInv, Learning!LearnTypeOK
<1>5. Learning!KnowsWhatWasFound'
  BY <1>1 DEF Learning!LearnInv, Learning!KnowsWhatWasFound, Learning!Observers
<1>6. Learning!RecommendationFits'
  BY DEF Learning!LearnInv, Learning!RecommendationFits
<1> QED
  BY <1>3, <1>4, <1>5, <1>6 DEF Learning!LearnInv

\* The same of a step that has nothing to do with the packet monitor
LEMMA QuietStep ==
  ASSUME Learning!LearnInv, NEW w \in Learning!Observers, NEW e \in Learning!Learnings,
         v2' = [v2 EXCEPT ![w] = e], UNCHANGED <<v1, v3, v4, v5, v6>>,
         v2[w].pc \notin {"capture", "again"}, e.pc \notin {"capture", "again"},
         Learning!Measures(e),
         \/ e.pc = "none" \/ e.base = v1.known
         \/ v2[w].pc # "none" /\ e.base = v2[w].base,
         e.pc = "write" /\ ~e.valid => v2[w].pc = "write" /\ ~v2[w].valid
  PROVE  Learning!LearnInv'
<1>1. v2' = [v2 EXCEPT ![w] = e] /\ v2 \in [Learning!Observers -> Learning!Learnings]
      /\ v3 \in Learning!Observers \cup {"none", "user"}
  BY DEF Learning!LearnInv, Learning!LearnTypeOK
<1>2. \A x \in Learning!Observers : Learning!Captures(x)' <=> Learning!Captures(x)
  BY <1>1 DEF Learning!Captures
<1>3. Learning!CaptureIsOwned'
  BY <1>2 DEF Learning!LearnInv, Learning!CaptureIsOwned
<1> QED
  BY <1>1, <1>3, LearnerStep

LEMMA WorkerFields ==
  ASSUME Learning!LearnInv, NEW w \in Learning!Observers
  PROVE  v2[w] \in Learning!Learnings /\ Learning!Measures(v2[w])
BY DEF Learning!LearnInv, Learning!LearnTypeOK

\* A worker that goes on to pc, having found f
LEMMA GoesOn ==
  ASSUME NEW t \in Learning!Learnings, Learning!Measures(t), t.pc # "mtu",
         NEW pc \in {"raw", "status", "start", "capture", "again", "benchmark", "decide"},
         pc # "decide" => t.pc # "decide" /\ t.pc # "write"
  PROVE  LET e == [t EXCEPT !.pc = pc]
         IN  /\ e \in Learning!Learnings /\ e.pc = pc /\ e.base = t.base
             /\ Learning!Measures(e)
<1> DEFINE e == [t EXCEPT !.pc = pc]
<1>1. /\ e \in Learning!Learnings /\ e.pc = pc /\ e.base = t.base
      /\ e.low = t.low /\ e.high = t.high /\ e.best = t.best /\ e.lossless = t.lossless
  BY DEF Learning!Learnings
<1> HIDE DEF e
<1>2. Learning!Measures(e)
  BY <1>1 DEF Learning!Measures
<1> QED
  BY <1>1, <1>2 DEF e

LEMMA SeesOn ==
  ASSUME NEW t \in Learning!Learnings, Learning!Measures(t),
         t.pc \in {"look", "raw", "status", "start", "capture", "again"},
         NEW found \in SUBSET Endpoints, NEW pc \in {"benchmark", "decide"}
  PROVE  LET e == [t EXCEPT !.found = found, !.pc = pc]
         IN  /\ e \in Learning!Learnings /\ e.pc = pc /\ e.base = t.base
             /\ Learning!Measures(e)
<1> DEFINE e == [t EXCEPT !.found = found, !.pc = pc]
<1>1. /\ e \in Learning!Learnings /\ e.pc = pc /\ e.base = t.base
      /\ e.low = t.low /\ e.high = t.high /\ e.best = t.best /\ e.lossless = t.lossless
  BY DEF Learning!Learnings
<1> HIDE DEF e
<1>2. Learning!Measures(e)
  BY <1>1 DEF Learning!Measures
<1> QED
  BY <1>1, <1>2 DEF e

\* The same for the function of the workers
LEMMA ToStep ==
  ASSUME Learning!LearnInv, NEW w \in Learning!Observers,
         NEW pc \in {"raw", "status", "start", "capture", "again", "benchmark", "decide"},
         v2[w].pc # "mtu", Learning!To(w, pc),
         pc # "decide" => v2[w].pc # "decide" /\ v2[w].pc # "write"
  PROVE  \E e \in Learning!Learnings :
            /\ v2' = [v2 EXCEPT ![w] = e] /\ e.pc = pc /\ e.base = v2[w].base
            /\ Learning!Measures(e)
<1>1. v2' = [v2 EXCEPT ![w] = [v2[w] EXCEPT !.pc = pc]]
  BY DEF Learning!To
<1> DEFINE e == [v2[w] EXCEPT !.pc = pc]
<1>2. v2[w] \in Learning!Learnings /\ Learning!Measures(v2[w])
  BY WorkerFields
<1>3. e \in Learning!Learnings /\ e.pc = pc /\ e.base = v2[w].base /\ Learning!Measures(e)
  BY <1>2, GoesOn
<1> HIDE DEF e
<1> QED
  BY <1>1, <1>3 DEF e

LEMMA SawStep ==
  ASSUME Learning!LearnInv, NEW w \in Learning!Observers, NEW found \in SUBSET Endpoints,
         v2[w].pc \in {"look", "raw", "status", "start", "capture", "again"},
         Learning!Saw(w, found)
  PROVE  \E e \in Learning!Learnings :
            /\ v2' = [v2 EXCEPT ![w] = e] /\ e.pc \in {"benchmark", "decide"}
            /\ e.base = v2[w].base /\ Learning!Measures(e)
<1> DEFINE pc == IF w = Air \/ found = {} THEN "decide" ELSE "benchmark"
<1>1. v2' = [v2 EXCEPT ![w] = [v2[w] EXCEPT !.found = found, !.pc = pc]]
  BY DEF Learning!Saw
<1>2. pc \in {"benchmark", "decide"}
  OBVIOUS
<1> HIDE DEF pc
<1> QED
  BY <1>1, <1>2, WorkerFields, SeesOn

LEMMA LookingInv ==
  ASSUME Learning!LearnInv, NEW w \in Learning!Observers, NEW found \in SUBSET Endpoints,
         Learning!Look(w, found) \/ Learning!RawCapture(w, found) \/ Learning!PktmonStatus(w)
  PROVE  Learning!LearnInv'
<1>1. /\ UNCHANGED <<v1, v3, v4, v5, v6>>
      /\ v2[w].pc \in {"look", "raw", "status"}
      /\ \/ \E f \in SUBSET Endpoints : Learning!Saw(w, f)
         \/ Learning!To(w, "raw") \/ Learning!To(w, "status") \/ Learning!To(w, "start")
  BY DEF Learning!Look, Learning!RawCapture, Learning!PktmonStatus
<1>2. PICK e \in Learning!Learnings :
         /\ v2' = [v2 EXCEPT ![w] = e]
         /\ e.pc \in {"raw", "status", "start", "benchmark", "decide"}
         /\ e.base = v2[w].base /\ Learning!Measures(e)
  BY <1>1, ToStep, SawStep
<1> QED
  BY <1>1, <1>2, QuietStep

LEMMA PktmonInv ==
  ASSUME Learning!LearnInv, NEW w \in Learning!Observers, NEW found \in SUBSET Endpoints,
         NEW outcome,
         \/ outcome \in {"started", "failed", "late"} /\ Learning!PktmonStart(w, outcome)
         \/ outcome \in {"stopped", "refused", "late"} /\ Learning!PktmonStop(w, outcome, found)
  PROVE  Learning!LearnInv'
<1>0. /\ v2 \in [Learning!Observers -> Learning!Learnings]
      /\ v3 \in Learning!Observers \cup {"none", "user"}
      /\ "none" \notin Learning!Observers /\ "user" \notin Learning!Observers
      /\ Learning!CaptureIsOwned
  BY LearningAssumption DEF Learning!LearnInv, Learning!LearnTypeOK, Learning!Observers
<1>1. CASE Learning!PktmonStart(w, outcome) /\ outcome = "started"
  <2>1. /\ v2[w].pc = "start" /\ v3 = "none" /\ v3' = w /\ v6' = v6
        /\ Learning!To(w, "capture") /\ UNCHANGED <<v1, v4, v5>>
    BY <1>1 DEF Learning!PktmonStart
  <2>2. PICK e \in Learning!Learnings :
           /\ v2' = [v2 EXCEPT ![w] = e] /\ e.pc = "capture"
           /\ e.base = v2[w].base /\ Learning!Measures(e)
    BY <2>1, ToStep
  <2>3. /\ Learning!Captures(w)'
        /\ \A x \in Learning!Observers \ {w} : Learning!Captures(x)' <=> Learning!Captures(x)
    BY <1>0, <2>2 DEF Learning!Captures
  <2>4. Learning!CaptureIsOwned'
    BY <1>0, <2>1, <2>3 DEF Learning!CaptureIsOwned
  <2> QED
    BY <2>1, <2>2, <2>4, LearnerStep
<1>2. CASE Learning!PktmonStart(w, outcome) /\ outcome \in {"failed", "late"}
  <2>1. /\ v2[w].pc = "start" /\ v3' \in {v3, w} /\ Learning!Saw(w, {})
        /\ v3' # v3 => v3 = "none" /\ "start" \in v6'
        /\ v6' \in {v6, v6 \cup {"start"}} /\ UNCHANGED <<v1, v4, v5>>
    BY <1>2 DEF Learning!PktmonStart
  <2>2. PICK e \in Learning!Learnings :
           /\ v2' = [v2 EXCEPT ![w] = e] /\ e.pc \in {"benchmark", "decide"}
           /\ e.base = v2[w].base /\ Learning!Measures(e)
    BY <2>1, SawStep
  <2>3. \A x \in Learning!Observers : Learning!Captures(x)' <=> Learning!Captures(x)
    BY <1>0, <2>1, <2>2 DEF Learning!Captures
  <2>4. Learning!CaptureIsOwned'
    BY <1>0, <2>1, <2>3 DEF Learning!CaptureIsOwned
  <2>5. v3' \in Learning!Observers \cup {"none", "user"} /\ v6 \subseteq v6'
        /\ ("foreign" \in v6' => "foreign" \in v6)
    BY <1>0, <2>1
  <2> QED
    BY <2>1, <2>2, <2>4, <2>5, LearnerStep
<1>3. CASE Learning!PktmonStop(w, outcome, found) /\ outcome = "late" /\ v2[w].pc = "capture"
  <2>1. UNCHANGED <<v1, v3, v4, v5, v6>> /\ Learning!To(w, "again")
    BY <1>3 DEF Learning!PktmonStop
  <2>2. PICK e \in Learning!Learnings :
           /\ v2' = [v2 EXCEPT ![w] = e] /\ e.pc = "again"
           /\ e.base = v2[w].base /\ Learning!Measures(e)
    BY <1>3, <2>1, ToStep
  <2>3. \A x \in Learning!Observers : Learning!Captures(x)' <=> Learning!Captures(x)
    BY <1>0, <1>3, <2>2 DEF Learning!Captures
  <2>4. Learning!CaptureIsOwned'
    BY <1>0, <2>1, <2>3 DEF Learning!CaptureIsOwned
  <2> QED
    BY <1>0, <1>3, <2>1, <2>2, <2>4, LearnerStep
<1>4. CASE /\ Learning!PktmonStop(w, outcome, found)
           /\ ~(outcome = "late" /\ v2[w].pc = "capture")
  <2>1. /\ v2[w].pc \in {"capture", "again"}
        /\ Learning!Saw(w, IF v2[w].pc = "again" THEN {} ELSE found)
        /\ v3' = IF outcome = "stopped" THEN "none" ELSE v3
        /\ v6' = v6 \cup (IF outcome # "stopped" THEN {"stop"} ELSE {})
                    \cup (IF outcome = "stopped" /\ v3 = "user" THEN {"interrupted"} ELSE {})
        /\ UNCHANGED <<v1, v4, v5>>
    BY <1>4 DEF Learning!PktmonStop
  <2>2. PICK e \in Learning!Learnings :
           /\ v2' = [v2 EXCEPT ![w] = e] /\ e.pc \in {"benchmark", "decide"}
           /\ e.base = v2[w].base /\ Learning!Measures(e)
    BY <2>1, SawStep
  <2>3. /\ Learning!Captures(w) /\ ~Learning!Captures(w)'
        /\ \A x \in Learning!Observers \ {w} : Learning!Captures(x)' <=> Learning!Captures(x)
    BY <1>0, <2>1, <2>2 DEF Learning!Captures
  <2>4. Learning!CaptureIsOwned'
    <3>1. CASE outcome = "stopped"
      BY <1>0, <2>1, <2>3, <3>1 DEF Learning!CaptureIsOwned
    <3>2. CASE outcome # "stopped"
      BY <1>0, <2>1, <2>3, <3>2 DEF Learning!CaptureIsOwned
    <3> QED
      BY <3>1, <3>2
  <2>5. v3' \in Learning!Observers \cup {"none", "user"} /\ v6 \subseteq v6'
        /\ ("foreign" \in v6' => "foreign" \in v6)
    BY <1>0, <2>1
  <2> QED
    BY <2>1, <2>2, <2>4, <2>5, LearnerStep
<1> QED
  BY <1>1, <1>2, <1>3, <1>4

LEMMA BenchmarkInv ==
  ASSUME Learning!LearnInv, NEW w \in Learning!Observers, NEW answers \in BOOLEAN,
         Learning!Benchmark(w, answers)
  PROVE  Learning!LearnInv'
<1>1. UNCHANGED <<v1, v3, v4, v5, v6>> /\ v2[w].pc = "benchmark"
      /\ (Learning!To(w, "mtu") \/ Learning!To(w, "decide"))
  BY DEF Learning!Benchmark
<1>2. CASE Learning!To(w, "decide")
  <2>1. PICK e \in Learning!Learnings :
           /\ v2' = [v2 EXCEPT ![w] = e] /\ e.pc = "decide"
           /\ e.base = v2[w].base /\ Learning!Measures(e)
    BY <1>1, <1>2, ToStep
  <2> QED
    BY <1>1, <2>1, QuietStep
<1>3. CASE Learning!To(w, "mtu")
  <2> DEFINE e == [v2[w] EXCEPT !.pc = "mtu"]
  <2>1. v2' = [v2 EXCEPT ![w] = e]
    BY <1>3 DEF Learning!To
  <2>2. /\ e \in Learning!Learnings /\ e.pc = "mtu" /\ e.base = v2[w].base
        /\ e.low = v2[w].low /\ e.high = v2[w].high /\ e.best = v2[w].best
    BY WorkerFields DEF Learning!Learnings
  <2> HIDE DEF e
  <2>3. e.best = Learning!Unknown /\ e.low = Low /\ e.high = High
    BY <1>1, <2>2, WorkerFields DEF Learning!Measures
  <2>4. Learning!Measures(e)
    BY <2>2, <2>3, LearningAssumption DEF Learning!Measures
  <2> QED
    BY <1>1, <2>1, <2>2, <2>4, QuietStep
<1> QED
  BY <1>1, <1>2, <1>3

LEMMA MiddleFits ==
  ASSUME NEW a \in Nat, NEW b \in Nat, a <= b
  PROVE  (a + b) \div 2 \in Nat /\ a <= (a + b) \div 2 /\ (a + b) \div 2 <= b
OBVIOUS

LEMMA PingInv ==
  ASSUME Learning!LearnInv, NEW w \in Learning!Observers, NEW lost \in BOOLEAN,
         Learning!Ping(w, lost)
  PROVE  Learning!LearnInv'
<1> DEFINE s == v2[w]
           middle == (s.low + s.high) \div 2
           found == [s EXCEPT !.best = middle]
           up == [found EXCEPT !.low = middle + 1]
           down == [s EXCEPT !.high = middle - 1, !.lossless = @ /\ ~lost]
<1>1. /\ s.pc = "mtu" /\ s.low <= s.high /\ UNCHANGED <<v1, v3, v4, v5, v6>>
      /\ v2' = [v2 EXCEPT ![w] = IF middle <= v4 /\ ~lost
                                    THEN [s EXCEPT !.best = middle, !.low = middle + 1]
                                    ELSE down]
  BY DEF Learning!Ping
<1>2. s \in Learning!Learnings /\ Learning!Measures(s)
  BY WorkerFields
<1> HIDE DEF s
<1>3. s.low \in Nat /\ s.high \in Nat /\ s.best \in {Learning!Unknown} \cup Low..High
  BY <1>2 DEF Learning!Learnings
<1>4. middle \in Nat /\ s.low <= middle /\ middle <= s.high
  BY <1>1, <1>3, MiddleFits
<1> HIDE DEF middle
<1>5. v4 \in Nat /\ Low \in Nat \ {0} /\ High \in Nat
  BY LearningAssumption DEF Learning!LearnInv, Learning!LearnTypeOK
<1>6. Low <= s.low /\ s.high <= High
  BY <1>1, <1>2, <1>3, <1>5 DEF Learning!Measures
<1>7. CASE middle <= v4 /\ ~lost
  <2>1. /\ up \in Learning!Learnings /\ up.pc = "mtu" /\ up.base = s.base
        /\ up.low = middle + 1 /\ up.high = s.high /\ up.best = middle
        /\ up.lossless = s.lossless
    <3>1. middle \in {Learning!Unknown} \cup Low..High /\ middle + 1 \in Nat
      BY <1>3, <1>4, <1>5, <1>6
    <3>2. /\ found \in Learning!Learnings /\ found.pc = s.pc /\ found.base = s.base
          /\ found.high = s.high /\ found.best = middle /\ found.lossless = s.lossless
      BY <1>2, <3>1 DEF Learning!Learnings
    <3> HIDE DEF found
    <3> QED
      BY <1>1, <3>1, <3>2 DEF Learning!Learnings
  <2>3. [s EXCEPT !.best = middle, !.low = middle + 1] = up
    BY <1>2 DEF Learning!Learnings
  <2> HIDE DEF up, found
  <2>2. Learning!Measures(up)
    BY <1>1, <1>2, <1>3, <1>4, <1>5, <1>6, <1>7, <2>1
       DEF Learning!Measures, Learning!Unknown
  <2>4. v2' = [v2 EXCEPT ![w] = up]
    BY <1>1, <1>7, <2>3
  <2> QED
    BY <1>1, <2>1, <2>2, <2>4, QuietStep DEF s
<1>8. CASE ~(middle <= v4 /\ ~lost)
  <2>1. middle - 1 \in Nat
    BY <1>4, <1>5, <1>6, <1>3
  <2>2. /\ down \in Learning!Learnings /\ down.pc = "mtu" /\ down.base = s.base
        /\ down.low = s.low /\ down.high = middle - 1 /\ down.best = s.best
        /\ down.lossless = (s.lossless /\ ~lost)
    BY <1>1, <1>2, <2>1 DEF Learning!Learnings
  <2> HIDE DEF down
  <2>3. Learning!Measures(down)
    <3>1. down.low = IF down.best = Learning!Unknown THEN Low ELSE down.best + 1
      BY <1>1, <1>2, <2>2 DEF Learning!Measures
    <3>2. down.high <= High /\ down.low <= down.high + 1
      BY <1>3, <1>4, <1>5, <1>6, <2>2
    <3>3. down.lossless => down.high = High \/ v4 <= down.high
      <4>1. down.lossless => ~lost
        BY <2>2, Zenon
      <4>2. ~lost => v4 <= middle - 1
        BY <1>4, <1>5, <1>8
      <4> QED
        BY <2>2, <4>1, <4>2
    <3>4. down.best # Learning!Unknown => down.best <= v4
      BY <1>2, <2>2 DEF Learning!Measures
    <3> QED
      BY <2>2, <3>1, <3>2, <3>3, <3>4 DEF Learning!Measures
  <2> QED
    BY <1>1, <1>8, <2>2, <2>3, QuietStep DEF s
<1> QED
  BY <1>7, <1>8

LEMMA SearchEndsInv ==
  ASSUME Learning!LearnInv, NEW w \in Learning!Observers, NEW fails \in BOOLEAN,
         Learning!SearchEnds(w, fails)
  PROVE  Learning!LearnInv'
<1> DEFINE s == v2[w]
           e == [s EXCEPT !.pc = "decide",
                          !.best = IF fails THEN Learning!Unknown ELSE @]
<1>1. /\ s.pc = "mtu" /\ (fails \/ s.low > s.high) /\ UNCHANGED <<v1, v3, v4, v5, v6>>
      /\ v2' = [v2 EXCEPT ![w] = e]
  BY DEF Learning!SearchEnds
<1>2. s \in Learning!Learnings /\ Learning!Measures(s)
  BY WorkerFields
<1> HIDE DEF s
<1>3. s.low \in Nat /\ s.high \in Nat /\ s.best \in {Learning!Unknown} \cup Low..High
  BY <1>2 DEF Learning!Learnings
<1>4. v4 \in Nat /\ Low \in Nat \ {0} /\ High \in Nat
  BY LearningAssumption DEF Learning!LearnInv, Learning!LearnTypeOK
<1>5. /\ e \in Learning!Learnings /\ e.pc = "decide" /\ e.base = s.base
      /\ e.lossless = s.lossless /\ e.best = IF fails THEN Learning!Unknown ELSE s.best
  BY <1>2 DEF Learning!Learnings
<1> HIDE DEF e
<1>6. ASSUME e.best # Learning!Unknown, e.lossless
      PROVE  e.best = Learning!Between(0, v4, High)
  <2>1. s.low > s.high /\ s.best # Learning!Unknown /\ s.lossless
    BY <1>1, <1>5, <1>6
  <2>2. /\ s.best <= v4 /\ s.low = s.best + 1 /\ s.high <= High /\ s.low <= s.high + 1
        /\ s.high = High \/ v4 <= s.high
    BY <1>1, <1>2, <2>1 DEF Learning!Measures
  <2>3. s.best \in Nat /\ e.best = s.best
    BY <1>3, <1>4, <1>5, <1>6
  <2> QED
    BY <1>3, <1>4, <2>1, <2>2, <2>3 DEF Learning!Between
<1>7. Learning!Measures(e)
  BY <1>2, <1>5, <1>6 DEF Learning!Measures
<1> QED
  BY <1>1, <1>5, <1>7, QuietStep DEF s

LEMMA DecideInv ==
  ASSUME Learning!LearnInv, NEW w \in Learning!Observers,
         Learning!Decide(w) \/ (w = Air /\ Learning!AirDecides)
  PROVE  Learning!LearnInv'
<1>1. /\ v2[w].pc = "decide" /\ UNCHANGED <<v1, v3, v4, v5, v6>>
      /\ \/ Learning!To(w, "write") /\ v2[w].valid
         \/ Learning!Ends(w)
  BY DEF Learning!Decide, Learning!AirDecides
<1>2. CASE Learning!Ends(w)
  BY <1>1, <1>2, IdleLearner, QuietStep DEF Learning!Ends
<1>3. CASE Learning!To(w, "write") /\ v2[w].valid
  <2> DEFINE e == [v2[w] EXCEPT !.pc = "write"]
  <2>1. v2' = [v2 EXCEPT ![w] = e]
    BY <1>3 DEF Learning!To
  <2>2. /\ e \in Learning!Learnings /\ e.pc = "write" /\ e.base = v2[w].base
        /\ e.lossless = v2[w].lossless /\ e.best = v2[w].best /\ e.valid = v2[w].valid
    BY WorkerFields DEF Learning!Learnings
  <2> HIDE DEF e
  <2>3. Learning!Measures(e)
    BY <1>1, <2>2, WorkerFields DEF Learning!Measures
  <2> QED
    BY <1>1, <1>3, <2>1, <2>2, <2>3, QuietStep
<1> QED
  BY <1>1, <1>2, <1>3

LEMMA BeginLearnInv ==
  ASSUME Learning!LearnInv, NEW w \in Learning!Observers, Learning!Begin(w)
  PROVE  Learning!LearnInv'
<1> DEFINE e == [Learning!Idle EXCEPT !.pc = "look", !.base = v1.known]
<1>1. /\ v2[w].pc = "none" /\ v2' = [v2 EXCEPT ![w] = e]
      /\ UNCHANGED <<v1, v3, v4, v5, v6>>
  BY DEF Learning!Begin
<1>2. v1.known \in SUBSET Endpoints
  BY DEF Learning!LearnInv, Learning!LearnTypeOK, Learning!Profiles
<1>3. /\ e \in Learning!Learnings /\ e.pc = "look" /\ e.base = v1.known
      /\ e.best = Learning!Unknown /\ e.low = Low /\ e.high = High
  BY <1>2, LearningAssumption DEF Learning!Learnings, Learning!Idle
<1> HIDE DEF e
<1>4. Learning!Measures(e)
  BY <1>3 DEF Learning!Measures
<1> QED
  BY <1>1, <1>3, <1>4, QuietStep

LEMMA SessionEndsInv ==
  ASSUME Learning!LearnInv, Learning!SessionEnds
  PROVE  Learning!LearnInv'
<1>1. /\ v2' = [w \in Learning!Observers |-> [v2[w] EXCEPT !.valid = v2[w].pc = "none"]]
      /\ v6' = v6 \cup (IF \E w \in Learning!Observers : v2[w].pc = "write"
                        THEN {"gap"} ELSE {})
      /\ UNCHANGED <<v1, v3, v4, v5>>
  BY DEF Learning!SessionEnds
<1>2. ASSUME NEW w \in Learning!Observers
      PROVE  /\ v2'[w] \in Learning!Learnings /\ v2'[w].pc = v2[w].pc
             /\ v2'[w].base = v2[w].base /\ v2'[w].low = v2[w].low
             /\ v2'[w].high = v2[w].high /\ v2'[w].best = v2[w].best
             /\ v2'[w].lossless = v2[w].lossless
  <2>1. v2'[w] = [v2[w] EXCEPT !.valid = v2[w].pc = "none"]
    BY <1>1
  <2> QED
    BY <2>1, WorkerFields DEF Learning!Learnings
<1>3. Learning!LearnTypeOK'
  <2>1. v2' \in [Learning!Observers -> Learning!Learnings]
    BY <1>1, <1>2
  <2> QED
    BY <1>1, <1>2, <2>1 DEF Learning!LearnInv, Learning!LearnTypeOK
<1>4. Learning!KnowsWhatWasFound'
  <2>1. Learning!KnowsWhatWasFound /\ v6 \subseteq v6'
        /\ ("foreign" \in v6' => "foreign" \in v6)
    BY <1>1 DEF Learning!LearnInv
  <2>2. \A w \in Learning!Observers : v2'[w].pc = "write" => "gap" \in v6'
    BY <1>1, <1>2
  <2>3. \A w \in Learners : v2'[w].pc = v2[w].pc /\ v2'[w].base = v2[w].base
    BY <1>2 DEF Learning!Observers
  <2> QED
    BY <1>1, <2>1, <2>2, <2>3 DEF Learning!KnowsWhatWasFound
<1>5. Learning!CaptureIsOwned'
  <2>1. \A w \in Learning!Observers : Learning!Captures(w)' <=> Learning!Captures(w)
    BY <1>2 DEF Learning!Captures
  <2> QED
    BY <1>1, <2>1 DEF Learning!LearnInv, Learning!CaptureIsOwned
<1>6. Learning!RecommendationFits'
  BY <1>1 DEF Learning!LearnInv, Learning!RecommendationFits
<1>7. ASSUME NEW w \in Learning!Observers PROVE Learning!Measures(v2[w])'
  BY <1>1, <1>2, WorkerFields DEF Learning!Measures
<1> QED
  BY <1>3, <1>4, <1>5, <1>6, <1>7 DEF Learning!LearnInv

LEMMA UserCaptureInv ==
  ASSUME Learning!LearnInv, Learning!UserStarts \/ Learning!UserStops
  PROVE  Learning!LearnInv'
<1>1. /\ UNCHANGED <<v1, v2, v4, v5>>
      /\ \/ v3 = "none" /\ v3' = "user" /\ v6' = v6
         \/ v3 # "none" /\ v3' = "none" /\ v6' = IF v3 = "user" THEN v6 ELSE v6 \cup {"taken"}
  BY DEF Learning!UserStarts, Learning!UserStops
<1>2. "none" \notin Learning!Observers /\ "user" \notin Learning!Observers
  BY LearningAssumption DEF Learning!Observers
<1>3. Learning!CaptureIsOwned'
  <2>1. \A w \in Learning!Observers : Learning!Captures(w)' <=> Learning!Captures(w)
    BY <1>1 DEF Learning!Captures
  <2> QED
    BY <1>1, <1>2, <2>1 DEF Learning!LearnInv, Learning!CaptureIsOwned
<1>4. Learning!LearnTypeOK' /\ Learning!RecommendationFits'
  BY <1>1 DEF Learning!LearnInv, Learning!LearnTypeOK, Learning!RecommendationFits
<1>5. Learning!KnowsWhatWasFound'
  BY <1>1 DEF Learning!LearnInv, Learning!KnowsWhatWasFound
<1>6. \A w \in Learning!Observers : Learning!Measures(v2[w])'
  BY <1>1 DEF Learning!LearnInv, Learning!Measures
<1> QED
  BY <1>3, <1>4, <1>5, <1>6 DEF Learning!LearnInv

\* What the largest packet recommends fits the path.
LEMMA RecommendedFits ==
  ASSUME NEW p \in Nat, NEW best \in Low..High, best <= p
  PROVE  /\ Learning!Recommended(Learning!PathMtu(best)) \in Low + Header..Ceiling
         /\ Learning!Recommended(Learning!PathMtu(best)) <= p + Header
         /\ best = Learning!Between(0, p, High) =>
              Learning!Recommended(Learning!PathMtu(best))
                 = Learning!Recommended(Learning!Between(0, p, High) + Header)
<1>1. Learning!PathMtu(best) = best + Header
  BY LearningAssumption DEF Learning!PathMtu, Learning!Between
<1>2. /\ Learning!Recommended(best + Header) \in Low + Header..Ceiling
      /\ Learning!Recommended(best + Header) <= p + Header
  BY LearningAssumption DEF Learning!Recommended, Learning!Between, Learning!Floor
<1> QED
  BY <1>1, <1>2

LEMMA WriteInv ==
  ASSUME Learning!LearnInv, NEW w \in Learning!Observers, Learning!Write(w)
  PROVE  Learning!LearnInv'
<1> DEFINE s == v2[w]
<1>1. /\ s.pc = "write" /\ v2' = [v2 EXCEPT ![w] = Learning!Idle]
      /\ v1' = IF w = Air THEN Learning!Merge(v1, v1.known, s.found) ELSE Learning!Learned(s)
      /\ v5' = v5 \cup s.found
      /\ v6' = v6 \cup Learning!Overlap(w) \cup (IF s.valid THEN {} ELSE {"foreign"})
      /\ UNCHANGED <<v3, v4>>
  BY DEF Learning!Write, Learning!Ends
<1>2. s \in Learning!Learnings /\ Learning!Measures(s)
  BY WorkerFields
<1>3. /\ v1 \in Learning!Profiles /\ v1.known \in SUBSET Endpoints
      /\ v2 \in [Learning!Observers -> Learning!Learnings]
      /\ v5 \in SUBSET Endpoints /\ v4 \in Nat
      /\ (v1.lossless => v1.measured) /\ Learning!RecommendationFits
  BY LearningAssumption DEF Learning!LearnInv, Learning!LearnTypeOK, Learning!Profiles
<1>4. /\ v2'[w] = Learning!Idle
      /\ \A x \in Learning!Observers \ {w} : v2'[x] = v2[x]
      /\ v2' \in [Learning!Observers -> Learning!Learnings]
  BY <1>1, <1>3, IdleLearner
<1>5. /\ s.base \in SUBSET Endpoints /\ s.found \in SUBSET Endpoints
      /\ s.best \in {Learning!Unknown} \cup Low..High /\ s.lossless \in BOOLEAN
      /\ s.best # Learning!Unknown => s.best <= v4
      /\ s.best # Learning!Unknown /\ s.lossless => s.best = Learning!Between(0, v4, High)
  BY <1>1, <1>2 DEF Learning!Learnings, Learning!Measures
<1> HIDE DEF s
<1>6. ASSUME NEW known \in SUBSET Endpoints
      PROVE  LET m == Learning!Merge(v1, known, s.found)
             IN  /\ m \in Learning!Profiles /\ m.known = known \cup s.found
                 /\ m.mtu = v1.mtu /\ m.measured = v1.measured /\ m.lossless = v1.lossless
  BY <1>3, <1>5 DEF Learning!Merge, Learning!Profiles
<1>7. /\ v1' \in Learning!Profiles
      /\ v1'.known = (IF w = Air THEN v1.known ELSE s.base) \cup s.found
      /\ \/ v1'.mtu = v1.mtu /\ v1'.measured = v1.measured /\ v1'.lossless = v1.lossless
         \/ /\ s.best # Learning!Unknown
            /\ v1'.mtu = Learning!Recommended(Learning!PathMtu(s.best))
            /\ v1'.measured = TRUE /\ v1'.lossless = s.lossless
  <2>1. CASE w = Air
    BY <1>1, <1>3, <1>6, <2>1
  <2>2. CASE w # Air /\ s.best = Learning!Unknown
    BY <1>1, <1>5, <1>6, <2>2 DEF Learning!Learned
  <2>3. CASE w # Air /\ s.best # Learning!Unknown
    <3> DEFINE m == Learning!Merge(v1, s.base, s.found)
               r == Learning!Recommended(Learning!PathMtu(s.best))
               e == [m EXCEPT !.mtu = r, !.measured = TRUE, !.lossless = s.lossless]
    <3>1. v1' = e
      BY <1>1, <2>3 DEF Learning!Learned
    <3>2. m \in Learning!Profiles /\ m.known = s.base \cup s.found
      BY <1>5, <1>6
    <3>3. r \in Learning!Floor..Ceiling
      BY <1>3, <1>5, <2>3, RecommendedFits DEF Learning!Floor
    <3> HIDE DEF m, r
    <3>4. /\ e \in Learning!Profiles /\ e.known = m.known /\ e.mtu = r
          /\ e.measured = TRUE /\ e.lossless = s.lossless
      BY <1>5, <3>2, <3>3 DEF Learning!Profiles
    <3> HIDE DEF e
    <3> QED
      BY <2>3, <3>1, <3>2, <3>4 DEF r
  <2> QED
    BY <2>1, <2>2, <2>3
<1>8. Learning!LearnTypeOK'
  <2>1. v1'.lossless => v1'.measured
    BY <1>3, <1>7
  <2>2. \A x \in Learning!Observers : v2'[x].pc = "mtu" => v2'[x].low <= v2'[x].high + 1
    BY <1>4, IdleLearner DEF Learning!LearnInv, Learning!LearnTypeOK
  <2> QED
    BY <1>1, <1>3, <1>4, <1>5, <1>7, <2>1, <2>2 DEF Learning!LearnInv, Learning!LearnTypeOK
<1>9. Learning!KnowsWhatWasFound'
  <2>0. Learning!KnowsWhatWasFound
    BY DEF Learning!LearnInv
  <2>1. ASSUME "overlap" \notin v6'
        PROVE  /\ v1'.known = v5'
               /\ \A x \in Learners : v2'[x].pc # "none" => v2'[x].base = v1'.known
    <3>1. "overlap" \notin v6 /\ \A x \in Learners \ {w} : v2[x].pc = "none"
      BY <1>1, <2>1 DEF Learning!Overlap
    <3>2. v1.known = v5 /\ (w \in Learners => s.base = v1.known)
      BY <1>1, <2>0, <3>1 DEF Learning!KnowsWhatWasFound, s
    <3>3. w \in Learners \/ w = Air
      BY DEF Learning!Observers
    <3>4. \A x \in Learners : v2'[x].pc = "none"
      BY <1>4, <3>1, IdleLearner DEF Learning!Observers
    <3> QED
      BY <1>1, <1>7, <3>2, <3>3, <3>4
  <2>2. "foreign" \in v6' => "gap" \in v6'
    BY <1>1, <2>0 DEF Learning!KnowsWhatWasFound, Learning!Overlap, s
  <2>3. \A x \in Learning!Observers : v2'[x].pc = "write" /\ ~v2'[x].valid => "gap" \in v6'
    BY <1>1, <1>4, <2>0, IdleLearner DEF Learning!KnowsWhatWasFound
  <2> QED
    BY <2>1, <2>2, <2>3 DEF Learning!KnowsWhatWasFound
<1>10. Learning!CaptureIsOwned'
  <2>1. \A x \in Learning!Observers : Learning!Captures(x)' <=> Learning!Captures(x)
    BY <1>1, <1>4, IdleLearner DEF Learning!Captures, s
  <2>2. \A r \in {"start", "stop", "taken", "interrupted"} : r \in v6' <=> r \in v6
    BY <1>1 DEF Learning!Overlap
  <2> QED
    BY <1>1, <2>1, <2>2 DEF Learning!LearnInv, Learning!CaptureIsOwned
<1>11. Learning!RecommendationFits'
  BY <1>1, <1>3, <1>5, <1>7, RecommendedFits DEF Learning!RecommendationFits
<1>12. \A x \in Learning!Observers : Learning!Measures(v2[x])'
  <2>1. \A x \in Learning!Observers : Learning!Measures(v2'[x])
    BY <1>4, IdleLearner DEF Learning!LearnInv
  <2> QED
    BY <1>1, <2>1 DEF Learning!Measures
<1> QED
  BY <1>8, <1>9, <1>10, <1>11, <1>12 DEF Learning!LearnInv

LEMMA ReplaceInv ==
  ASSUME Learning!LearnInv, NEW known \in SUBSET Endpoints,
         NEW mtu \in Learning!Floor..Ceiling, Learning!Replace(known, mtu)
  PROVE  Learning!LearnInv'
<1>1. /\ v1' = [known |-> known, mtu |-> mtu, measured |-> FALSE, lossless |-> FALSE]
      /\ v5' = known /\ v6' = v6 \cup Learning!Overlap(Air) /\ UNCHANGED <<v2, v3, v4>>
  BY DEF Learning!Replace
<1>2. /\ v1' \in Learning!Profiles /\ v1'.known = known /\ v1'.measured = FALSE
      /\ v1'.lossless = FALSE
  BY <1>1 DEF Learning!Profiles
<1>3. Learning!LearnTypeOK'
  BY <1>1, <1>2 DEF Learning!LearnInv, Learning!LearnTypeOK
<1>4. Learning!KnowsWhatWasFound'
  <2>1. "overlap" \in v6' \/ \A w \in Learners : v2[w].pc = "none"
    BY <1>1, LearningAssumption DEF Learning!Overlap
  <2> QED
    BY <1>1, <1>2, <2>1 DEF Learning!LearnInv, Learning!KnowsWhatWasFound, Learning!Overlap
<1>5. Learning!CaptureIsOwned'
  <2>1. \A w \in Learning!Observers : Learning!Captures(w)' <=> Learning!Captures(w)
    BY <1>1 DEF Learning!Captures
  <2>2. \A r \in {"start", "stop", "taken", "interrupted"} : r \in v6' <=> r \in v6
    BY <1>1 DEF Learning!Overlap
  <2> QED
    BY <1>1, <2>1, <2>2 DEF Learning!LearnInv, Learning!CaptureIsOwned
<1>6. Learning!RecommendationFits'
  BY <1>2 DEF Learning!RecommendationFits
<1>7. \A w \in Learning!Observers : Learning!Measures(v2[w])'
  BY <1>1 DEF Learning!LearnInv, Learning!Measures
<1> QED
  BY <1>3, <1>4, <1>5, <1>6, <1>7 DEF Learning!LearnInv

LEMMA LearnInvariance == Spec => [](part = "learning" => Learning!LearnInv)
<1>1. Init => (part = "learning" => Learning!LearnInv)
  <2> SUFFICES ASSUME Init, part = "learning" PROVE Learning!LearnInv
    OBVIOUS
  <2>1. /\ v1 = [known |-> {}, mtu |-> Default, measured |-> FALSE, lossless |-> FALSE]
        /\ v2 = [w \in Learning!Observers |-> Learning!Idle]
        /\ v3 = "none" /\ v4 \in Paths /\ v5 = {} /\ v6 = {}
    BY DEF Init, Learning!LearnInit
  <2>2. \A w \in Learning!Observers : v2[w] = Learning!Idle
    BY <2>1
  <2>3. /\ v1 \in Learning!Profiles /\ v1.known = {} /\ v1.measured = FALSE
        /\ v1.lossless = FALSE
    BY <2>1, LearningAssumption DEF Learning!Profiles, Learning!Floor
  <2>4. v2 \in [Learning!Observers -> Learning!Learnings]
    BY <2>1, IdleLearner
  <2>5. Learning!LearnTypeOK
    BY <2>1, <2>2, <2>3, <2>4, IdleLearner DEF Learning!LearnTypeOK
  <2>6. Learning!KnowsWhatWasFound
    BY <2>1, <2>2, <2>3, IdleLearner DEF Learning!KnowsWhatWasFound, Learning!Observers
  <2>7. Learning!CaptureIsOwned
    BY <2>1, <2>2, IdleLearner, LearningAssumption
       DEF Learning!CaptureIsOwned, Learning!Captures, Learning!Observers
  <2>8. Learning!RecommendationFits
    BY <2>3 DEF Learning!RecommendationFits
  <2> QED
    BY <2>2, <2>5, <2>6, <2>7, <2>8, IdleLearner DEF Learning!LearnInv
<1>2. (part = "learning" => Learning!LearnInv) /\ [Next]_vars
         => (part = "learning" => Learning!LearnInv)'
  <2> SUFFICES ASSUME part = "learning", Learning!LearnInv,
                      Learning!LearnNext \/ UNCHANGED Learning!learnVars
               PROVE  Learning!LearnInv'
    BY PartSteps
  <2>1. CASE UNCHANGED Learning!learnVars
    BY <2>1 DEF Learning!learnVars, Learning!LearnInv, Learning!LearnTypeOK,
       Learning!KnowsWhatWasFound, Learning!CaptureIsOwned, Learning!Captures,
       Learning!RecommendationFits, Learning!Measures
  <2>2. ASSUME NEW w \in Learning!Observers,
               \/ Learning!Begin(w) \/ Learning!PktmonStatus(w) \/ Learning!Decide(w)
               \/ Learning!Write(w)
        PROVE  Learning!LearnInv'
    BY <2>2, BeginLearnInv, LookingInv, DecideInv, WriteInv
  <2>3. ASSUME NEW w \in Learning!Observers, NEW found \in SUBSET Endpoints,
               \/ Learning!Look(w, found) \/ Learning!RawCapture(w, found)
               \/ \E outcome \in {"started", "failed", "late"} :
                     Learning!PktmonStart(w, outcome)
               \/ \E outcome \in {"stopped", "refused", "late"} :
                     Learning!PktmonStop(w, outcome, found)
        PROVE  Learning!LearnInv'
    BY <2>3, LookingInv, PktmonInv
  <2>4. ASSUME NEW w \in Learning!Observers, NEW yes \in BOOLEAN,
               Learning!Benchmark(w, yes) \/ Learning!Ping(w, yes) \/ Learning!SearchEnds(w, yes)
        PROVE  Learning!LearnInv'
    BY <2>4, BenchmarkInv, PingInv, SearchEndsInv
  <2>5. CASE Learning!AirDecides
    BY <2>5, DecideInv DEF Learning!Observers
  <2>6. CASE \/ Learning!Clear
             \/ \E known \in SUBSET Endpoints, mtu \in {Learning!Floor, Ceiling} :
                   Learning!Import(known, mtu)
    BY <2>6, ReplaceInv DEF Learning!Clear, Learning!Import, Learning!Replace
  <2> QED
    BY <2>1, <2>2, <2>3, <2>4, <2>5, <2>6, SessionEndsInv, UserCaptureInv
       DEF Learning!LearnNext
<1> QED
  BY <1>1, <1>2, PTL DEF Spec

(***************************************************************************)
(* What a game's profile says was found in that game, the packet size that *)
(* it recommends passes and is the largest that does, and a capture that   *)
(* the program started ends with its worker - whatever workers run at once *)
(* and whenever the session ends, except for the reasons in the history    *)
(* (game_route_profile_service.py, game_server_probe_service.py).          *)
(***************************************************************************)
THEOREM LearnedRight == Spec => []LearnedIsTrue
<1>1. (part = "learning" => Learning!LearnInv) => LearnedIsTrue
  BY DEF LearnedIsTrue, Learning!LearnInv, Learning!ProfileIsTrue,
     Learning!KnowsWhatWasFound, Learning!CaptureIsClean, Learning!CaptureIsOwned,
     Learning!Captures
<1> QED
  BY <1>1, LearnInvariance, PTL

-------------------------------------------------------------------------------
(***************************************************************************)
(* Journal: v1 to v7 are dns, backup, qos, rows, tmp, writer and missed    *)
(***************************************************************************)
Recording == [pc : {"none", "next", "load", "write", "replace"}, row : Recovery!Rows,
              reset : {"no", "dns", "qos", "mark"}, fine : BOOLEAN, rows : Seq(Recovery!Rows)]

\* What a journal with one row more tells: that row, if it decides.
LEMMA AppendedPending ==
  ASSUME NEW list \in Seq(Recovery!Rows), NEW row \in Recovery!Rows, NEW c \in Recovery!Changes
  PROVE  Recovery!Pending(Append(list, row), c) <=>
            \/ row = Recovery!Row(c, "success")
            \/ ~Recovery!Clears(row, c) /\ Recovery!Pending(list, c)
<1> DEFINE n == Len(list)
           longer == Append(list, row)
<1>1. n \in Nat /\ DOMAIN list = 1..n
  BY LenProperties
<1>2. /\ longer \in Seq(Recovery!Rows) /\ Len(longer) = n + 1 /\ DOMAIN longer = 1..(n + 1)
      /\ longer[n + 1] = row
      /\ \A i \in 1..n : longer[i] = list[i]
  BY <1>1, AppendProperties, LenProperties
<1> HIDE DEF n, longer
<1>3. ASSUME Recovery!Pending(longer, c)
      PROVE  \/ row = Recovery!Row(c, "success")
             \/ ~Recovery!Clears(row, c) /\ Recovery!Pending(list, c)
  <2>1. PICK i \in 1..(n + 1) : /\ longer[i] = Recovery!Row(c, "success")
                                /\ \A j \in i + 1..n + 1 : ~Recovery!Clears(longer[j], c)
    BY <1>2, <1>3 DEF Recovery!Pending
  <2>2. CASE i = n + 1
    BY <1>2, <2>1, <2>2
  <2>3. CASE i # n + 1
    <3>1. i \in 1..n /\ n + 1 \in i + 1..n + 1
      BY <1>1, <2>1, <2>3
    <3>2. ~Recovery!Clears(row, c) /\ list[i] = Recovery!Row(c, "success")
      BY <1>2, <2>1, <3>1
    <3>3. \A j \in i + 1..n : ~Recovery!Clears(list[j], c)
      <4>1. \A j \in i + 1..n : j \in 1..n /\ j \in i + 1..n + 1
        BY <1>1, <3>1
      <4> QED
        BY <1>2, <2>1, <4>1
    <3>4. \A j \in i + 1..Len(list) : ~Recovery!Clears(list[j], c)
      BY <3>3 DEF n
    <3> QED
      BY <1>1, <3>1, <3>2, <3>4 DEF Recovery!Pending
  <2> QED
    BY <2>2, <2>3
<1>4. ASSUME row = Recovery!Row(c, "success") PROVE Recovery!Pending(longer, c)
  <2>1. n + 1 \in 1..(n + 1) /\ (n + 1) + 1..(n + 1) = {}
    BY <1>1
  <2> QED
    BY <1>2, <1>4, <2>1 DEF Recovery!Pending
<1>5. ASSUME ~Recovery!Clears(row, c), Recovery!Pending(list, c)
      PROVE  Recovery!Pending(longer, c)
  <2>1. PICK i \in 1..n : /\ list[i] = Recovery!Row(c, "success")
                          /\ \A j \in i + 1..n : ~Recovery!Clears(list[j], c)
    BY <1>1, <1>5 DEF Recovery!Pending, n
  <2>2. \A j \in i + 1..n + 1 : j = n + 1 \/ (j \in i + 1..n /\ j \in 1..n)
    BY <1>1, <2>1
  <2>3. \A j \in i + 1..n + 1 : ~Recovery!Clears(longer[j], c)
    BY <1>2, <1>5, <2>1, <2>2
  <2>4. i \in 1..(n + 1) /\ longer[i] = Recovery!Row(c, "success")
    BY <1>1, <1>2, <2>1
  <2> QED
    BY <1>2, <2>3, <2>4 DEF Recovery!Pending
<1> QED
  BY <1>3, <1>4, <1>5 DEF longer

\* What a journal keeps when one more row is to come.
LEMMA NewestFits ==
  ASSUME NEW list \in Seq(Recovery!Rows), Len(list) <= Keep
  PROVE  /\ Recovery!Newest(list) \in Seq(Recovery!Rows)
         /\ Len(Recovery!Newest(list)) < Keep
         /\ \A c \in Recovery!Changes :
               Recovery!Pending(Recovery!Newest(list), c) => Recovery!Pending(list, c)
<1> DEFINE n == Len(list)
           m == IF n < Keep THEN 1 ELSE n - Keep + 2
           kept == Recovery!Newest(list)
<1>1. n \in Nat /\ DOMAIN list = 1..n /\ (\A i \in 1..n : list[i] \in Recovery!Rows)
  BY LenProperties, ElementOfSeq
<1>2. m \in Nat \ {0} /\ n - m + 1 < Keep /\ n - m + 1 \in Nat
  <2>1. n \in Nat /\ n <= Keep /\ Keep \in Nat \ {0}
    BY <1>1, KeepAssumption
  <2>2. CASE n < Keep
    <3>1. m = 1
      BY <2>2
    <3> QED
      BY <2>1, <2>2, <3>1
  <2>3. CASE ~(n < Keep)
    <3>1. m = n - Keep + 2 /\ n = Keep
      BY <2>1, <2>3
    <3> QED
      BY <2>1, <3>1
  <2> QED
    BY <2>2, <2>3
<1>3. kept = SubSeq(list, m, n)
  BY DEF Recovery!Newest
<1> HIDE DEF n, m, kept
<1>4. m \in Int /\ n \in Int /\ \A i \in m..n : list[i] \in Recovery!Rows
  BY <1>1, <1>2
<1>5. /\ kept \in Seq(Recovery!Rows)
      /\ Len(kept) = IF m <= n THEN n - m + 1 ELSE 0
      /\ \A i \in 1..(n - m + 1) : kept[i] = list[m + i - 1]
  BY <1>3, <1>4, SubSeqProperties
<1>6. Len(kept) = n - m + 1
  BY <1>1, <1>2, <1>5
<1>7. ASSUME NEW c \in Recovery!Changes, Recovery!Pending(kept, c)
      PROVE  Recovery!Pending(list, c)
  <2>1. DOMAIN kept = 1..(n - m + 1)
    BY <1>5, <1>6, LenProperties
  <2>2. PICK i \in 1..(n - m + 1) :
           /\ kept[i] = Recovery!Row(c, "success")
           /\ \A j \in i + 1..n - m + 1 : ~Recovery!Clears(kept[j], c)
    BY <1>6, <1>7, <2>1 DEF Recovery!Pending
  <2>3. m + i - 1 \in 1..n /\ list[m + i - 1] = Recovery!Row(c, "success")
    BY <1>1, <1>2, <1>5, <2>2
  <2>4. ASSUME NEW j \in (m + i - 1) + 1..n PROVE ~Recovery!Clears(list[j], c)
    <3>1. /\ j - m + 1 \in i + 1..n - m + 1 /\ j - m + 1 \in 1..(n - m + 1)
          /\ m + (j - m + 1) - 1 = j
      BY <1>1, <1>2, <2>2, <2>4
    <3>2. kept[j - m + 1] = list[m + (j - m + 1) - 1]
      BY <1>5, <3>1
    <3> QED
      BY <2>2, <3>1, <3>2
  <2> QED
    BY <1>1, <2>3, <2>4 DEF Recovery!Pending, n
<1> QED
  BY <1>2, <1>5, <1>6, <1>7 DEF kept

LEMMA Rewritten ==
  ASSUME v6 \in [Writers -> Recording], NEW w \in Writers, NEW e \in Recording,
         v6' = [v6 EXCEPT ![w] = e]
  PROVE  /\ v6' \in [Writers -> Recording]
         /\ \A u \in Writers : v6'[u] = IF u = w THEN e ELSE v6[u]
  OBVIOUS

LEMMA JournalTypes ==
  ASSUME Recovery!JournalInv
  PROVE  /\ v1 \in BOOLEAN /\ v2 \in BOOLEAN /\ v3 \subseteq Processes
         /\ v4 \in Seq(Recovery!Rows) /\ Len(v4) <= Keep
         /\ v5 \in Seq(Recovery!Rows) /\ Len(v5) <= Keep
         /\ v6 \in [Writers -> Recording] /\ v7 \subseteq Recovery!Reasons
  BY DEF Recovery!JournalInv, Recovery!JournalTypeOK, Recording

LEMMA IdleRecording == Recovery!Idle \in Recording
  BY EmptySeq DEF Recovery!Idle, Recording, Recovery!Row, Recovery!Rows

\* The records of a writer: one lemma for each form of change.
LEMMA RecordsFields ==
  ASSUME NEW t \in Recording, NEW row \in Recovery!Rows
  PROVE  LET e == [t EXCEPT !.pc = "load", !.row = row,
                            !.fine = @ /\ row.outcome = "success"]
         IN  /\ e \in Recording /\ e.pc = "load" /\ e.row = row /\ e.reset = t.reset
             /\ e.fine = (t.fine /\ row.outcome = "success")
<1>1. (t.fine /\ row.outcome = "success") \in BOOLEAN
  BY DEF Recording
<1> QED
  BY <1>1 DEF Recording

\* A writer has a row to record.
LEMMA RecordsStep ==
  ASSUME Recovery!JournalInv, NEW w \in Writers, NEW row \in Recovery!Rows,
         v6[w].pc \in {"none", "next"}, Recovery!Records(w, row),
         v1' \in BOOLEAN, v2' \in BOOLEAN, v3' \subseteq Processes,
         v7' \subseteq Recovery!Reasons, v1' => v2', UNCHANGED <<v4, v5>>,
         v7' = {} => /\ v7 = {}
                     /\ Recovery!ResetFits'
                     /\ \A c \in Recovery!Changes :
                           IF Recovery!Decides(row, c)
                           THEN Recovery!InEffect(c)' <=> row = Recovery!Row(c, "success")
                           ELSE Recovery!InEffect(c)' <=> Recovery!InEffect(c)
  PROVE  Recovery!JournalInv'
<1> DEFINE e == [v6[w] EXCEPT !.pc = "load", !.row = row,
                              !.fine = @ /\ row.outcome = "success"]
<1>1. v6 \in [Writers -> Recording] /\ v6[w] \in Recording /\ row \in Recovery!Rows
  BY JournalTypes
<1>2. v6' = [v6 EXCEPT ![w] = e]
  BY <1>1 DEF Recovery!Records
<1>3. /\ e \in Recording /\ e.pc = "load" /\ e.row = row /\ e.reset = v6[w].reset
      /\ e.fine = (v6[w].fine /\ row.outcome = "success")
  BY ONLY <1>1, RecordsFields
<1> HIDE DEF e
<1>4. /\ v6' \in [Writers -> Recording]
      /\ \A u \in Writers : v6'[u] = IF u = w THEN e ELSE v6[u]
  BY <1>1, <1>2, <1>3, Rewritten
<1>5. Recovery!JournalTypeOK'
  BY <1>4, JournalTypes DEF Recovery!JournalTypeOK, Recording
<1>6. /\ Recovery!Loading' = Recovery!Loading \cup {w} /\ w \notin Recovery!Loading
      /\ Recovery!Writing' = Recovery!Writing /\ w \notin Recovery!Writing
      /\ \A u \in Recovery!Loading \cup Recovery!Writing : v6'[u] = v6[u] /\ u \in Writers
  BY <1>3, <1>4 DEF Recovery!Loading, Recovery!Writing
<1>7. Recovery!Tidy'
  BY <1>3, <1>4, <1>6 DEF Recovery!JournalInv, Recovery!Tidy, Recovery!Free, Recovery!Writing
<1>8. ASSUME v7' = {} PROVE Recovery!WriterFits'
  BY <1>6, <1>8 DEF Recovery!JournalInv, Recovery!WriterFits, Recovery!Newest
<1>9. ASSUME v7' = {} PROVE Recovery!Crossing' \/ Recovery!Told'
  <2>1. CASE Recovery!Loading # {}
    BY <1>6, <2>1 DEF Recovery!Crossing
  <2>2. CASE Recovery!Loading = {}
    <3>1. Recovery!Told
      BY <1>9, <2>2 DEF Recovery!JournalInv, Recovery!Crossing
    <3>2. Recovery!Loading' = {w} /\ v6'[w].row = row
      BY <1>3, <1>4, <1>6, <2>2
    <3>3. ASSUME NEW c \in Recovery!Changes, Recovery!Decides(row, c)
          PROVE  Recovery!InEffect(c)' <=> row = Recovery!Row(c, "success")
      BY <1>9, <3>3
    <3>4. ASSUME NEW c \in Recovery!Changes, ~Recovery!Decides(row, c)
          PROVE  /\ \A u \in Recovery!Writing' : Recovery!Decides(v6'[u].row, c) =>
                       (Recovery!InEffect(c)' <=> v6'[u].row = Recovery!Row(c, "success"))
                 /\ (\A u \in Recovery!Writing' : ~Recovery!Decides(v6'[u].row, c)) =>
                       (Recovery!InEffect(c)' <=> Recovery!Pending(v4', c))
      <4>1. Recovery!InEffect(c)' <=> Recovery!InEffect(c)
        BY <1>9, <3>4
      <4>2. /\ \A u \in Recovery!Writing : Recovery!Decides(v6[u].row, c) =>
                  (Recovery!InEffect(c) <=> v6[u].row = Recovery!Row(c, "success"))
            /\ (\A u \in Recovery!Writing : ~Recovery!Decides(v6[u].row, c)) =>
                  (Recovery!InEffect(c) <=> Recovery!Pending(v4, c))
        BY <2>2, <3>1 DEF Recovery!Told
      <4>3. v4' = v4
        OBVIOUS
      <4> QED
        BY <1>6, <4>1, <4>2, <4>3
    <3> QED
      BY <3>2, <3>3, <3>4 DEF Recovery!Told, Recovery!Changes, Recovery!Decides,
         Recovery!Clears, Recovery!Row
  <2> QED
    BY <2>1, <2>2
<1> QED
  BY <1>5, <1>7, <1>8, <1>9 DEF Recovery!JournalInv

\* What the reset of a writer has undone, when another row is to be recorded.
LEMMA RecordsReset ==
  ASSUME Recovery!JournalInv, v7 = {}, NEW w \in Writers, NEW row \in Recovery!Rows,
         v6[w].pc \in {"none", "next"}, Recovery!Records(w, row),
         v1' => v1, v3 = {} => v3' = {},
         row.outcome = "success" =>
            /\ v6[w].reset = "dns" => ~v1'
            /\ v6[w].reset = "qos" => v3' = {}
            /\ v6[w].reset # "mark" \/ Recovery!Clears(row, "dns-change")
  PROVE  Recovery!ResetFits'
<1> DEFINE e == [v6[w] EXCEPT !.pc = "load", !.row = row,
                              !.fine = @ /\ row.outcome = "success"]
<1>1. v6 \in [Writers -> Recording] /\ v6[w] \in Recording
  BY JournalTypes
<1>2. v6' = [v6 EXCEPT ![w] = e]
  BY <1>1 DEF Recovery!Records
<1>3. /\ e \in Recording /\ e.pc = "load" /\ e.row = row /\ e.reset = v6[w].reset
      /\ e.fine = (v6[w].fine /\ row.outcome = "success")
  BY <1>1, RecordsFields
<1> HIDE DEF e
<1>4. \A u \in Writers : v6'[u] = IF u = w THEN e ELSE v6[u]
  BY <1>1, <1>2, <1>3, Rewritten
<1>5. Recovery!ResetFits
  BY DEF Recovery!JournalInv
<1> QED
  BY <1>3, <1>4, <1>5 DEF Recovery!ResetFits

\* Nothing is reset while a change is made that nobody notes.
LEMMA NoReset ==
  ASSUME Recovery!JournalInv, ~Recovery!Resetting, NEW w \in Writers, NEW row \in Recovery!Rows,
         Recovery!Records(w, row)
  PROVE  Recovery!ResetFits'
<1> DEFINE e == [v6[w] EXCEPT !.pc = "load", !.row = row,
                              !.fine = @ /\ row.outcome = "success"]
<1>1. v6 \in [Writers -> Recording] /\ v6[w] \in Recording
  BY JournalTypes
<1>2. v6' = [v6 EXCEPT ![w] = e]
  BY <1>1 DEF Recovery!Records
<1>3. /\ e \in Recording /\ e.reset = v6[w].reset
  BY <1>1, RecordsFields
<1> HIDE DEF e
<1>4. \A u \in Writers : v6'[u] = IF u = w THEN e ELSE v6[u]
  BY <1>1, <1>2, <1>3, Rewritten
<1> QED
  BY <1>3, <1>4 DEF Recovery!ResetFits, Recovery!Resetting

LEMMA Noted ==
  ASSUME v7 \subseteq Recovery!Reasons, NEW reasons \in SUBSET Recovery!Reasons,
         Recovery!Note(reasons)
  PROVE  v7' \subseteq Recovery!Reasons /\ (v7' = {} => v7 = {} /\ reasons = {})
  BY DEF Recovery!Note

\* What each row decides.
LEMMA RowDecides ==
  ASSUME NEW c \in Recovery!Changes, NEW action, NEW outcome \in {"success", "failed", "partial"},
         action \in {"dns-change", "dns-restore", "qos-change", "qos-restore",
                     "emergency-reset"}
  PROVE  /\ Recovery!Row(action, outcome) \in Recovery!Rows
         /\ Recovery!Row(action, outcome).outcome = outcome
         /\ Recovery!Row(action, outcome) = Recovery!Row(c, "success")
               <=> action = c /\ outcome = "success"
         /\ Recovery!Clears(Recovery!Row(action, outcome), c)
               <=> /\ outcome = "success"
                   /\ \/ action = "emergency-reset"
                      \/ c = "dns-change" /\ action = "dns-restore"
                      \/ c = "qos-change" /\ action = "qos-restore"
         /\ Recovery!Decides(Recovery!Row(action, outcome), c)
               <=> Recovery!Row(action, outcome) = Recovery!Row(c, "success")
                   \/ Recovery!Clears(Recovery!Row(action, outcome), c)
  BY DEF Recovery!Row, Recovery!Rows, Recovery!Clears, Recovery!Decides, Recovery!Changes

LEMMA ChangeDnsInv ==
  ASSUME Recovery!JournalInv, NEW w \in Writers, Recovery!ChangeDns(w)
  PROVE  Recovery!JournalInv'
<1>1. /\ v6[w].pc \in {"none", "next"} /\ UNCHANGED <<v3, v4, v5>>
      /\ v1 \in BOOLEAN /\ v2 \in BOOLEAN /\ v3 \subseteq Processes
      /\ v7 \subseteq Recovery!Reasons /\ (v1 => v2) /\ v6[w] = Recovery!Idle
  BY JournalTypes DEF Recovery!ChangeDns, Recovery!Free, Recovery!JournalInv, Recovery!Tidy
<1>2. CASE /\ v1' = TRUE /\ v2' = TRUE
           /\ Recovery!Records(w, Recovery!Row("dns-change", "success"))
           /\ Recovery!Note(Recovery!If(Recovery!Resetting, "overlap"))
  <2> DEFINE row == Recovery!Row("dns-change", "success")
  <2>1. /\ row \in Recovery!Rows
        /\ \A c \in Recovery!Changes :
             /\ row = Recovery!Row(c, "success") <=> c = "dns-change"
             /\ Recovery!Decides(row, c) <=> c = "dns-change"
    BY RowDecides DEF Recovery!Changes
  <2>2. v7' \subseteq Recovery!Reasons /\ (v7' = {} => v7 = {} /\ ~Recovery!Resetting)
    BY <1>1, <1>2, Noted DEF Recovery!If, Recovery!Reasons
  <2>3. v7' = {} => Recovery!ResetFits'
    BY <1>2, <2>1, <2>2, NoReset
  <2>4. \A c \in Recovery!Changes :
           IF Recovery!Decides(row, c)
           THEN Recovery!InEffect(c)' <=> row = Recovery!Row(c, "success")
           ELSE Recovery!InEffect(c)' <=> Recovery!InEffect(c)
    BY <1>1, <1>2, <2>1 DEF Recovery!InEffect
  <2>5. Recovery!Records(w, row)
    BY <1>2
  <2> HIDE DEF row
  <2> QED
    BY <1>1, <1>2, <2>1, <2>2, <2>3, <2>4, <2>5, RecordsStep
<1>3. CASE /\ v2' \in {v2, TRUE} /\ v1' \in {v1, v2'}
           /\ Recovery!Records(w, Recovery!Row("dns-change", "failed"))
           /\ Recovery!Note(Recovery!If(v1' # v1, "failed"))
  <2> DEFINE row == Recovery!Row("dns-change", "failed")
  <2>1. /\ row \in Recovery!Rows /\ row.outcome = "failed"
        /\ \A c \in Recovery!Changes : ~Recovery!Decides(row, c)
    BY RowDecides DEF Recovery!Changes
  <2>2. v7' \subseteq Recovery!Reasons /\ (v7' = {} => v7 = {} /\ v1' = v1)
    BY <1>1, <1>3, Noted DEF Recovery!If, Recovery!Reasons
  <2>3. Recovery!Records(w, row)
    BY <1>3
  <2> HIDE DEF row
  <2>4. v7' = {} => Recovery!ResetFits'
    BY <1>1, <2>1, <2>2, <2>3, RecordsReset
  <2>5. v7' = {} => \A c \in Recovery!Changes : Recovery!InEffect(c)' <=> Recovery!InEffect(c)
    BY <1>1, <2>2 DEF Recovery!InEffect
  <2>6. v1' \in BOOLEAN /\ v2' \in BOOLEAN /\ (v1' => v2')
    <3>1. (v2' = v2 \/ v2' = TRUE) /\ (v1' = v1 \/ v1' = v2')
      BY <1>3
    <3>2. CASE v2' = v2
      BY <1>1, <3>1, <3>2
    <3>3. CASE v2' = TRUE
      BY <1>1, <3>1, <3>3
    <3> QED
      BY <3>1, <3>2, <3>3
  <2> QED
    BY <1>1, <2>1, <2>2, <2>3, <2>4, <2>5, <2>6, RecordsStep
<1> QED
  BY <1>2, <1>3 DEF Recovery!ChangeDns

LEMMA RestoreDnsInv ==
  ASSUME Recovery!JournalInv, NEW w \in Writers, v6[w].pc \in {"none", "next"},
         v6[w].reset \in {"no", "dns"}, Recovery!RestoreDns(w)
  PROVE  Recovery!JournalInv'
<1>1. /\ UNCHANGED <<v3, v4, v5>> /\ v2
      /\ v1 \in BOOLEAN /\ v2 \in BOOLEAN /\ v3 \subseteq Processes
      /\ v7 \subseteq Recovery!Reasons /\ (v1 => v2)
  BY JournalTypes DEF Recovery!RestoreDns, Recovery!JournalInv, Recovery!Tidy
<1>2. CASE /\ v1' = FALSE /\ v2' = FALSE
           /\ Recovery!Records(w, Recovery!Row("dns-restore", "success"))
           /\ UNCHANGED v7
  <2> DEFINE row == Recovery!Row("dns-restore", "success")
  <2>1. /\ row \in Recovery!Rows /\ row.outcome = "success"
        /\ \A c \in Recovery!Changes :
             /\ row # Recovery!Row(c, "success")
             /\ Recovery!Decides(row, c) <=> c = "dns-change"
    BY RowDecides DEF Recovery!Changes
  <2>2. Recovery!Records(w, row)
    BY <1>2
  <2> HIDE DEF row
  <2>3. v7' = {} => Recovery!ResetFits'
    BY <1>1, <1>2, <2>1, <2>2, RecordsReset
  <2>4. \A c \in Recovery!Changes :
           IF Recovery!Decides(row, c)
           THEN Recovery!InEffect(c)' <=> row = Recovery!Row(c, "success")
           ELSE Recovery!InEffect(c)' <=> Recovery!InEffect(c)
    BY <1>1, <1>2, <2>1 DEF Recovery!InEffect
  <2> QED
    BY <1>1, <1>2, <2>1, <2>2, <2>3, <2>4, RecordsStep
<1>3. CASE /\ v1' \in {v1, FALSE} /\ v2' \in {v2, v1'}
           /\ Recovery!Records(w, Recovery!Row("dns-restore", "failed"))
           /\ Recovery!Note(Recovery!If(v1' # v1, "failed"))
  <2> DEFINE row == Recovery!Row("dns-restore", "failed")
  <2>1. /\ row \in Recovery!Rows /\ row.outcome = "failed"
        /\ \A c \in Recovery!Changes : ~Recovery!Decides(row, c)
    BY RowDecides DEF Recovery!Changes
  <2>2. v7' \subseteq Recovery!Reasons /\ (v7' = {} => v7 = {} /\ v1' = v1)
    BY <1>1, <1>3, Noted DEF Recovery!If, Recovery!Reasons
  <2>3. Recovery!Records(w, row)
    BY <1>3
  <2> HIDE DEF row
  <2>4. v7' = {} => Recovery!ResetFits'
    BY <1>1, <2>1, <2>2, <2>3, RecordsReset
  <2>5. v7' = {} => \A c \in Recovery!Changes : Recovery!InEffect(c)' <=> Recovery!InEffect(c)
    BY <1>1, <2>2 DEF Recovery!InEffect
  <2>6. v1' \in BOOLEAN /\ v2' \in BOOLEAN /\ (v1' => v2')
    BY <1>1, <1>3
  <2> QED
    BY <1>1, <2>1, <2>2, <2>3, <2>4, <2>5, <2>6, RecordsStep
<1> QED
  BY <1>2, <1>3 DEF Recovery!RestoreDns

LEMMA ApplyQosInv ==
  ASSUME Recovery!JournalInv, NEW w \in Writers, NEW p \in Processes, Recovery!ApplyQos(w, p)
  PROVE  Recovery!JournalInv'
<1>1. /\ v6[w].pc \in {"none", "next"} /\ UNCHANGED <<v1, v2, v4, v5>>
      /\ v1 \in BOOLEAN /\ v2 \in BOOLEAN /\ v3 \subseteq Processes
      /\ v7 \subseteq Recovery!Reasons /\ (v1 => v2) /\ v6[w] = Recovery!Idle
  BY JournalTypes DEF Recovery!ApplyQos, Recovery!Free, Recovery!JournalInv, Recovery!Tidy
<1>2. CASE /\ v3' = v3 \cup {p}
           /\ Recovery!Records(w, Recovery!Row("qos-change", "success"))
           /\ Recovery!Note(Recovery!If(Recovery!Resetting, "overlap"))
  <2> DEFINE row == Recovery!Row("qos-change", "success")
  <2>1. /\ row \in Recovery!Rows
        /\ \A c \in Recovery!Changes :
             /\ row = Recovery!Row(c, "success") <=> c = "qos-change"
             /\ Recovery!Decides(row, c) <=> c = "qos-change"
    BY RowDecides DEF Recovery!Changes
  <2>2. v7' \subseteq Recovery!Reasons /\ (v7' = {} => v7 = {} /\ ~Recovery!Resetting)
    BY <1>1, <1>2, Noted DEF Recovery!If, Recovery!Reasons
  <2>3. v7' = {} => Recovery!ResetFits'
    BY <1>2, <2>1, <2>2, NoReset
  <2>4. \A c \in Recovery!Changes :
           IF Recovery!Decides(row, c)
           THEN Recovery!InEffect(c)' <=> row = Recovery!Row(c, "success")
           ELSE Recovery!InEffect(c)' <=> Recovery!InEffect(c)
    BY <1>1, <1>2, <2>1 DEF Recovery!InEffect, Recovery!Changes
  <2>5. Recovery!Records(w, row) /\ v3' \subseteq Processes
    BY <1>1, <1>2
  <2> HIDE DEF row
  <2> QED
    BY <1>1, <1>2, <2>1, <2>2, <2>3, <2>4, <2>5, RecordsStep
<1>3. CASE /\ v3' \in {v3, v3 \ {p}, v3 \cup {p}}
           /\ Recovery!Records(w, Recovery!Row("qos-change", "failed"))
           /\ Recovery!Note(Recovery!If(v3' # v3, "failed"))
  <2> DEFINE row == Recovery!Row("qos-change", "failed")
  <2>1. /\ row \in Recovery!Rows /\ row.outcome = "failed"
        /\ \A c \in Recovery!Changes : ~Recovery!Decides(row, c)
    BY RowDecides DEF Recovery!Changes
  <2>2. v7' \subseteq Recovery!Reasons /\ (v7' = {} => v7 = {} /\ v3' = v3)
    BY <1>1, <1>3, Noted DEF Recovery!If, Recovery!Reasons
  <2>3. Recovery!Records(w, row)
    BY <1>3
  <2> HIDE DEF row
  <2>4. v7' = {} => Recovery!ResetFits'
    BY <1>1, <2>1, <2>2, <2>3, RecordsReset
  <2>5. v7' = {} => \A c \in Recovery!Changes : Recovery!InEffect(c)' <=> Recovery!InEffect(c)
    BY <1>1, <2>2 DEF Recovery!InEffect
  <2>6. v3' \subseteq Processes
    BY <1>1, <1>3
  <2> QED
    BY <1>1, <2>1, <2>2, <2>3, <2>4, <2>5, <2>6, RecordsStep
<1> QED
  BY <1>2, <1>3 DEF Recovery!ApplyQos

LEMMA RemovePoliciesInv ==
  ASSUME Recovery!JournalInv, NEW w \in Writers, v6[w].pc \in {"none", "next"},
         v6[w].reset \in {"no", "qos"}, NEW which, Recovery!RemovePolicies(w, which)
  PROVE  Recovery!JournalInv'
<1>1. /\ UNCHANGED <<v1, v2, v4, v5>>
      /\ v1 \in BOOLEAN /\ v2 \in BOOLEAN /\ v3 \subseteq Processes
      /\ v7 \subseteq Recovery!Reasons /\ (v1 => v2)
  BY JournalTypes DEF Recovery!RemovePolicies, Recovery!JournalInv, Recovery!Tidy
<1>2. CASE /\ v3' = v3 \ which
           /\ Recovery!Records(w, Recovery!Row("qos-restore", "success"))
           /\ Recovery!Note(Recovery!If(v3' # {}, "several"))
  <2> DEFINE row == Recovery!Row("qos-restore", "success")
  <2>1. /\ row \in Recovery!Rows /\ row.outcome = "success"
        /\ \A c \in Recovery!Changes :
             /\ row # Recovery!Row(c, "success")
             /\ Recovery!Decides(row, c) <=> c = "qos-change"
    BY RowDecides DEF Recovery!Changes
  <2>2. v7' \subseteq Recovery!Reasons /\ (v7' = {} => v7 = {} /\ v3' = {})
    BY <1>1, <1>2, Noted DEF Recovery!If, Recovery!Reasons
  <2>3. Recovery!Records(w, row) /\ v3' \subseteq Processes
    BY <1>1, <1>2
  <2> HIDE DEF row
  <2>4. v7' = {} => Recovery!ResetFits'
    BY <1>1, <2>1, <2>2, <2>3, RecordsReset
  <2>5. v7' = {} => \A c \in Recovery!Changes :
           IF Recovery!Decides(row, c)
           THEN Recovery!InEffect(c)' <=> row = Recovery!Row(c, "success")
           ELSE Recovery!InEffect(c)' <=> Recovery!InEffect(c)
    BY <1>1, <2>1, <2>2 DEF Recovery!InEffect, Recovery!Changes
  <2> QED
    BY <1>1, <2>1, <2>2, <2>3, <2>4, <2>5, RecordsStep
<1>3. CASE /\ v3' \in {v3, v3 \ which}
           /\ Recovery!Records(w, Recovery!Row("qos-restore", "failed"))
           /\ Recovery!Note(Recovery!If(v3' # v3, "failed"))
  <2> DEFINE row == Recovery!Row("qos-restore", "failed")
  <2>1. /\ row \in Recovery!Rows /\ row.outcome = "failed"
        /\ \A c \in Recovery!Changes : ~Recovery!Decides(row, c)
    BY RowDecides DEF Recovery!Changes
  <2>2. v7' \subseteq Recovery!Reasons /\ (v7' = {} => v7 = {} /\ v3' = v3)
    BY <1>1, <1>3, Noted DEF Recovery!If, Recovery!Reasons
  <2>3. Recovery!Records(w, row) /\ v3' \subseteq Processes
    BY <1>1, <1>3
  <2> HIDE DEF row
  <2>4. v7' = {} => Recovery!ResetFits'
    BY <1>1, <2>1, <2>2, <2>3, RecordsReset
  <2>5. v7' = {} => \A c \in Recovery!Changes : Recovery!InEffect(c)' <=> Recovery!InEffect(c)
    BY <1>1, <2>2 DEF Recovery!InEffect
  <2> QED
    BY <1>1, <2>1, <2>2, <2>3, <2>4, <2>5, RecordsStep
<1> QED
  BY <1>2, <1>3 DEF Recovery!RemovePolicies

LEMMA JournalMarkInv ==
  ASSUME Recovery!JournalInv, NEW w \in Writers, Recovery!Mark(w)
  PROVE  Recovery!JournalInv'
<1> DEFINE row == Recovery!Row("emergency-reset", IF v6[w].fine THEN "success" ELSE "partial")
<1>1. /\ v6[w].pc = "next" /\ v6[w].reset = "mark" /\ Recovery!Records(w, row)
      /\ UNCHANGED <<v1, v2, v3, v4, v5, v7>>
      /\ v1 \in BOOLEAN /\ v2 \in BOOLEAN /\ v3 \subseteq Processes
      /\ v7 \subseteq Recovery!Reasons /\ (v1 => v2)
  BY JournalTypes DEF Recovery!Mark, Recovery!JournalInv, Recovery!Tidy
<1>2. /\ row \in Recovery!Rows /\ (row.outcome = "success" <=> v6[w].fine)
      /\ \A c \in Recovery!Changes :
           /\ row # Recovery!Row(c, "success")
           /\ Recovery!Decides(row, c) <=> v6[w].fine
           /\ Recovery!Clears(row, c) <=> v6[w].fine
  BY RowDecides DEF Recovery!Changes
<1> HIDE DEF row
<1>3. v7 = {} /\ v6[w].fine => ~v1 /\ v3 = {}
  BY <1>1 DEF Recovery!JournalInv, Recovery!ResetFits
<1>4. v7' = {} => Recovery!ResetFits'
  BY <1>1, <1>2, RecordsReset DEF Recovery!Changes
<1>5. v7' = {} => \A c \in Recovery!Changes :
         IF Recovery!Decides(row, c)
         THEN Recovery!InEffect(c)' <=> row = Recovery!Row(c, "success")
         ELSE Recovery!InEffect(c)' <=> Recovery!InEffect(c)
  BY <1>1, <1>2, <1>3 DEF Recovery!InEffect
<1> QED
  BY <1>1, <1>2, <1>4, <1>5, RecordsStep

\* A step that goes on without the journal, by a writer that was not at it and is
\* not at it afterwards.
LEMMA AsideStep ==
  ASSUME Recovery!JournalInv, NEW w \in Writers, NEW e \in Recording,
         v6' = [v6 EXCEPT ![w] = e], v6[w].pc \in {"none", "next"},
         \/ e = Recovery!Idle
         \/ e.pc = "next" /\ e.reset \in {"dns", "qos"} /\ (e.fine /\ e.reset = "qos" => ~v1),
         v7' \subseteq Recovery!Reasons, v7' = {} => v7 = {},
         UNCHANGED <<v1, v2, v3, v4, v5>>
  PROVE  Recovery!JournalInv'
<1>1. v6 \in [Writers -> Recording]
  BY JournalTypes
<1>2. /\ v6' \in [Writers -> Recording]
      /\ \A u \in Writers : v6'[u] = IF u = w THEN e ELSE v6[u]
  BY <1>1, Rewritten
<1>3. /\ e.pc \in {"none", "next"} /\ (e.pc = "none" => e = Recovery!Idle)
      /\ e.pc = "next" => e.reset # "no"
      /\ e.reset # "mark" /\ (e.reset = "qos" => e.pc = "next")
      /\ e.reset = "dns" => e.pc = "next"
      /\ e.fine /\ e.reset = "qos" => ~v1
  BY DEF Recovery!Idle
<1>4. Recovery!JournalTypeOK'
  BY <1>2, JournalTypes DEF Recovery!JournalTypeOK, Recording
<1>5. /\ Recovery!Loading' = Recovery!Loading /\ Recovery!Writing' = Recovery!Writing
      /\ \A u \in Recovery!Loading \cup Recovery!Writing : v6'[u] = v6[u] /\ u \in Writers
  BY <1>2, <1>3 DEF Recovery!Loading, Recovery!Writing
<1>6. Recovery!Tidy'
  BY <1>2, <1>3, <1>5 DEF Recovery!JournalInv, Recovery!Tidy, Recovery!Free, Recovery!Writing
<1>7. v7' = {} => Recovery!ResetFits'
  BY <1>2, <1>3 DEF Recovery!JournalInv, Recovery!ResetFits
<1>8. v7' = {} => Recovery!WriterFits'
  BY <1>5 DEF Recovery!JournalInv, Recovery!WriterFits, Recovery!Newest
<1>9. (Recovery!Crossing => Recovery!Crossing') /\ (Recovery!Told => Recovery!Told')
  BY <1>5 DEF Recovery!Crossing, Recovery!Told, Recovery!InEffect, Recovery!Pending
<1> QED
  BY <1>4, <1>6, <1>7, <1>8, <1>9 DEF Recovery!JournalInv

LEMMA EmergencyResetInv ==
  ASSUME Recovery!JournalInv, NEW w \in Writers, Recovery!EmergencyReset(w)
  PROVE  Recovery!JournalInv'
<1> DEFINE e == [v6[w] EXCEPT !.pc = "next", !.reset = "dns"]
<1>1. v6[w] \in Recording /\ v6[w].pc = "none" /\ v7 \subseteq Recovery!Reasons
  BY JournalTypes DEF Recovery!EmergencyReset, Recovery!Free
<1>2. e \in Recording /\ e.pc = "next" /\ e.reset = "dns"
  BY <1>1 DEF Recording
<1>3. v6' = [v6 EXCEPT ![w] = e] /\ UNCHANGED <<v1, v2, v3, v4, v5, v7>>
  BY JournalTypes DEF Recovery!EmergencyReset
<1> HIDE DEF e
<1> QED
  BY <1>1, <1>2, <1>3, AsideStep

LEMMA ResetDnsInv ==
  ASSUME Recovery!JournalInv, NEW w \in Writers, Recovery!ResetDns(w)
  PROVE  Recovery!JournalInv'
<1>1. CASE Recovery!RestoreDns(w)
  BY <1>1, RestoreDnsInv DEF Recovery!ResetDns
<1>2. CASE ~v2 /\ v6' = [v6 EXCEPT ![w].reset = "qos"]
           /\ UNCHANGED <<v1, v2, v3, v4, v5, v7>>
  <2> DEFINE e == [v6[w] EXCEPT !.reset = "qos"]
  <2>1. v6[w] \in Recording /\ v6[w].pc = "next" /\ v7 \subseteq Recovery!Reasons
    BY JournalTypes DEF Recovery!ResetDns
  <2>2. e \in Recording /\ e.pc = "next" /\ e.reset = "qos"
    BY <2>1 DEF Recording
  <2>3. v6' = [v6 EXCEPT ![w] = e] /\ ~v1
    BY <1>2, JournalTypes DEF Recovery!JournalInv, Recovery!Tidy
  <2> HIDE DEF e
  <2> QED
    BY <1>2, <2>1, <2>2, <2>3, AsideStep
<1> QED
  BY <1>1, <1>2 DEF Recovery!ResetDns

LEMMA LoadInv ==
  ASSUME Recovery!JournalInv, NEW w \in Writers, Recovery!Load(w)
  PROVE  Recovery!JournalInv'
<1> DEFINE list == Append(Recovery!Newest(v4), v6[w].row)
           e == [v6[w] EXCEPT !.pc = "write", !.rows = list]
<1>1. /\ v6 \in [Writers -> Recording] /\ v6[w] \in Recording /\ v6[w].pc = "load"
      /\ UNCHANGED <<v1, v2, v3, v4, v5>> /\ v7 \subseteq Recovery!Reasons
      /\ v4 \in Seq(Recovery!Rows) /\ Len(v4) <= Keep /\ v6[w].row \in Recovery!Rows
  BY JournalTypes DEF Recovery!Load, Recording
<1>2. Recovery!Newest(v4) \in Seq(Recovery!Rows) /\ Len(Recovery!Newest(v4)) < Keep
  BY <1>1, NewestFits
<1>3. list \in Seq(Recovery!Rows) /\ Len(list) \in 1..Keep
  <2>1. /\ list \in Seq(Recovery!Rows) /\ Len(list) = Len(Recovery!Newest(v4)) + 1
        /\ Len(Recovery!Newest(v4)) \in Nat
    BY <1>1, <1>2, AppendProperties, LenProperties
  <2> QED
    BY <1>2, <2>1, KeepAssumption
<1> HIDE DEF list
<1>4. /\ e \in Recording /\ e.pc = "write" /\ e.rows = list /\ e.row = v6[w].row
      /\ e.reset = v6[w].reset /\ e.fine = v6[w].fine
  BY <1>1, <1>3 DEF Recording
<1>5. v6' = [v6 EXCEPT ![w] = e]
  BY <1>1 DEF Recovery!Load, list
<1> HIDE DEF e
<1>6. /\ v6' \in [Writers -> Recording]
      /\ \A u \in Writers : v6'[u] = IF u = w THEN e ELSE v6[u]
  BY <1>1, <1>4, <1>5, Rewritten
<1>7. v7' \subseteq Recovery!Reasons /\ (v7' = {} => v7 = {} /\ ~Recovery!Overlaps(w))
  BY <1>1, Noted DEF Recovery!Load, Recovery!If, Recovery!Reasons
<1>8. Recovery!JournalTypeOK'
  BY <1>1, <1>6, <1>7, JournalTypes DEF Recovery!JournalTypeOK, Recording
<1>9. Recovery!Tidy'
  BY <1>1, <1>3, <1>4, <1>6 DEF Recovery!JournalInv, Recovery!Tidy, Recovery!Free,
     Recovery!Writing
<1>10. ASSUME v7' = {}
       PROVE  Recovery!ResetFits' /\ Recovery!WriterFits' /\ Recovery!Told'
  <2>1. v7 = {} /\ \A u \in Writers : u # w => v6[u].pc \in {"none", "next"}
    BY <1>7, <1>10 DEF Recovery!Overlaps
  <2>2. Recovery!ResetFits'
    BY <1>1, <1>4, <1>6, <2>1 DEF Recovery!JournalInv, Recovery!ResetFits
  <2>3. /\ Recovery!Loading = {w} /\ Recovery!Writing = {}
        /\ Recovery!Loading' = {} /\ Recovery!Writing' = {w} /\ v6'[w] = e
    BY <1>1, <1>4, <1>6, <2>1 DEF Recovery!Loading, Recovery!Writing
  <2>4. Recovery!WriterFits'
    BY <1>1, <1>4, <2>3 DEF Recovery!WriterFits, list, Recovery!Newest
  <2>5. Recovery!Told
    BY <2>1, <2>3 DEF Recovery!JournalInv, Recovery!Crossing
  <2>6. ASSUME NEW c \in Recovery!Changes
        PROVE  /\ Recovery!Decides(e.row, c) =>
                     (Recovery!InEffect(c) <=> e.row = Recovery!Row(c, "success"))
               /\ ~Recovery!Decides(e.row, c) =>
                     (Recovery!InEffect(c) <=> Recovery!Pending(v4, c))
    BY <1>4, <2>3, <2>5 DEF Recovery!Told
  <2>7. \A c \in Recovery!Changes : /\ Recovery!InEffect(c)' <=> Recovery!InEffect(c)
                                    /\ Recovery!Pending(v4', c) <=> Recovery!Pending(v4, c)
    BY <1>1 DEF Recovery!InEffect
  <2>8. Recovery!Told'
    BY <2>3, <2>6, <2>7 DEF Recovery!Told, Recovery!Changes, Recovery!Decides,
       Recovery!Clears, Recovery!Row
  <2> QED
    BY <2>2, <2>4, <2>8
<1> QED
  BY <1>8, <1>9, <1>10 DEF Recovery!JournalInv

LEMMA JournalWriteInv ==
  ASSUME Recovery!JournalInv, NEW w \in Writers, Recovery!Write(w)
  PROVE  Recovery!JournalInv'
<1> DEFINE e == [v6[w] EXCEPT !.pc = "replace"]
<1>1. /\ v6 \in [Writers -> Recording] /\ v6[w] \in Recording /\ v6[w].pc = "write"
      /\ UNCHANGED <<v1, v2, v3, v4, v7>> /\ v5' = v6[w].rows
      /\ v6' = [v6 EXCEPT ![w] = e]
  BY JournalTypes DEF Recovery!Write
<1>2. /\ e \in Recording /\ e.pc = "replace" /\ e.rows = v6[w].rows /\ e.row = v6[w].row
      /\ e.reset = v6[w].reset /\ e.fine = v6[w].fine
  BY <1>1 DEF Recording
<1> HIDE DEF e
<1>3. /\ v6' \in [Writers -> Recording]
      /\ \A u \in Writers : v6'[u] = IF u = w THEN e ELSE v6[u]
  BY <1>1, <1>2, Rewritten
<1>4. /\ w \in Recovery!Writing
      /\ Recovery!Loading' = Recovery!Loading /\ Recovery!Writing' = Recovery!Writing
      /\ \A u \in Recovery!Loading \cup Recovery!Writing :
            u \in Writers /\ v6'[u].row = v6[u].row /\ v6'[u].rows = v6[u].rows
  BY <1>1, <1>2, <1>3 DEF Recovery!Loading, Recovery!Writing
<1>5. v6[w].rows \in Seq(Recovery!Rows) /\ Len(v6[w].rows) \in 1..Keep
  BY <1>1, <1>4 DEF Recording, Recovery!JournalInv, Recovery!Tidy
<1>6. Recovery!JournalTypeOK'
  BY <1>1, <1>3, <1>5, JournalTypes, KeepAssumption DEF Recovery!JournalTypeOK, Recording
<1>7. Recovery!Tidy'
  BY <1>1, <1>2, <1>3, <1>4 DEF Recovery!JournalInv, Recovery!Tidy, Recovery!Free,
     Recovery!Writing
<1>8. ASSUME v7' = {} PROVE Recovery!ResetFits' /\ Recovery!WriterFits'
  <2>1. Recovery!ResetFits'
    BY <1>1, <1>2, <1>3, <1>8 DEF Recovery!JournalInv, Recovery!ResetFits
  <2>2. Recovery!WriterFits
    BY <1>1, <1>8 DEF Recovery!JournalInv
  <2>3. Recovery!WriterFits'
    BY <1>1, <1>4, <2>2 DEF Recovery!WriterFits, Recovery!Newest
  <2> QED
    BY <2>1, <2>3
<1>9. (Recovery!Crossing => Recovery!Crossing') /\ (Recovery!Told => Recovery!Told')
  BY <1>1, <1>4 DEF Recovery!Crossing, Recovery!Told, Recovery!InEffect, Recovery!Pending
<1> QED
  BY <1>1, <1>6, <1>7, <1>8, <1>9 DEF Recovery!JournalInv

\* What becomes of a writer whose row is recorded, or was lost.
LEMMA RecordedWriter ==
  ASSUME Recovery!JournalInv, NEW w \in Writers, v6[w].pc \in {"load", "write", "replace"},
         v6' = Recovery!Recorded(w)
  PROVE  \E e \in Recording :
            /\ \A u \in Writers : v6'[u] = IF u = w THEN e ELSE v6[u]
            /\ v6' \in [Writers -> Recording]
            /\ e.pc \in {"none", "next"} /\ (e.pc = "none" => e = Recovery!Idle)
            /\ e.pc = "next" => e.reset # "no"
            /\ \/ e.reset = "no"
               \/ e.fine = v6[w].fine /\ e.reset = "qos" /\ e.pc = "next"
                     /\ v6[w].reset = "dns"
               \/ e.fine = v6[w].fine /\ e.reset = "mark" /\ v6[w].reset = "qos"
<1> DEFINE after(step) == [Recovery!Idle EXCEPT !.pc = "next", !.reset = step,
                                                !.fine = v6[w].fine]
           e == CASE v6[w].reset = "dns" -> after("qos")
                  [] v6[w].reset = "qos" -> after("mark")
                  [] OTHER -> Recovery!Idle
<1>1. /\ v6 \in [Writers -> Recording] /\ v6[w] \in Recording /\ v6[w].fine \in BOOLEAN
      /\ v6' = [v6 EXCEPT ![w] = e]
  BY JournalTypes DEF Recovery!Recorded, Recording
<1>2. \A step \in {"qos", "mark"} :
         after(step) \in Recording /\ after(step).pc = "next" /\ after(step).reset = step
         /\ after(step).fine = v6[w].fine
  BY <1>1, IdleRecording DEF Recording, Recovery!Idle
<1>3. Recovery!Idle \in Recording /\ Recovery!Idle.pc = "none" /\ Recovery!Idle.reset = "no"
  BY IdleRecording DEF Recovery!Idle
<1> HIDE DEF after
<1>4. /\ e \in Recording
      /\ e.pc \in {"none", "next"} /\ (e.pc = "none" => e = Recovery!Idle)
      /\ e.pc = "next" => e.reset # "no"
      /\ \/ e.reset = "no"
         \/ e.fine = v6[w].fine /\ e.reset = "qos" /\ e.pc = "next" /\ v6[w].reset = "dns"
         \/ e.fine = v6[w].fine /\ e.reset = "mark" /\ v6[w].reset = "qos"
  BY <1>2, <1>3
<1> HIDE DEF e
<1>5. /\ v6' \in [Writers -> Recording]
      /\ \A u \in Writers : v6'[u] = IF u = w THEN e ELSE v6[u]
  BY <1>1, <1>4, Rewritten
<1> QED
  BY <1>4, <1>5

LEMMA LostInv ==
  ASSUME Recovery!JournalInv, NEW w \in Writers, v6[w].pc \in {"load", "write", "replace"},
         v6' = Recovery!Recorded(w), Recovery!Note({"lost"}),
         UNCHANGED <<v1, v2, v3, v4, v5>>
  PROVE  Recovery!JournalInv'
<1>1. v7' \subseteq Recovery!Reasons /\ v7' # {}
  BY JournalTypes DEF Recovery!Note, Recovery!Reasons
<1>2. PICK e \in Recording :
         /\ \A u \in Writers : v6'[u] = IF u = w THEN e ELSE v6[u]
         /\ v6' \in [Writers -> Recording]
         /\ e.pc \in {"none", "next"} /\ (e.pc = "none" => e = Recovery!Idle)
         /\ e.pc = "next" => e.reset # "no"
  BY RecordedWriter
<1>3. Recovery!JournalTypeOK'
  BY <1>1, <1>2, JournalTypes DEF Recovery!JournalTypeOK, Recording
<1>4. Recovery!Tidy'
  BY <1>2 DEF Recovery!JournalInv, Recovery!Tidy, Recovery!Free, Recovery!Writing
<1> QED
  BY <1>1, <1>3, <1>4 DEF Recovery!JournalInv

LEMMA JournalReplaceInv ==
  ASSUME Recovery!JournalInv, NEW w \in Writers, Recovery!Replace(w)
  PROVE  Recovery!JournalInv'
<1>1. CASE v5 = <<>>
  BY <1>1, LostInv DEF Recovery!Replace
<1>2. CASE v5 # <<>>
  <2> DEFINE dropped == \E c \in {"dns-change", "qos-change"} :
                           /\ Recovery!Pending(v4, c) /\ ~Recovery!Pending(v4', c)
                           /\ ~Recovery!Clears(Recovery!Last(v4'), c)
  <2>1. /\ v6[w].pc = "replace" /\ v6' = Recovery!Recorded(w)
        /\ v4' = v5 /\ v5' = <<>> /\ UNCHANGED <<v1, v2, v3>>
        /\ v7' \subseteq Recovery!Reasons /\ (v7' = {} => v7 = {} /\ ~dropped)
    BY <1>2, JournalTypes, Noted DEF Recovery!Replace, Recovery!If, Recovery!Reasons
  <2>2. PICK e \in Recording :
           /\ \A u \in Writers : v6'[u] = IF u = w THEN e ELSE v6[u]
           /\ v6' \in [Writers -> Recording]
           /\ e.pc \in {"none", "next"} /\ (e.pc = "none" => e = Recovery!Idle)
           /\ e.pc = "next" => e.reset # "no"
           /\ \/ e.reset = "no"
              \/ e.fine = v6[w].fine /\ e.reset = "qos" /\ e.pc = "next"
                    /\ v6[w].reset = "dns"
              \/ e.fine = v6[w].fine /\ e.reset = "mark" /\ v6[w].reset = "qos"
    BY <2>1, RecordedWriter
  <2>3. v5' \in Seq(Recovery!Rows) /\ Len(v5') <= Keep
    BY <2>1, EmptySeq, KeepAssumption
  <2>4. Recovery!JournalTypeOK'
    BY <2>1, <2>2, <2>3, JournalTypes DEF Recovery!JournalTypeOK, Recording
  <2>5. Recovery!Tidy'
    BY <2>1, <2>2 DEF Recovery!JournalInv, Recovery!Tidy, Recovery!Free, Recovery!Writing
  <2>6. ASSUME v7' = {}
        PROVE  /\ Recovery!ResetFits' /\ Recovery!WriterFits'
               /\ Recovery!Crossing' \/ Recovery!Told'
    <3>1. v7 = {} /\ ~dropped /\ Recovery!ResetFits /\ Recovery!WriterFits
          /\ (Recovery!Crossing \/ Recovery!Told)
      BY <2>1, <2>6 DEF Recovery!JournalInv
    <3>2. Recovery!ResetFits'
      BY <2>1, <2>2, <3>1 DEF Recovery!ResetFits
    <3>3. /\ Recovery!Writing = {w}
          /\ Recovery!Loading' = Recovery!Loading /\ Recovery!Writing' = {}
          /\ \A u \in Recovery!Loading : v6'[u] = v6[u]
      BY <2>1, <2>2, <3>1 DEF Recovery!Loading, Recovery!Writing, Recovery!WriterFits
    <3>4. Recovery!WriterFits'
      BY <3>3 DEF Recovery!WriterFits
    <3>5. CASE Recovery!Crossing
      BY <3>2, <3>3, <3>4, <3>5 DEF Recovery!Crossing
    <3>6. CASE Recovery!Told
      <4> DEFINE row == v6[w].row
                 kept == Recovery!Newest(v4)
      <4>1. v4' = Append(kept, row) /\ v6[w] \in Recording
        BY <2>1, <3>1, <3>3, JournalTypes DEF Recovery!WriterFits
      <4>2. /\ kept \in Seq(Recovery!Rows) /\ row \in Recovery!Rows
            /\ \A c \in Recovery!Changes : Recovery!Pending(kept, c) => Recovery!Pending(v4, c)
        BY <4>1, JournalTypes, NewestFits DEF Recording
      <4> HIDE DEF row, kept
      <4>3. Recovery!Last(v4') = row
        BY <4>1, <4>2, AppendProperties, LenProperties DEF Recovery!Last
      <4>4. \A c \in Recovery!Changes :
               Recovery!Pending(v4', c) <=> \/ row = Recovery!Row(c, "success")
                                            \/ ~Recovery!Clears(row, c) /\ Recovery!Pending(kept, c)
        BY <4>1, <4>2, AppendedPending
      <4>5. \A c \in Recovery!Changes :
               Recovery!Pending(v4, c) /\ ~Recovery!Clears(row, c) => Recovery!Pending(v4', c)
        BY <3>1, <4>3 DEF Recovery!Changes
      <4>6. ASSUME NEW c \in Recovery!Changes,
                   \A v \in Recovery!Loading : ~Recovery!Decides(v6[v].row, c)
            PROVE  Recovery!InEffect(c) <=> Recovery!Pending(v4', c)
        <5>1. /\ Recovery!Decides(row, c) =>
                    (Recovery!InEffect(c) <=> row = Recovery!Row(c, "success"))
              /\ ~Recovery!Decides(row, c) =>
                    (Recovery!InEffect(c) <=> Recovery!Pending(v4, c))
          BY <3>3, <3>6, <4>6 DEF Recovery!Told, row
        <5>2. row = Recovery!Row(c, "success") => ~Recovery!Clears(row, c)
          BY DEF Recovery!Row, Recovery!Clears, Recovery!Changes
        <5>3. CASE Recovery!Decides(row, c)
          BY <4>4, <5>1, <5>2, <5>3 DEF Recovery!Decides
        <5>4. CASE ~Recovery!Decides(row, c)
          BY <4>2, <4>4, <4>5, <5>1, <5>4 DEF Recovery!Decides
        <5> QED
          BY <5>3, <5>4
      <4>7. \A c \in Recovery!Changes : Recovery!InEffect(c)' <=> Recovery!InEffect(c)
        BY <2>1 DEF Recovery!InEffect
      <4>8. \A c \in Recovery!Changes, v \in Recovery!Loading :
               Recovery!Decides(v6[v].row, c) =>
                  (Recovery!InEffect(c) <=> v6[v].row = Recovery!Row(c, "success"))
        BY <3>6 DEF Recovery!Told
      <4>9. \A c \in Recovery!Changes, v \in Recovery!Loading :
               Recovery!Decides(v6'[v].row, c) <=> Recovery!Decides(v6[v].row, c)
        BY <3>3
      <4>10. Recovery!Told'
        BY <3>3, <4>6, <4>7, <4>8, <4>9 DEF Recovery!Told, Recovery!Changes,
           Recovery!Decides, Recovery!Clears, Recovery!Row
      <4> QED
        BY <3>2, <3>4, <4>10
    <3> QED
      BY <3>1, <3>5, <3>6
  <2> QED
    BY <2>4, <2>5, <2>6 DEF Recovery!JournalInv
<1> QED
  BY <1>1, <1>2

LEMMA JournalDieInv ==
  ASSUME Recovery!JournalInv, NEW w \in Writers, Recovery!Die(w)
  PROVE  Recovery!JournalInv'
<1> DEFINE e == Recovery!Idle
<1>1. /\ v6 \in [Writers -> Recording] /\ v6[w] \in Recording /\ e \in Recording
      /\ UNCHANGED <<v1, v2, v3, v4, v5>> /\ v6' = [v6 EXCEPT ![w] = e]
      /\ v6[w].pc # "none" /\ e.pc = "none"
  BY JournalTypes, IdleRecording DEF Recovery!Die, Recovery!Free, Recovery!Idle
<1>2. v7' \subseteq Recovery!Reasons /\ (v7' = {} => v7 = {} /\ v6[w].pc = "next")
  BY JournalTypes, Noted DEF Recovery!Die, Recovery!If, Recovery!Reasons
<1>3. CASE v6[w].pc = "next"
  BY <1>1, <1>2, <1>3, AsideStep
<1>4. CASE v6[w].pc # "next"
  <2> HIDE DEF e
  <2>1. /\ v6' \in [Writers -> Recording]
        /\ \A u \in Writers : v6'[u] = IF u = w THEN e ELSE v6[u]
    BY <1>1, Rewritten
  <2>2. Recovery!JournalTypeOK'
    BY <1>1, <1>2, <2>1, JournalTypes DEF Recovery!JournalTypeOK, Recording
  <2>3. Recovery!Tidy'
    BY <1>1, <2>1 DEF Recovery!JournalInv, Recovery!Tidy, Recovery!Free, Recovery!Writing, e
  <2> QED
    BY <1>2, <1>4, <2>2, <2>3 DEF Recovery!JournalInv
<1> QED
  BY <1>3, <1>4

LEMMA JournalStepInv ==
  ASSUME Recovery!JournalInv, Recovery!JournalNext \/ UNCHANGED Recovery!journalVars
  PROVE  Recovery!JournalInv'
<1>1. CASE UNCHANGED Recovery!journalVars
  <2>1. UNCHANGED <<v1, v2, v3, v4, v5, v6, v7>>
    BY <1>1 DEF Recovery!journalVars
  <2>2. Recovery!JournalTypeOK' /\ Recovery!Tidy'
    BY <2>1 DEF Recovery!JournalInv, Recovery!JournalTypeOK, Recovery!Tidy, Recovery!Free,
       Recovery!Writing
  <2>3. Recovery!Loading' = Recovery!Loading /\ Recovery!Writing' = Recovery!Writing
    BY <2>1 DEF Recovery!Loading, Recovery!Writing
  <2>4. /\ Recovery!ResetFits => Recovery!ResetFits'
        /\ Recovery!WriterFits => Recovery!WriterFits'
    BY <2>1, <2>3 DEF Recovery!ResetFits, Recovery!WriterFits, Recovery!Newest
  <2>5. (Recovery!Crossing => Recovery!Crossing') /\ (Recovery!Told => Recovery!Told')
    BY <2>1, <2>3 DEF Recovery!Crossing, Recovery!Told, Recovery!InEffect, Recovery!Pending
  <2> QED
    BY <2>1, <2>2, <2>4, <2>5 DEF Recovery!JournalInv
<1>2. CASE Recovery!JournalNext
  <2>1. PICK w \in Writers :
           \/ Recovery!ChangeDns(w) \/ Recovery!Disconnect(w)
           \/ \E p \in Processes : Recovery!ApplyQos(w, p) \/ Recovery!RemoveQos(w, p)
           \/ Recovery!EmergencyReset(w) \/ Recovery!ResetDns(w) \/ Recovery!ResetQos(w)
           \/ Recovery!Mark(w) \/ Recovery!Load(w) \/ Recovery!Write(w)
           \/ Recovery!Replace(w) \/ Recovery!NotWritten(w) \/ Recovery!Die(w)
    BY <1>2 DEF Recovery!JournalNext
  <2>2. Recovery!Free(w) => v6[w].pc = "none" /\ v6[w].reset = "no"
    BY DEF Recovery!JournalInv, Recovery!Tidy, Recovery!Free, Recovery!Idle
  <2>3. CASE Recovery!Disconnect(w)
    BY <2>2, <2>3, RestoreDnsInv DEF Recovery!Disconnect
  <2>4. CASE \E p \in Processes : Recovery!RemoveQos(w, p)
    BY <2>2, <2>4, RemovePoliciesInv DEF Recovery!RemoveQos
  <2>5. CASE Recovery!ResetQos(w)
    BY <2>5, RemovePoliciesInv DEF Recovery!ResetQos
  <2>6. CASE Recovery!NotWritten(w)
    BY <2>6, LostInv DEF Recovery!NotWritten
  <2> QED
    BY <2>1, <2>3, <2>4, <2>5, <2>6, ChangeDnsInv, ApplyQosInv, EmergencyResetInv,
       ResetDnsInv, JournalMarkInv, LoadInv, JournalWriteInv, JournalReplaceInv, JournalDieInv
<1> QED
  BY <1>1, <1>2

LEMMA JournalInitInv == Recovery!JournalInit => Recovery!JournalInv
<1> SUFFICES ASSUME Recovery!JournalInit PROVE Recovery!JournalInv
  OBVIOUS
<1>1. /\ v1 = FALSE /\ v2 = FALSE /\ v3 = {} /\ v4 = <<>> /\ v5 = <<>> /\ v7 = {}
      /\ v6 = [w \in Writers |-> Recovery!Idle]
  BY DEF Recovery!JournalInit
<1>2. /\ v6 \in [Writers -> Recording]
      /\ \A w \in Writers : v6[w] = Recovery!Idle /\ v6[w].pc = "none" /\ v6[w].reset = "no"
  BY <1>1, IdleRecording DEF Recovery!Idle
<1>3. <<>> \in Seq(Recovery!Rows) /\ Len(<<>>) <= Keep
  BY EmptySeq, KeepAssumption
<1>4. Recovery!JournalTypeOK
  BY <1>1, <1>2, <1>3 DEF Recovery!JournalTypeOK, Recording
<1>5. Recovery!Loading = {} /\ Recovery!Writing = {}
  BY <1>2 DEF Recovery!Loading, Recovery!Writing
<1>6. Recovery!Tidy /\ Recovery!ResetFits /\ Recovery!WriterFits
  BY <1>1, <1>2, <1>5 DEF Recovery!Tidy, Recovery!ResetFits, Recovery!WriterFits
<1>7. DOMAIN v4 = {}
  BY <1>1
<1>8. Recovery!Told
  BY <1>1, <1>5, <1>7 DEF Recovery!Told, Recovery!InEffect, Recovery!Pending
<1> QED
  BY <1>4, <1>6, <1>8 DEF Recovery!JournalInv

LEMMA JournalTells == Recovery!JournalInv => Recovery!ReceiptIsRight
<1> SUFFICES ASSUME Recovery!JournalInv, \A w \in Writers : Recovery!Free(w), v7 = {}
             PROVE  /\ Recovery!Pending(v4, "dns-change") <=> v1
                    /\ Recovery!Pending(v4, "qos-change") <=> v3 # {}
  BY DEF Recovery!ReceiptIsRight
<1>1. Recovery!Loading = {} /\ Recovery!Writing = {}
  BY DEF Recovery!Loading, Recovery!Writing, Recovery!Free
<1>2. Recovery!Told
  BY <1>1 DEF Recovery!JournalInv, Recovery!Crossing
<1>3. \A c \in Recovery!Changes : Recovery!InEffect(c) <=> Recovery!Pending(v4, c)
  BY <1>1, <1>2 DEF Recovery!Told
<1> QED
  BY <1>3 DEF Recovery!Changes, Recovery!InEffect

LEMMA JournalInvariance == Spec => [](part = "journal" => Recovery!JournalInv)
<1>1. Init => (part = "journal" => Recovery!JournalInv)
  BY JournalInitInv DEF Init
<1>2. (part = "journal" => Recovery!JournalInv) /\ [Next]_vars
         => (part = "journal" => Recovery!JournalInv)'
  BY PartSteps, JournalStepInv
<1> QED
  BY <1>1, <1>2, PTL DEF Spec

(***************************************************************************)
(* Between two operations the receipt lists exactly what has to be undone, *)
(* whatever was changed, reset or interrupted before, for any number of    *)
(* threads and policies and any length of the journal                      *)
(* (recovery_service.py:43-110): while a row is on its way to the file,    *)
(* what is in effect and what the file tells differ by that row alone.     *)
(***************************************************************************)
THEOREM ReceiptRight == Spec => []ReceiptIsRight
<1>1. (part = "journal" => Recovery!JournalInv) => ReceiptIsRight
  BY JournalTells DEF ReceiptIsRight
<1> QED
  BY <1>1, JournalInvariance, PTL
===============================================================================
