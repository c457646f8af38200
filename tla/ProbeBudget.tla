------------------------------ MODULE ProbeBudget ------------------------------
(***************************************************************************)
(* RouteDNA's daily allowance for probes (route_dna_service): each search  *)
(* and each diagnostic reserves what it is going to transfer, in a file    *)
(* that is read, and replaced by a rename, without a lock.  What transfers *)
(* is bounded by what was reserved (probe_policy,                          *)
(* measure_controlled_bandwidth).                                          *)
(***************************************************************************)
EXTENDS Naturals, FiniteSets

CONSTANTS Probers,   \* bound: worker threads that reserve at the same time
          Limit,     \* the day's allowance, in units of 96 KB
          Requests,  \* what the modes ask for, in the same unit
          NoBudget   \* no file

VARIABLES budget,    \* the file
          draft,     \* its .tmp
          prober,    \* the threads in reserve_probe_budget
          granted,   \* history: what was reserved today
          today,     \* the day, of which two in turn are told apart
          unequal    \* history: why the file does not say what was reserved

budgetVars == <<budget, draft, prober, granted, today, unequal>>

Light == 1   \* min(96, ...): what a refused request still gets

Entry == [day : {0, 1}, used : Nat]
Waiting == [pc |-> "none", day |-> 0, used |-> 0, reserved |-> 0]

Least(a, b) == IF a < b THEN a ELSE b
Rest(used) == IF used < Limit THEN Limit - used ELSE 0

BudgetTypeOK ==
    /\ budget \in Entry \cup {NoBudget} /\ draft \in Entry \cup {NoBudget}
    /\ prober \in [Probers -> [pc : {"none", "write", "replace", "unlink"},
                               day : {0, 1}, used : Nat, reserved : Nat]]
    /\ granted \in Nat /\ today \in {0, 1}
    /\ unequal \subseteq {"overlap", "unreadable", "midnight"}

BudgetInit ==
    /\ budget = NoBudget /\ draft = NoBudget
    /\ prober = [p \in Probers |-> Waiting]
    /\ granted = 0 /\ today = 0 /\ unequal = {}

Working == {p \in Probers : prober[p].pc # "none"}

\* reserve_probe_budget up to its decision.  A file that cannot be read counts
\* as an empty one; of a request that is too large a light probe remains.
Reserve(p, requested, readable) ==
    LET used == IF readable /\ budget # NoBudget /\ budget.day = today
                THEN budget.used ELSE 0
        allowed == used + requested <= Limit
    IN
    /\ prober[p].pc = "none"
    /\ prober' = [prober EXCEPT ![p] =
          [pc |-> "write", day |-> today, used |-> used,
           reserved |-> IF allowed THEN requested ELSE Least(Light, Rest(used))]]
    /\ unequal' = unequal \cup (IF Working # {} THEN {"overlap"} ELSE {})
                          \cup (IF readable \/ budget = NoBudget THEN {} ELSE {"unreadable"})
    /\ UNCHANGED <<budget, draft, granted, today>>

\* Mutant: the file holds the last reservation only
WriteDraftOfLast(p) ==
    /\ prober[p].pc = "write"
    /\ draft' = [day |-> prober[p].day, used |-> prober[p].reserved]
    /\ prober' = [prober EXCEPT ![p].pc = "replace"]
    /\ UNCHANGED <<budget, granted, today, unequal>>

WriteDraft(p) ==
    /\ prober[p].pc = "write"
    /\ draft' = [day |-> prober[p].day, used |-> prober[p].used + prober[p].reserved]
    /\ prober' = [prober EXCEPT ![p].pc = "replace"]
    /\ UNCHANGED <<budget, granted, today, unequal>>

\* The rename takes whichever draft is there; without one it raises, and the
\* caller goes on without a reservation.
Rename(p) ==
    /\ prober[p].pc = "replace"
    /\ IF draft = NoBudget
       THEN UNCHANGED <<budget, draft, granted>>
       ELSE /\ budget' = draft /\ draft' = NoBudget
            /\ granted' = granted + prober[p].reserved
    /\ prober' = [prober EXCEPT ![p].pc = "unlink"]
    /\ UNCHANGED <<today, unequal>>

\* The finally clause, also of a write that failed
Unlink(p) ==
    /\ prober[p].pc \in {"write", "replace", "unlink"}
    /\ draft' = NoBudget
    /\ prober' = [prober EXCEPT ![p] = Waiting]
    /\ UNCHANGED <<budget, granted, today, unequal>>

\* The program dies with all its threads.
BudgetCrash ==
    /\ prober' = [p \in Probers |-> Waiting]
    /\ UNCHANGED <<budget, draft, granted, today, unequal>>

Midnight ==
    /\ today' = 1 - today
    /\ granted' = 0
    /\ budget' = IF budget # NoBudget /\ budget.day = today' THEN NoBudget ELSE budget
    /\ unequal' = unequal \cup (IF Working # {} THEN {"midnight"} ELSE {})
    /\ UNCHANGED <<draft, prober>>

BudgetNext ==
    \/ \E p \in Probers :
         \/ \E requested \in Requests, readable \in BOOLEAN : Reserve(p, requested, readable)
         \/ WriteDraft(p) \/ Rename(p) \/ Unlink(p)
    \/ BudgetCrash \/ Midnight

BudgetSpec == BudgetInit /\ [][BudgetNext]_budgetVars

-------------------------------------------------------------------------------
BudgetClean == unequal = {}

\* The allowance that was given out on a day never exceeds the limit of the
\* day, and the file counts all of it (route_dna_service.py:489-510) - while one
\* thread at a time reserves and the file can be read.
BudgetHolds ==
    unequal = {} =>
       /\ granted <= Limit
       /\ Working = {} /\ granted > 0
            => budget # NoBudget /\ budget.day = today /\ budget.used = granted

\* BudgetHolds, made inductive: one thread at most has read a count, which is
\* what was granted, and the draft that it is about to rename is its own.
OneReserves ==
    unequal = {} =>
       /\ granted <= Limit
       /\ \A p, q \in Working : p = q
       /\ budget # NoBudget /\ budget.day = today => budget.used = granted
       /\ granted > 0 => budget # NoBudget /\ budget.day = today
       /\ \A p \in Probers :
             /\ prober[p].pc \in {"write", "replace"} =>
                   /\ prober[p].day = today /\ prober[p].used = granted
                   /\ granted + prober[p].reserved <= Limit
             /\ prober[p].pc = "replace" =>
                   draft = [day  |-> prober[p].day,
                            used |-> prober[p].used + prober[p].reserved]

BudgetInv == BudgetTypeOK /\ OneReserves
===============================================================================
