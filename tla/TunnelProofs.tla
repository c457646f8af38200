----------------------------- MODULE TunnelProofs -----------------------------
(***************************************************************************)
(* Theorems about Tunnel, for every set of configurations and any number   *)
(* of health checks: type correctness, one worker at a time, what is shown *)
(* is what was started, no core runs unseen, and an exit leaves none.      *)
(***************************************************************************)
EXTENDS Tunnel, Integers, WellFoundedInduction, SequenceTheorems,
        FiniteSetTheorems, TLAPS

VmType == [busy : BOOLEAN, connected : BOOLEAN, active : Configs \cup {None},
           recovering : BOOLEAN, failures : 0..FailureLimit,
           standby : Seq(Configs), ranked : Seq(Configs), watching : BOOLEAN]
WorkerType == [op : {"none", "connect", "failover", "disconnect", "trial",
                     "subscription"},
               pc : {"none", "probe", "stop", "check", "spawn", "settle",
                     "outside", "lost"},
               queue : Seq(Configs), ordered : Seq(Configs)]
CoreType == [held : Configs \cup {None}, alive : BOOLEAN, files : BOOLEAN]
MessageType == [kind : {"connect", "disconnect", "trial", "subscription", "health"},
                ok : BOOLEAN, config : Configs \cup {None}]

-------------------------------------------------------------------------------
(***************************************************************************)
(* The inductive invariant.  The reports of workers are taken out of the   *)
(* inbox: what counts is which are there, not where.                       *)
(***************************************************************************)
IsReport(m) == m.kind # "health"
Started(m)  == m.kind = "connect" /\ m.ok

Reports  == {i \in DOMAIN inbox : IsReport(inbox[i])}
Reported == {inbox[i] : i \in Reports}

\* A worker that has chosen a route keeps it until the next choice.
WorkerShape ==
    /\ worker.op = "none" => worker = Idle
    /\ worker.pc \in {"check", "spawn", "settle", "lost"} =>
          worker.op \in Starts /\ worker.queue # <<>>
    /\ worker.op = "connect" /\ worker.pc = "stop" => worker.queue # <<>>

\* The busy flag stands for one worker, or for its one report.
OneOperation ==
    /\ vm.busy <=> (worker # Idle \/ Reported # {})
    /\ worker # Idle => Reported = {}
    /\ \A i, j \in Reports : i = j

\* What the core is while a worker or its report is under way.
CoreFollowsWorker ==
    /\ worker.pc \in {"check", "spawn", "lost"} => ~core.alive /\ core.held = None
    /\ worker.pc = "settle" => core.held \in {Head(worker.queue), None}
    /\ \A m \in Reported :
          /\ Started(m) => m.config # None /\ core.held \in {m.config, None}
          /\ m.kind = "disconnect" => ~core.alive

\* What is shown has a name, a watchdog and, but for what a worker has just put
\* in its place, the core.
ShownIsHeld ==
    vm.connected =>
       /\ vm.active # None /\ vm.watching
       /\ \/ core.held \in {vm.active, None}
          \/ worker.pc = "settle"
          \/ \E m \in Reported : Started(m)

\* A core that runs without being shown is one that a worker is about to stop or
\* to report.
UnseenIsPassing ==
    core.alive /\ ~vm.connected /\ ~abandoned =>
       \/ worker.op = "failover" /\ worker.pc = "stop"
       \/ worker.pc = "settle"
       \/ \E m \in Reported : Started(m)

\* After the exit has stopped the core, only a start under way has another one.
LeavingStops ==
    app = "leaving" /\ core.alive =>
       worker.op \in Starts \/ \E m \in Reported : m.kind = "connect"

IInv == /\ TypeOK /\ WorkerShape /\ OneOperation /\ CoreFollowsWorker
        /\ ShownIsHeld /\ UnseenIsPassing /\ LeavingStops

-------------------------------------------------------------------------------
(***************************************************************************)
(* Lists of routes.  What Without computes is proved by its least          *)
(* counterexample, since an induction would have to be over an operator.   *)
(***************************************************************************)
\* A set of numbers that is not empty has a least one.
LEMMA NatMin == ASSUME NEW T, T \subseteq Nat, T # {} PROVE \E n \in T : \A m \in T : n <= m
<1>1. PICK x \in T : \A y \in T : ~ (<<y, x>> \in OpToRel(<,Nat))
  BY NatLessThanWellFounded, WFMin
<1>2. \A n,m \in Nat : n < m => <<n, m>> \in OpToRel(<,Nat)
  BY DEF OpToRel
<1>3. \A y \in T : ~(y < x)
  BY <1>1, <1>2
<1> QED
  BY <1>3

\* Entry n of the table that Without fills, and a table filled up to n.
Entry(list, S, f, n) ==
    IF n = 0 THEN <<>>
    ELSE IF list[n] \in S THEN f[n - 1]
    ELSE Append(f[n - 1], list[n])

Fills(list, S, f, n) ==
    f \in [0..n -> Seq(Configs)] /\ \A k \in 0..n : f[k] = Entry(list, S, f, k)

LEMMA EntryType ==
  ASSUME NEW list \in Seq(Configs), NEW S, NEW n \in 1..Len(list), NEW f, f[n-1] \in Seq(Configs)
  PROVE  Entry(list, S, f, n) \in Seq(Configs)
BY DEF Entry

LEMMA FillsNext ==
  ASSUME NEW list \in Seq(Configs), NEW S, NEW n \in 1..Len(list), NEW f, Fills(list, S, f, n - 1)
  PROVE  \E g : Fills(list, S, g, n)
<1> DEFINE e == Entry(list, S, f, n)
           g == [k \in 0..n |-> IF k = n THEN e ELSE f[k]]
<1>1. n \in Nat /\ n - 1 \in Nat /\ n # 0
  OBVIOUS
<1>2. f \in [0..(n-1) -> Seq(Configs)] /\ \A k \in 0..(n-1) : f[k] = Entry(list, S, f, k)
  BY DEF Fills
<1>3. e \in Seq(Configs)
  BY <1>2, EntryType
<1>4. g \in [0..n -> Seq(Configs)]
  <2> HIDE DEF e
  <2> QED BY <1>2, <1>3
<1>5. ASSUME NEW k \in 0..n PROVE g[k] = Entry(list, S, g, k)
  <2> HIDE DEF e
  <2>1. \A j \in 0..(n-1) : g[j] = f[j]
    OBVIOUS
  <2>2. CASE k = n
    <3>1. g[k] = e BY <2>2
    <3>2. g[n-1] = f[n-1] OBVIOUS
    <3> HIDE DEF g
    <3> QED BY <3>1, <3>2, <2>2 DEF Entry, e
  <2>3. CASE k # n
    <3>1. g[k] = f[k] /\ f[k] = Entry(list, S, f, k)
      BY <1>2, <2>3
    <3>2. k # 0 => g[k-1] = f[k-1] 
      OBVIOUS
    <3> HIDE DEF g
    <3> QED BY <3>1, <3>2 DEF Entry
  <2> QED BY <2>2, <2>3
<1> HIDE DEF g
<1> QED
  BY <1>4, <1>5 DEF Fills

LEMMA Filled ==
  ASSUME NEW list \in Seq(Configs), NEW S
  PROVE  \A n \in 0..Len(list) : \E f : Fills(list, S, f, n)
<1> DEFINE T == {n \in 0..Len(list) : ~ \E f : Fills(list, S, f, n)}
<1>1. SUFFICES ASSUME T # {} PROVE FALSE
  OBVIOUS
<1>2. T \subseteq Nat OBVIOUS
<1>3. PICK m \in T : \A k \in T : m <= k
  <2> HIDE DEF T
  <2> QED BY <1>1, <1>2, NatMin
<1>4. m # 0
  <2>1. Fills(list, S, [k \in 0..0 |-> <<>>], 0)
    BY DEF Fills, Entry
  <2> QED BY <2>1
<1>5. m \in 1..Len(list) /\ m - 1 \in 0..Len(list) /\ ~(m <= m - 1)
  BY <1>4
<1>6. m - 1 \notin T
  BY <1>3
<1>7. PICK f : Fills(list, S, f, m - 1)
  BY <1>6, <1>5
<1>8. \E g : Fills(list, S, g, m)
  BY <1>7, <1>5, FillsNext
<1> QED
  BY <1>8

\* The elements of a list that are not in a set make a list.
LEMMA WithoutType == 
  ASSUME NEW list \in Seq(Configs), NEW S PROVE Without(list,S) \in Seq(Configs)
<1> DEFINE N == Len(list)
<1>0. N \in Nat OBVIOUS
<1>1. PICK f : Fills(list, S, f, N)
  <2>1. N \in 0..N OBVIOUS
  <2>2. \E f : Fills(list, S, f, N)
    BY <2>1, Filled
  <2> QED BY <2>2
<1>2. f = [n \in 0..N |-> Entry(list, S, f, n)]
  BY <1>1 DEF Fills
<1> DEFINE rest == CHOOSE r : r = [n \in 0..N |-> Entry(list, S, r, n)]
<1>3. rest = [n \in 0..N |-> Entry(list, S, rest, n)] OBVIOUS
<1>4. \A n \in 0..N : rest[n] = Entry(list, S, rest, n)
  <2> HIDE DEF rest
  <2> QED BY <1>3
<1>5. Without(list, S) = rest[N]
  BY DEF Without, Entry
<1> DEFINE U == {m \in 0..N : rest[m] # f[m]}
<1>6. U = {}
  <2>1. SUFFICES ASSUME U # {} PROVE FALSE
    OBVIOUS
  <2>2. U \subseteq Nat OBVIOUS
  <2>3. PICK m \in U : \A k \in U : m <= k
    <3> HIDE DEF U
    <3> QED BY <2>1, <2>2, NatMin
  <2> HIDE DEF rest
  <2>4. rest[m] # f[m] /\ m \in 0..N
    OBVIOUS
  <2>5. m = 0 \/ (m - 1 \in 0..N /\ m - 1 \notin U) BY <2>3
  <2>6. m = 0 \/ rest[m - 1] = f[m - 1]
    BY <2>5
  <2>7. rest[m] = Entry(list, S, rest, m) /\ f[m] = Entry(list, S, f, m)
    BY <1>1 DEF Fills
  <2>8. Entry(list, S, rest, m) = Entry(list, S, f, m)
    BY <2>6 DEF Entry
  <2> QED BY <2>7, <2>8
<1>7. f[N] \in Seq(Configs)
  BY <1>1 DEF Fills
<1> HIDE DEF rest
<1>8. rest[N] = f[N]
  BY <1>6
<1> QED
  BY <1>5, <1>7, <1>8

-------------------------------------------------------------------------------
\* TypeOK by the names of the types, before and after a step.
LEMMA TypeSplit ==
  TypeOK <=> /\ vm \in VmType /\ stored \in SUBSET Configs /\ worker \in WorkerType
             /\ core \in CoreType /\ stray \in BOOLEAN /\ pings \in 0..MaxPings
             /\ inbox \in Seq(MessageType)
             /\ app \in {"up", "leaving", "closed", "down"} /\ abandoned \in BOOLEAN
BY DEF TypeOK, VmType, WorkerType, CoreType, MessageType

LEMMA TypeJoin ==
  ASSUME vm' \in VmType, stored' \in SUBSET Configs, worker' \in WorkerType,
         core' \in CoreType, stray' \in BOOLEAN, pings' \in 0..MaxPings,
         inbox' \in Seq(MessageType),
         app' \in {"up", "leaving", "closed", "down"}, abandoned' \in BOOLEAN
  PROVE  TypeOK'
BY DEF TypeOK, VmType, WorkerType, CoreType, MessageType

LEMMA MinTwo ==
  ASSUME NEW a \in Nat, NEW b \in Nat PROVE Min({a, b}) = IF a <= b THEN a ELSE b
<1>1. CASE a <= b
  <2>1. \A z \in {a, b} : (\A y \in {a, b} : z <= y) <=> z = a
    BY <1>1
  <2> QED BY DEF Min
<1>2. CASE ~(a <= b)
  <2>1. \A z \in {a, b} : (\A y \in {a, b} : z <= y) <=> z = b
    BY <1>2
  <2> QED BY DEF Min
<1> QED
  BY <1>1, <1>2

LEMMA TakeType ==
  ASSUME NEW list \in Seq(Configs), NEW n \in Nat
  PROVE  Take(list, n) \in Seq(Configs)
<1> DEFINE k == Min({n, Len(list)})
<1>1. k \in Int /\ k <= Len(list)
  BY MinTwo
<1> HIDE DEF k
<1>2. \A i \in 1..k : list[i] \in Configs
  BY <1>1
<1>3. SubSeq(list, 1, k) \in Seq(Configs)
  BY <1>1
<1> QED
  BY <1>3 DEF Take, k

LEMMA RoutesType == Routes \subseteq Seq(Configs)
<1>1. Cardinality(Configs) \in Nat
  BY ConfigsAssumption, FS_CardinalityType
<1> QED
  BY DEF Routes, SeqOf

LEMMA OrderType ==
  ASSUME vm \in VmType PROVE FailoverOrder \in Seq(Configs)
<1>1. vm.standby \in Seq(Configs) /\ vm.ranked \in Seq(Configs)
  BY DEF VmType
<1> DEFINE first == IF vm.standby # <<>> /\ Head(vm.standby) # vm.active
                    THEN <<Head(vm.standby)>> ELSE <<>>
<1>2. first \in Seq(Configs)
  BY <1>1
<1>3. Without(vm.ranked, {vm.active} \cup ToSet(first)) \in Seq(Configs)
  BY <1>1, WithoutType
<1> HIDE DEF first
<1>4. first \o Without(vm.ranked, {vm.active} \cup ToSet(first)) \in Seq(Configs)
  BY <1>2, <1>3
<1> QED
  BY <1>4 DEF FailoverOrder, first

-------------------------------------------------------------------------------
(***************************************************************************)
(* The inbox: a report arrives or is handled, a health check arrives or is *)
(* handled.                                                                *)
(***************************************************************************)
LEMMA AppendReport ==
  ASSUME TypeOK, NEW m \in MessageType, IsReport(m), Reported = {},
         inbox' = Append(inbox, m)
  PROVE  /\ inbox' \in Seq(MessageType)
         /\ Reported' = {m}
         /\ (\A i, j \in Reports : i = j)'
<1>1. inbox \in Seq(MessageType) /\ Len(inbox) \in Nat
  BY TypeSplit
<1>2. /\ DOMAIN inbox' = 1..(Len(inbox) + 1)
      /\ DOMAIN inbox = 1..Len(inbox)
      /\ inbox'[Len(inbox) + 1] = m
      /\ \A i \in 1..Len(inbox) : inbox'[i] = inbox[i]
  OBVIOUS
<1>3. \A i \in 1..Len(inbox) : ~IsReport(inbox[i])
  BY DEF Reported, Reports
<1>4. Reports' = {Len(inbox) + 1}
  BY <1>3 DEF Reports
<1> QED
  BY <1>1, <1>4 DEF Reported

LEMMA AppendHealth ==
  ASSUME TypeOK, NEW ok \in BOOLEAN, inbox' = Append(inbox, Health(ok))
  PROVE  /\ inbox' \in Seq(MessageType)
         /\ Reported' = Reported
         /\ Reports' = Reports
<1>1. inbox \in Seq(MessageType) /\ Len(inbox) \in Nat
  BY TypeSplit
<1>2. /\ DOMAIN inbox' = 1..(Len(inbox) + 1)
      /\ DOMAIN inbox = 1..Len(inbox)
      /\ inbox'[Len(inbox) + 1] = Health(ok)
      /\ \A i \in 1..Len(inbox) : inbox'[i] = inbox[i]
  OBVIOUS
<1>3. ~IsReport(Health(ok)) /\ Health(ok) \in MessageType
  BY DEF IsReport, Health, MessageType
<1>4. Reports' = Reports
  BY <1>3 DEF Reports
<1>5. \A i \in Reports : inbox'[i] = inbox[i]
  BY DEF Reports
<1>6. inbox' \in Seq(MessageType)
  BY <1>1, <1>3
<1> QED
  BY <1>4, <1>5, <1>6 DEF Reported

LEMMA TakeReport ==
  ASSUME TypeOK, inbox # <<>>, IsReport(Message), \A i, j \in Reports : i = j,
         inbox' = Tail(inbox)
  PROVE  /\ inbox' \in Seq(MessageType)
         /\ Message \in MessageType
         /\ Reported = {Message}
         /\ Reported' = {}
         /\ Reports' = {}
<1>1. inbox \in Seq(MessageType) /\ Len(inbox) \in Nat /\ Len(inbox) # 0
  BY TypeSplit
<1>2. /\ DOMAIN inbox' = 1..(Len(inbox) - 1)
      /\ DOMAIN inbox = 1..Len(inbox)
      /\ inbox[1] = Message
      /\ \A i \in 1..(Len(inbox) - 1) : inbox'[i] = inbox[i + 1]
  BY DEF Message
<1>3. Reports = {1}
  BY <1>2 DEF Reports
<1>4. Reports' = {}
  BY <1>3 DEF Reports
<1> QED
  BY <1>1, <1>3, <1>4 DEF Reported, Message

LEMMA TakeHealth ==
  ASSUME TypeOK, inbox # <<>>, ~IsReport(Message), inbox' = Tail(inbox),
         \A i, j \in Reports : i = j
  PROVE  /\ inbox' \in Seq(MessageType)
         /\ Reported' = Reported
         /\ (\A i, j \in Reports : i = j)'
<1>1. inbox \in Seq(MessageType) /\ Len(inbox) \in Nat /\ Len(inbox) # 0
  BY TypeSplit
<1>2. /\ DOMAIN inbox' = 1..(Len(inbox) - 1)
      /\ DOMAIN inbox = 1..Len(inbox)
      /\ inbox[1] = Message
      /\ \A i \in 1..(Len(inbox) - 1) : inbox'[i] = inbox[i + 1]
  BY DEF Message
<1>3. Reports' = {i - 1 : i \in Reports}
  BY <1>2 DEF Reports
<1>4. \A i \in Reports : i - 1 \in Reports' /\ inbox'[i - 1] = inbox[i]
  BY <1>2 DEF Reports
<1>5. \A i \in Reports' : i + 1 \in Reports /\ inbox'[i] = inbox[i + 1]
  BY DEF Reports
<1>6. Reported' = Reported
  BY <1>4, <1>5 DEF Reported
<1>7. inbox' \in Seq(MessageType)
  BY <1>1
<1>8. \A i, j \in Reports' : i = j
  <2>1. TAKE i, j \in Reports'
  <2>2. i \in Int /\ j \in Int
    BY DEF Reports
  <2>3. i + 1 = j + 1
    BY <1>5
  <2> QED BY <2>2, <2>3
<1> QED
  BY <1>6, <1>7, <1>8

-------------------------------------------------------------------------------
(***************************************************************************)
(* The records: one lemma for each form of change, which keeps the records *)
(* opaque in the lemmas about the actions.                                 *)
(***************************************************************************)
LEMMA IdleFields ==
  /\ Idle \in WorkerType
  /\ Idle.op = "none" /\ Idle.pc = "none" /\ Idle.queue = <<>>
BY DEF Idle, WorkerType

LEMMA CoreFields ==
  /\ NoCore \in CoreType
  /\ NoCore.held = None /\ NoCore.alive = FALSE
BY DEF NoCore, CoreType

LEMMA ReportFields ==
  /\ ConnectReport(FALSE, None) \in MessageType
  /\ ConnectReport(FALSE, None).kind = "connect"
  /\ ConnectReport(FALSE, None).ok = FALSE
  /\ IsReport(ConnectReport(FALSE, None))
  /\ ~Started(ConnectReport(FALSE, None))
  /\ \A c \in Configs : /\ ConnectReport(TRUE, c) \in MessageType
                        /\ ConnectReport(TRUE, c).kind = "connect"
                        /\ ConnectReport(TRUE, c).config = c
                        /\ IsReport(ConnectReport(TRUE, c))
                        /\ Started(ConnectReport(TRUE, c))
  /\ \A k \in {"disconnect", "trial", "subscription"} :
        /\ Report(k) \in MessageType
        /\ Report(k).kind = k
        /\ IsReport(Report(k))
        /\ ~Started(Report(k))
BY DEF ConnectReport, Report, IsReport, Started, MessageType

LEMMA SameInbox ==
  ASSUME UNCHANGED inbox
  PROVE  Reported' = Reported /\ Reports' = Reports
BY DEF Reported, Reports

LEMMA BeginStep ==
  ASSUME TypeOK, NEW op \in {"connect", "disconnect", "trial", "subscription"},
         NEW pc \in {"probe", "stop", "outside"}, Begin(op, pc)
  PROVE  /\ vm' \in VmType
         /\ vm'.busy = TRUE
         /\ vm'.connected = vm.connected
         /\ vm'.active = vm.active
         /\ vm'.watching = vm.watching
         /\ worker' \in WorkerType
         /\ worker' # Idle
         /\ worker'.op = op
         /\ worker'.pc = pc
         /\ UNCHANGED <<stored, core, stray, pings, inbox, app, abandoned>>
<1>1. vm \in VmType
  BY TypeSplit
<1>2. /\ vm' \in VmType
      /\ vm'.busy = TRUE
      /\ vm'.connected = vm.connected
      /\ vm'.active = vm.active
      /\ vm'.watching = vm.watching
  BY <1>1 DEF Begin, VmType
<1>3. worker' = [op |-> op, pc |-> pc, queue |-> <<>>, ordered |-> <<>>]
  BY DEF Begin, Idle
<1>4. worker' \in WorkerType /\ worker'.op = op /\ worker'.pc = pc
  BY <1>3 DEF WorkerType
<1>5. worker' # Idle
  BY <1>4, IdleFields
<1> QED
  BY <1>2, <1>4, <1>5 DEF Begin

LEMMA GotoStep ==
  ASSUME worker \in WorkerType, worker.op # "none",
         NEW pc \in {"check", "spawn", "settle", "lost"}, Goto(pc)
  PROVE  /\ worker' \in WorkerType
         /\ worker' # Idle
         /\ worker'.op = worker.op
         /\ worker'.pc = pc
         /\ worker'.queue = worker.queue
BY DEF Goto, Idle, WorkerType

LEMMA FinishStep ==
  ASSUME TypeOK, OneOperation, worker # Idle,
         NEW m \in MessageType, IsReport(m), Finish(m)
  PROVE  /\ worker' = Idle
         /\ inbox' \in Seq(MessageType)
         /\ Reported' = {m}
         /\ (\A i, j \in Reports : i = j)'
BY AppendReport DEF Finish, OneOperation

LEMMA NextRouteStep ==
  ASSUME TypeOK, OneOperation, worker # Idle, NextRoute
  PROVE  /\ worker' \in WorkerType
         /\ inbox' \in Seq(MessageType)
         /\ (\A i, j \in Reports : i = j)'
         /\ \/ /\ worker' # Idle
               /\ worker.op = "failover"
               /\ worker'.op = "failover"
               /\ worker'.pc = "stop"
               /\ Reported' = {}
            \/ /\ worker' = Idle
               /\ Reported' = {ConnectReport(FALSE, None)}
<1>1. worker \in WorkerType /\ inbox \in Seq(MessageType)
  BY TypeSplit
<1>2. CASE worker.op = "failover" /\ Len(worker.queue) > 1
  <2>1. worker' = [worker EXCEPT !.pc = "stop", !.queue = Tail(@)] /\ UNCHANGED inbox
    BY <1>2 DEF NextRoute
  <2>2. worker.queue \in Seq(Configs)
    BY <1>1 DEF WorkerType
  <2>3. Tail(worker.queue) \in Seq(Configs)
    BY <1>2, <2>2
  <2>4. /\ worker' \in WorkerType
        /\ worker'.op = "failover"
        /\ worker'.pc = "stop"
    BY <1>1, <1>2, <2>1, <2>3 DEF WorkerType
  <2>5. worker' # Idle
    BY <2>4, IdleFields
  <2>6. Reported' = {} /\ (\A i, j \in Reports : i = j)'
    BY <2>1, SameInbox DEF OneOperation
  <2> QED
    BY <1>1, <1>2, <2>1, <2>4, <2>5, <2>6
<1>3. CASE ~(worker.op = "failover" /\ Len(worker.queue) > 1)
  <2>1. Finish(ConnectReport(FALSE, None))
    BY <1>3 DEF NextRoute
  <2> QED
    BY <2>1, FinishStep, IdleFields, ReportFields
<1> QED
  BY <1>2, <1>3

LEMMA TriggerStep ==
  ASSUME TypeOK, NEW n \in 0..FailureLimit, TriggerFailover(n)
  PROVE  /\ vm' \in VmType
         /\ worker' \in WorkerType
         /\ \/ /\ vm'.busy = vm.busy
               /\ vm'.connected = vm.connected
               /\ vm'.active = vm.active
               /\ vm'.watching = vm.watching
               /\ UNCHANGED <<worker, abandoned>>
            \/ /\ ~vm.busy
               /\ vm'.busy = FALSE
               /\ vm'.connected = FALSE
               /\ abandoned' = TRUE
               /\ UNCHANGED worker
            \/ /\ ~vm.busy
               /\ vm'.busy = TRUE
               /\ vm'.connected = FALSE
               /\ worker' # Idle
               /\ worker'.op = "failover"
               /\ worker'.pc = "stop"
               /\ UNCHANGED abandoned
<1>1. vm \in VmType /\ worker \in WorkerType
  BY TypeSplit
<1> DEFINE counted == [vm EXCEPT !.failures = n]
           dropped == [counted EXCEPT !.connected = FALSE, !.active = None,
                                      !.watching = FALSE]
           order   == FailoverOrder
<1>2. /\ counted \in VmType
      /\ counted.busy = vm.busy
      /\ counted.connected = vm.connected
      /\ counted.active = vm.active
      /\ counted.watching = vm.watching
  BY <1>1 DEF VmType
<1> HIDE DEF counted
<1>3. /\ dropped \in VmType
      /\ dropped.busy = vm.busy
      /\ dropped.connected = FALSE
  BY <1>2 DEF VmType
<1>4. CASE vm.recovering \/ vm.busy
  BY <1>1, <1>2, <1>4 DEF TriggerFailover, counted
<1>5. CASE /\ ~(vm.recovering \/ vm.busy)
           /\ vm' = dropped /\ abandoned' = TRUE /\ UNCHANGED worker
  <2>1. vm.busy = FALSE
    BY <1>5
  <2> HIDE DEF dropped
  <2> QED
    BY <1>1, <1>3, <1>5, <2>1
<1>6. CASE /\ ~(vm.recovering \/ vm.busy)
           /\ vm' = [dropped EXCEPT !.recovering = TRUE, !.busy = TRUE]
           /\ worker' = [op |-> "failover", pc |-> "stop", ordered |-> order,
                         queue |-> Take(order, StandbyLimit)]
           /\ UNCHANGED abandoned
  <2> HIDE DEF dropped
  <2>1. vm' \in VmType /\ vm'.busy = TRUE /\ vm'.connected = FALSE
    BY <1>3, <1>6 DEF VmType
  <2>2. order \in Seq(Configs)
    BY <1>1, OrderType
  <2> HIDE DEF order
  <2>3. Take(order, StandbyLimit) \in Seq(Configs)
    BY <2>2, TakeType DEF StandbyLimit
  <2>4. worker' \in WorkerType /\ worker'.op = "failover" /\ worker'.pc = "stop"
    BY <1>6, <2>2, <2>3 DEF WorkerType
  <2>5. worker' # Idle
    BY <2>4, IdleFields
  <2> QED
    BY <1>6, <2>1, <2>4, <2>5
<1> QED
  BY <1>4, <1>5, <1>6 DEF TriggerFailover, counted

\* Steps that leave the operation, its reports and the core alone.
LEMMA SameReports ==
  ASSUME IInv, UNCHANGED <<vm, worker, core, app, abandoned>>,
         stored' \in SUBSET Configs, stray' \in BOOLEAN, pings' \in 0..MaxPings,
         inbox' \in Seq(MessageType), Reported' = Reported,
         (\A i, j \in Reports : i = j)'
  PROVE  IInv'
<1> USE TypeSplit DEF IInv
<1>1. TypeOK'
  BY TypeJoin
<1>2. WorkerShape'
  BY DEF WorkerShape
<1>3. OneOperation'
  BY DEF OneOperation
<1>4. CoreFollowsWorker'
  BY DEF CoreFollowsWorker
<1>5. ShownIsHeld'
  BY DEF ShownIsHeld
<1>6. UnseenIsPassing'
  BY DEF UnseenIsPassing
<1>7. LeavingStops'
  BY DEF LeavingStops
<1> QED
  BY <1>1, <1>2, <1>3, <1>4, <1>5, <1>6, <1>7

-------------------------------------------------------------------------------
(***************************************************************************)
(* The invariant is inductive: one lemma for each action                   *)
(***************************************************************************)
LEMMA ConnectTunnelIInv == ASSUME IInv, ConnectTunnel PROVE IInv'
<1> USE TypeSplit DEF IInv
<1>1. TypeOK'
  BY TypeJoin, BeginStep DEF ConnectTunnel
<1>2. WorkerShape'
  BY BeginStep DEF WorkerShape, ConnectTunnel
<1>3. OneOperation'
  BY BeginStep, SameInbox DEF OneOperation, ConnectTunnel
<1>4. CoreFollowsWorker'
  BY BeginStep, SameInbox DEF CoreFollowsWorker, ConnectTunnel
<1>5. ShownIsHeld'
  BY BeginStep, IdleFields DEF ShownIsHeld, ConnectTunnel, OneOperation
<1>6. UnseenIsPassing'
  BY BeginStep, IdleFields DEF UnseenIsPassing, ConnectTunnel, OneOperation
<1>7. LeavingStops'
  BY BeginStep DEF LeavingStops, ConnectTunnel
<1> QED
  BY <1>1, <1>2, <1>3, <1>4, <1>5, <1>6, <1>7

LEMMA DisconnectTunnelIInv == ASSUME IInv, DisconnectTunnel PROVE IInv'
<1> USE TypeSplit DEF IInv
<1>1. TypeOK'
  BY TypeJoin, BeginStep DEF DisconnectTunnel
<1>2. WorkerShape'
  BY BeginStep DEF WorkerShape, DisconnectTunnel
<1>3. OneOperation'
  BY BeginStep, SameInbox DEF OneOperation, DisconnectTunnel
<1>4. CoreFollowsWorker'
  BY BeginStep, SameInbox DEF CoreFollowsWorker, DisconnectTunnel
<1>5. ShownIsHeld'
  BY BeginStep, IdleFields DEF ShownIsHeld, DisconnectTunnel, OneOperation
<1>6. UnseenIsPassing'
  BY BeginStep DEF UnseenIsPassing, DisconnectTunnel
<1>7. LeavingStops'
  BY BeginStep DEF LeavingStops, DisconnectTunnel
<1> QED
  BY <1>1, <1>2, <1>3, <1>4, <1>5, <1>6, <1>7

LEMMA RunConfigTrialIInv == ASSUME IInv, RunConfigTrial PROVE IInv'
<1> USE TypeSplit DEF IInv
<1>1. TypeOK'
  BY TypeJoin, BeginStep DEF RunConfigTrial
<1>2. WorkerShape'
  BY BeginStep DEF WorkerShape, RunConfigTrial
<1>3. OneOperation'
  BY BeginStep, SameInbox DEF OneOperation, RunConfigTrial
<1>4. CoreFollowsWorker'
  BY BeginStep, SameInbox DEF CoreFollowsWorker, RunConfigTrial
<1>5. ShownIsHeld'
  BY BeginStep DEF ShownIsHeld, RunConfigTrial
<1>6. UnseenIsPassing'
  BY BeginStep, IdleFields DEF UnseenIsPassing, RunConfigTrial, OneOperation
<1>7. LeavingStops'
  BY BeginStep DEF LeavingStops, RunConfigTrial
<1> QED
  BY <1>1, <1>2, <1>3, <1>4, <1>5, <1>6, <1>7

LEMMA ImportSubscriptionIInv == ASSUME IInv, ImportSubscription PROVE IInv'
<1> USE TypeSplit DEF IInv
<1>1. TypeOK'
  BY TypeJoin, BeginStep DEF ImportSubscription
<1>2. WorkerShape'
  BY BeginStep DEF WorkerShape, ImportSubscription
<1>3. OneOperation'
  BY BeginStep, SameInbox DEF OneOperation, ImportSubscription
<1>4. CoreFollowsWorker'
  BY BeginStep, SameInbox DEF CoreFollowsWorker, ImportSubscription
<1>5. ShownIsHeld'
  BY BeginStep, IdleFields DEF ShownIsHeld, ImportSubscription, OneOperation
<1>6. UnseenIsPassing'
  BY BeginStep, IdleFields DEF UnseenIsPassing, ImportSubscription,
     OneOperation
<1>7. LeavingStops'
  BY BeginStep DEF LeavingStops, ImportSubscription
<1> QED
  BY <1>1, <1>2, <1>3, <1>4, <1>5, <1>6, <1>7

LEMMA StopPreviousIInv == ASSUME IInv, StopPrevious PROVE IInv'
<1> USE TypeSplit DEF IInv
<1>1. worker \in WorkerType /\ worker.op # "none" /\ worker # Idle
  BY IdleFields DEF StopPrevious, At, Starts
<1>2. TypeOK'
  BY TypeJoin, GotoStep, CoreFields DEF StopPrevious, At, Starts
<1>3. WorkerShape'
  BY GotoStep DEF WorkerShape, StopPrevious, At, Starts
<1>4. OneOperation'
  BY GotoStep, SameInbox, IdleFields DEF OneOperation, StopPrevious,
     WorkerShape
<1>5. CoreFollowsWorker'
  BY SameInbox, CoreFields DEF CoreFollowsWorker, StopPrevious
<1>6. ShownIsHeld'
  BY CoreFields DEF ShownIsHeld, StopPrevious
<1>7. UnseenIsPassing'
  BY CoreFields DEF UnseenIsPassing, StopPrevious
<1>8. LeavingStops'
  BY CoreFields DEF LeavingStops, StopPrevious
<1> QED
  BY <1>2, <1>3, <1>4, <1>5, <1>6, <1>7, <1>8

LEMMA NoStandbyIInv == ASSUME IInv, NoStandby PROVE IInv'
<1> USE TypeSplit DEF IInv
<1>1. worker \in WorkerType /\ worker.op # "none" /\ worker # Idle
  BY IdleFields DEF NoStandby, At
<1>2. /\ worker' = Idle
      /\ inbox' \in Seq(MessageType)
      /\ Reported' = {ConnectReport(FALSE, None)}
      /\ (\A i, j \in Reports : i = j)'
  BY <1>1, FinishStep, ReportFields DEF NoStandby
<1>3. TypeOK'
  BY TypeJoin, <1>2, IdleFields DEF NoStandby
<1>4. WorkerShape'
  BY <1>2, IdleFields DEF WorkerShape
<1>5. OneOperation'
  BY <1>2, IdleFields DEF OneOperation, NoStandby, At
<1>6. CoreFollowsWorker'
  BY <1>2, ReportFields, IdleFields DEF CoreFollowsWorker
<1>7. ShownIsHeld'
  BY IdleFields DEF ShownIsHeld, NoStandby, At, OneOperation
<1>8. UnseenIsPassing'
  BY DEF UnseenIsPassing, NoStandby
<1>9. LeavingStops'
  BY <1>2, ReportFields DEF LeavingStops
<1> QED
  BY <1>3, <1>4, <1>5, <1>6, <1>7, <1>8, <1>9

LEMMA CheckConfigIInv == ASSUME IInv, CheckConfig PROVE IInv'
<1> USE TypeSplit DEF IInv
<1>1. worker \in WorkerType /\ worker.op # "none" /\ worker # Idle
  BY IdleFields DEF CheckConfig, At, Starts
<1>2. core' \in CoreType /\ core'.held = core.held /\ core'.alive = core.alive
  BY DEF CheckConfig, CoreType
<1>3. TypeOK'
  BY TypeJoin, <1>2, GotoStep, NextRouteStep, IdleFields DEF CheckConfig, At,
     WorkerShape
<1>4. WorkerShape'
  BY GotoStep, NextRouteStep, IdleFields DEF WorkerShape, CheckConfig, At
<1>5. OneOperation'
  BY GotoStep, NextRouteStep, SameInbox, IdleFields DEF OneOperation,
     CheckConfig, At, WorkerShape
<1>6. CoreFollowsWorker'
  BY <1>2, NextRouteStep, SameInbox, ReportFields, IdleFields DEF
     CoreFollowsWorker, CheckConfig, At
<1>7. ShownIsHeld'
  BY <1>2, IdleFields DEF ShownIsHeld, CheckConfig, At, OneOperation
<1>8. UnseenIsPassing'
  BY <1>2, IdleFields DEF UnseenIsPassing, CheckConfig, At, OneOperation
<1>9. LeavingStops'
  BY GotoStep, NextRouteStep, ReportFields, IdleFields DEF LeavingStops,
     CheckConfig, At, WorkerShape
<1> QED
  BY <1>3, <1>4, <1>5, <1>6, <1>7, <1>8, <1>9

LEMMA StopCoreIInv == ASSUME IInv, StopCore PROVE IInv'
<1> USE TypeSplit DEF IInv
<1>1. worker \in WorkerType /\ worker.op # "none" /\ worker # Idle
  BY IdleFields DEF StopCore, At
<1>2. /\ worker' = Idle
      /\ inbox' \in Seq(MessageType)
      /\ Reported' = {Report("disconnect")}
      /\ (\A i, j \in Reports : i = j)'
  BY <1>1, FinishStep, ReportFields DEF StopCore
<1>3. TypeOK'
  BY TypeJoin, <1>2, IdleFields, CoreFields DEF StopCore
<1>4. WorkerShape'
  BY <1>2, IdleFields DEF WorkerShape
<1>5. OneOperation'
  BY <1>2, IdleFields DEF OneOperation, StopCore, At
<1>6. CoreFollowsWorker'
  BY <1>2, ReportFields, CoreFields DEF CoreFollowsWorker, StopCore
<1>7. ShownIsHeld'
  BY CoreFields DEF ShownIsHeld, StopCore
<1>8. UnseenIsPassing'
  BY CoreFields DEF UnseenIsPassing, StopCore
<1>9. LeavingStops'
  BY CoreFields DEF LeavingStops, StopCore
<1> QED
  BY <1>3, <1>4, <1>5, <1>6, <1>7, <1>8, <1>9

LEMMA OutsideEndsIInv == ASSUME IInv, OutsideEnds PROVE IInv'
<1> USE TypeSplit DEF IInv
<1>1. worker \in WorkerType /\ worker.op # "none" /\ worker # Idle
  BY IdleFields DEF OutsideEnds, At
<1>2. /\ worker' = Idle
      /\ inbox' \in Seq(MessageType)
      /\ Reported' = {Report(worker.op)}
      /\ (\A i, j \in Reports : i = j)'
  BY <1>1, FinishStep, ReportFields DEF OutsideEnds, At
<1>3. TypeOK'
  BY TypeJoin, <1>2, IdleFields DEF OutsideEnds
<1>4. WorkerShape'
  BY <1>2, IdleFields DEF WorkerShape
<1>5. OneOperation'
  BY <1>2, IdleFields DEF OneOperation, OutsideEnds, At
<1>6. CoreFollowsWorker'
  BY <1>2, ReportFields, IdleFields DEF CoreFollowsWorker, OutsideEnds, At
<1>7. ShownIsHeld'
  BY IdleFields DEF ShownIsHeld, OutsideEnds, At, OneOperation
<1>8. UnseenIsPassing'
  BY IdleFields DEF UnseenIsPassing, OutsideEnds, At, OneOperation
<1>9. LeavingStops'
  BY IdleFields DEF LeavingStops, OutsideEnds, At, Starts, OneOperation
<1> QED
  BY <1>3, <1>4, <1>5, <1>6, <1>7, <1>8, <1>9

LEMMA SpawnIInv == ASSUME IInv, Spawn PROVE IInv'
<1> USE TypeSplit DEF IInv
<1>1. worker \in WorkerType /\ worker.op # "none" /\ worker # Idle
  BY IdleFields DEF Spawn, At, Starts
<1>2. Head(worker.queue) \in Configs
  BY DEF Spawn, At, WorkerShape, WorkerType
<1>3. \/ core' = NoCore
      \/ core' \in CoreType /\ core'.held = Head(worker.queue)
  <2>1. CASE core' = NoCore
    BY <2>1
  <2>2. CASE core' = [core EXCEPT !.held = Head(worker.queue), !.alive = core.files]
    BY <1>2, <2>2 DEF CoreType
  <2> QED
    BY <2>2 DEF Spawn
<1>4. TypeOK'
  BY TypeJoin, <1>3, GotoStep, NextRouteStep, IdleFields, CoreFields DEF Spawn,
     At, WorkerShape
<1>5. WorkerShape'
  BY GotoStep, NextRouteStep, IdleFields DEF WorkerShape, Spawn, At
<1>6. OneOperation'
  BY <1>1, GotoStep, NextRouteStep, SameInbox DEF OneOperation, Spawn
<1>7. CoreFollowsWorker'
  BY <1>3, GotoStep, NextRouteStep, SameInbox, ReportFields, IdleFields,
     CoreFields DEF CoreFollowsWorker, Spawn, At, WorkerShape, OneOperation
<1>8. ShownIsHeld'
  BY GotoStep, CoreFields DEF ShownIsHeld, Spawn, At, Starts
<1>9. UnseenIsPassing'
  BY GotoStep, CoreFields DEF UnseenIsPassing, Spawn, At, Starts
<1>10. LeavingStops'
  BY GotoStep, CoreFields DEF LeavingStops, Spawn, At, Starts
<1> QED
  BY <1>4, <1>5, <1>6, <1>7, <1>8, <1>9, <1>10

LEMMA ListIInv ==
  ASSUME IInv, NEW c \in Configs, ImportLink(c) \/ RemoveTunnelConfig(c)
  PROVE  IInv'
<1>1. /\ UNCHANGED <<vm, worker, core, stray, pings, inbox, app, abandoned>>
      /\ stored' \in SUBSET Configs
  BY TypeSplit DEF IInv, ImportLink, RemoveTunnelConfig
<1>2. Reported' = Reported /\ (\A i, j \in Reports : i = j)'
  BY <1>1, SameInbox DEF IInv, OneOperation
<1> QED
  BY <1>1, <1>2, SameReports, TypeSplit DEF IInv

LEMMA PingTickIInv == ASSUME IInv, PingTick PROVE IInv'
<1>1. pings' \in 0..MaxPings
  <2>1. {i \in DOMAIN inbox : inbox[i].kind = "health"} \in SUBSET (1..Len(inbox))
    OBVIOUS
  <2>2. Len(inbox) \in Nat /\ IsFiniteSet(1..Len(inbox))
    BY FS_Interval
  <2>3. Cardinality({i \in DOMAIN inbox : inbox[i].kind = "health"}) \in Nat
    BY <2>2, FS_Subset, FS_CardinalityType
  <2> QED
    BY <2>3, TypeSplit, MaxPingsAssumption DEF IInv, PingTick
<1>2. Reported' = Reported /\ (\A i, j \in Reports : i = j)'
  BY SameInbox DEF IInv, OneOperation, PingTick
<1> QED
  BY <1>1, <1>2, SameReports, TypeSplit DEF IInv, PingTick

LEMMA PingAnswersIInv == ASSUME IInv, PingAnswers PROVE IInv'
<1>1. PICK ok \in BOOLEAN : inbox' = Append(inbox, Health(ok))
  BY DEF PingAnswers
<1>2. /\ inbox' \in Seq(MessageType)
      /\ Reported' = Reported
      /\ Reports' = Reports
  BY <1>1, AppendHealth DEF IInv
<1>3. (\A i, j \in Reports : i = j)'
  BY <1>2 DEF IInv, OneOperation
<1>4. pings' \in 0..MaxPings
  BY TypeSplit, MaxPingsAssumption DEF IInv, PingAnswers
<1> QED
  BY <1>2, <1>3, <1>4, SameReports, TypeSplit DEF IInv, PingAnswers

LEMMA StrayEndsIInv == ASSUME IInv, StrayEnds PROVE IInv'
<1>1. Reported' = Reported /\ (\A i, j \in Reports : i = j)'
  BY SameInbox DEF IInv, OneOperation, StrayEnds
<1> QED
  BY <1>1, SameReports, TypeSplit DEF IInv, StrayEnds

LEMMA OnConnectFinishedIInv == ASSUME IInv, OnConnectFinished PROVE IInv'
<1> USE TypeSplit DEF IInv
<1>1. inbox # <<>> /\ Message.kind = "connect" /\ inbox' = Tail(inbox)
  BY DEF OnConnectFinished, Received
<1>2. /\ inbox' \in Seq(MessageType)
      /\ Message \in MessageType
      /\ Reported = {Message}
      /\ Reported' = {}
      /\ Reports' = {}
  BY <1>1, TakeReport DEF IsReport, OneOperation
<1>3. worker = Idle
  BY <1>2 DEF OneOperation
<1>4. /\ vm' \in VmType
      /\ vm'.busy = FALSE
      /\ Message.ok => vm'.connected = TRUE /\ vm'.active = Message.config /\ vm'.watching = TRUE
      /\ ~Message.ok => /\ vm'.connected = vm.connected
                        /\ vm'.active = vm.active
                        /\ vm'.watching = vm.watching
  <2>1. vm \in VmType /\ Message.config \in Configs \cup {None}
    BY <1>2 DEF MessageType
  <2>2. CASE Message.ok
    <3>1. vm' = [vm EXCEPT !.busy = FALSE, !.recovering = FALSE, !.connected = TRUE,
                           !.active = Message.config, !.failures = 0,
                           !.watching = TRUE]
      BY <2>2 DEF OnConnectFinished
    <3>2. vm' \in VmType
      <4>1. vm' = [busy |-> FALSE, connected |-> TRUE, active |-> Message.config,
                   recovering |-> FALSE, failures |-> 0, standby |-> vm.standby,
                   ranked |-> vm.ranked, watching |-> TRUE]
        BY <3>1 DEF VmType
      <4>2. vm.standby \in Seq(Configs) /\ vm.ranked \in Seq(Configs)
        BY DEF VmType
      <4> QED
        BY <2>1, <4>1 DEF VmType, FailureLimit
    <3>3. /\ vm'.busy = FALSE
          /\ vm'.connected = TRUE
          /\ vm'.active = Message.config
          /\ vm'.watching = TRUE
      BY <3>1
    <3> QED
      BY <2>2, <3>2, <3>3
  <2>3. CASE ~Message.ok
    <3>1. vm' = [vm EXCEPT !.busy = FALSE, !.recovering = FALSE]
      BY <2>3 DEF OnConnectFinished
    <3> QED
      BY <2>3, <3>1 DEF VmType
  <2> QED
    BY <2>2, <2>3
<1>5. TypeOK'
  BY TypeJoin, <1>2, <1>4 DEF OnConnectFinished
<1>6. WorkerShape'
  BY DEF WorkerShape, OnConnectFinished
<1>7. OneOperation'
  BY <1>2 DEF OneOperation, OnConnectFinished
<1>8. CoreFollowsWorker'
  BY <1>2 DEF CoreFollowsWorker, OnConnectFinished
<1>9. ShownIsHeld'
  BY <1>1, <1>2 DEF ShownIsHeld, OnConnectFinished, Started, CoreFollowsWorker
<1>10. UnseenIsPassing'
  BY <1>2 DEF UnseenIsPassing, OnConnectFinished, Started
<1>11. LeavingStops'
  BY DEF LeavingStops, Received, Running, OnConnectFinished
<1> QED
  BY <1>5, <1>6, <1>7, <1>8, <1>9, <1>10, <1>11

LEMMA OnDisconnectFinishedIInv == ASSUME IInv, OnDisconnectFinished PROVE IInv'
<1> USE TypeSplit DEF IInv
<1>1. inbox # <<>> /\ Message.kind = "disconnect" /\ inbox' = Tail(inbox)
  BY DEF OnDisconnectFinished, Received
<1>2. /\ inbox' \in Seq(MessageType)
      /\ Message \in MessageType
      /\ Reported = {Message}
      /\ Reported' = {}
      /\ Reports' = {}
  BY <1>1, TakeReport DEF IsReport, OneOperation
<1>3. worker = Idle
  BY <1>2 DEF OneOperation
<1>4. vm' \in VmType /\ vm'.busy = FALSE /\ vm'.connected = FALSE
  BY DEF OnDisconnectFinished, VmType
<1>5. TypeOK'
  BY TypeJoin, <1>2, <1>4 DEF OnDisconnectFinished
<1>6. WorkerShape'
  BY DEF WorkerShape, OnDisconnectFinished
<1>7. OneOperation'
  BY <1>2 DEF OneOperation, OnDisconnectFinished
<1>8. CoreFollowsWorker'
  BY <1>2 DEF CoreFollowsWorker, OnDisconnectFinished
<1>9. ShownIsHeld'
  BY DEF ShownIsHeld, OnDisconnectFinished
<1>10. UnseenIsPassing'
  BY <1>1, <1>2 DEF UnseenIsPassing, OnDisconnectFinished, CoreFollowsWorker
<1>11. LeavingStops'
  BY <1>1, <1>2 DEF LeavingStops, OnDisconnectFinished
<1> QED
  BY <1>5, <1>6, <1>7, <1>8, <1>9, <1>10, <1>11

LEMMA OnTrialFinishedIInv == ASSUME IInv, OnTrialFinished PROVE IInv'
<1> USE TypeSplit DEF IInv
<1>1. inbox # <<>> /\ Message.kind = "trial" /\ inbox' = Tail(inbox)
  BY DEF OnTrialFinished, Received
<1>2. /\ inbox' \in Seq(MessageType)
      /\ Message \in MessageType
      /\ Reported = {Message}
      /\ Reported' = {}
      /\ Reports' = {}
  BY <1>1, TakeReport DEF IsReport, OneOperation
<1>3. worker = Idle
  BY <1>2 DEF OneOperation
<1>4. /\ vm' \in VmType
      /\ vm'.busy = FALSE
      /\ vm'.connected = vm.connected
      /\ vm'.active = vm.active
      /\ vm'.watching = vm.watching
  BY DEF OnTrialFinished, VmType
<1>5. TypeOK'
  BY TypeJoin, <1>2, <1>4 DEF OnTrialFinished
<1>6. WorkerShape'
  BY DEF WorkerShape, OnTrialFinished
<1>7. OneOperation'
  BY <1>2 DEF OneOperation, OnTrialFinished
<1>8. CoreFollowsWorker'
  BY <1>2 DEF CoreFollowsWorker, OnTrialFinished
<1>9. ShownIsHeld'
  BY <1>1, <1>2 DEF ShownIsHeld, OnTrialFinished, Started
<1>10. UnseenIsPassing'
  BY <1>1, <1>2 DEF UnseenIsPassing, OnTrialFinished, Started
<1>11. LeavingStops'
  BY <1>1, <1>2 DEF LeavingStops, OnTrialFinished
<1> QED
  BY <1>5, <1>6, <1>7, <1>8, <1>9, <1>10, <1>11

LEMMA OnSubscriptionFinishedIInv == ASSUME IInv, OnSubscriptionFinished PROVE IInv'
<1> USE TypeSplit DEF IInv
<1>1. inbox # <<>> /\ Message.kind = "subscription" /\ inbox' = Tail(inbox)
  BY DEF OnSubscriptionFinished, Received
<1>2. /\ inbox' \in Seq(MessageType)
      /\ Message \in MessageType
      /\ Reported = {Message}
      /\ Reported' = {}
      /\ Reports' = {}
  BY <1>1, TakeReport DEF IsReport, OneOperation
<1>3. worker = Idle
  BY <1>2 DEF OneOperation
<1>4. /\ vm' \in VmType
      /\ vm'.busy = FALSE
      /\ vm'.connected = vm.connected
      /\ vm'.active = vm.active
      /\ vm'.watching = vm.watching
  BY DEF OnSubscriptionFinished, VmType
<1>5. TypeOK'
  BY TypeJoin, <1>2, <1>4 DEF OnSubscriptionFinished
<1>6. WorkerShape'
  BY DEF WorkerShape, OnSubscriptionFinished
<1>7. OneOperation'
  BY <1>2 DEF OneOperation, OnSubscriptionFinished
<1>8. CoreFollowsWorker'
  BY <1>2 DEF CoreFollowsWorker, OnSubscriptionFinished
<1>9. ShownIsHeld'
  BY <1>1, <1>2 DEF ShownIsHeld, OnSubscriptionFinished, Started
<1>10. UnseenIsPassing'
  BY <1>1, <1>2 DEF UnseenIsPassing, OnSubscriptionFinished, Started
<1>11. LeavingStops'
  BY <1>1, <1>2 DEF LeavingStops, OnSubscriptionFinished
<1> QED
  BY <1>5, <1>6, <1>7, <1>8, <1>9, <1>10, <1>11

LEMMA OnLiveHealthIInv == ASSUME IInv, OnLiveHealth PROVE IInv'
<1> USE TypeSplit DEF IInv
<1>1. /\ inbox' \in Seq(MessageType)
      /\ Reported' = Reported
      /\ (\A i, j \in Reports : i = j)'
  BY TakeHealth DEF OnLiveHealth, Received, IsReport, OneOperation
<1>2. /\ vm' \in VmType
      /\ worker' \in WorkerType
      /\ \/ /\ vm'.busy = vm.busy
            /\ vm'.connected = vm.connected
            /\ vm'.active = vm.active
            /\ vm'.watching = vm.watching
            /\ UNCHANGED <<worker, abandoned>>
         \/ /\ ~vm.busy
            /\ vm'.busy = FALSE
            /\ vm'.connected = FALSE
            /\ abandoned' = TRUE
            /\ UNCHANGED worker
         \/ /\ ~vm.busy
            /\ vm'.busy = TRUE
            /\ vm'.connected = FALSE
            /\ worker' # Idle
            /\ worker'.op = "failover"
            /\ worker'.pc = "stop"
            /\ UNCHANGED abandoned
  <2> DEFINE n == IF Message.ok THEN 0 ELSE Min({vm.failures + 1, FailureLimit})
  <2>1. vm \in VmType /\ worker \in WorkerType /\ vm.failures \in Nat
    BY DEF VmType
  <2>2. n \in 0..FailureLimit
    BY <2>1, MinTwo DEF FailureLimit
  <2>3. \/ UNCHANGED <<vm, worker, abandoned>>
        \/ vm' = [vm EXCEPT !.failures = n] /\ UNCHANGED <<worker, abandoned>>
        \/ TriggerFailover(n)
    BY DEF OnLiveHealth
  <2> HIDE DEF n
  <2>4. CASE UNCHANGED <<vm, worker, abandoned>>
    BY <2>4
  <2>5. CASE vm' = [vm EXCEPT !.failures = n] /\ UNCHANGED <<worker, abandoned>>
    BY <2>2, <2>5 DEF VmType
  <2>6. CASE TriggerFailover(n)
    BY <2>2, <2>6, TriggerStep
  <2> QED
    BY <2>3, <2>5, <2>6
<1>3. TypeOK'
  BY TypeJoin, <1>1, <1>2 DEF OnLiveHealth
<1>4. WorkerShape'
  BY <1>2 DEF WorkerShape
<1>5. OneOperation'
  BY <1>1, <1>2 DEF OneOperation
<1>6. CoreFollowsWorker'
  BY <1>1, <1>2 DEF CoreFollowsWorker, OnLiveHealth
<1>7. ShownIsHeld'
  BY <1>1, <1>2 DEF ShownIsHeld, OnLiveHealth
<1>8. UnseenIsPassing'
  BY <1>1, <1>2 DEF UnseenIsPassing, OnLiveHealth
<1>9. LeavingStops'
  BY <1>1, <1>2 DEF LeavingStops, OnLiveHealth, Starts
<1> QED
  BY <1>3, <1>4, <1>5, <1>6, <1>7, <1>8, <1>9

LEMMA WatchdogTickIInv == ASSUME IInv, WatchdogTick PROVE IInv'
<1> USE TypeSplit DEF IInv
<1>1. /\ vm' \in VmType
      /\ worker' \in WorkerType
      /\ \/ /\ vm'.busy = vm.busy
            /\ vm'.connected = vm.connected
            /\ vm'.active = vm.active
            /\ vm'.watching = vm.watching
            /\ UNCHANGED <<worker, abandoned>>
         \/ /\ ~vm.busy
            /\ vm'.busy = FALSE
            /\ vm'.connected = FALSE
            /\ abandoned' = TRUE
            /\ UNCHANGED worker
         \/ /\ ~vm.busy
            /\ vm'.busy = TRUE
            /\ vm'.connected = FALSE
            /\ worker' # Idle
            /\ worker'.op = "failover"
            /\ worker'.pc = "stop"
            /\ UNCHANGED abandoned
  BY TriggerStep DEF WatchdogTick, VmType
<1>2. TypeOK'
  BY TypeJoin, <1>1 DEF WatchdogTick
<1>3. WorkerShape'
  BY <1>1 DEF WorkerShape
<1>4. OneOperation'
  BY <1>1, SameInbox DEF OneOperation, WatchdogTick
<1>5. CoreFollowsWorker'
  BY <1>1, SameInbox DEF CoreFollowsWorker, WatchdogTick
<1>6. ShownIsHeld'
  BY <1>1, SameInbox DEF ShownIsHeld, WatchdogTick
<1>7. UnseenIsPassing'
  BY DEF UnseenIsPassing, WatchdogTick
<1>8. LeavingStops'
  BY DEF LeavingStops, WatchdogTick
<1> QED
  BY <1>2, <1>3, <1>4, <1>5, <1>6, <1>7, <1>8

LEMMA CoreDiesIInv == ASSUME IInv, CoreDies PROVE IInv'
<1> USE TypeSplit DEF IInv
<1>1. core' \in CoreType /\ core'.held = core.held /\ core'.alive = FALSE
  BY DEF CoreDies, CoreType
<1>2. TypeOK'
  BY TypeJoin, <1>1 DEF CoreDies
<1>3. WorkerShape'
  BY DEF WorkerShape, CoreDies
<1>4. OneOperation'
  BY SameInbox DEF OneOperation, CoreDies
<1>5. CoreFollowsWorker'
  BY SameInbox DEF CoreFollowsWorker, CoreDies
<1>6. ShownIsHeld'
  BY SameInbox DEF ShownIsHeld, CoreDies
<1>7. UnseenIsPassing'
  BY DEF UnseenIsPassing, CoreDies
<1>8. LeavingStops'
  BY DEF LeavingStops, CoreDies
<1> QED
  BY <1>2, <1>3, <1>4, <1>5, <1>6, <1>7, <1>8

LEMMA QuitIInv == ASSUME IInv, Quit PROVE IInv'
<1> USE TypeSplit DEF IInv
<1>1. TypeOK'
  BY TypeJoin, CoreFields DEF Quit, ForceStop
<1>2. WorkerShape'
  BY DEF WorkerShape, Quit, ForceStop
<1>3. OneOperation'
  BY SameInbox DEF OneOperation, Quit, ForceStop
<1>4. CoreFollowsWorker'
  BY CoreFields, SameInbox DEF CoreFollowsWorker, Quit, ForceStop
<1>5. ShownIsHeld'
  BY CoreFields DEF ShownIsHeld, Quit, ForceStop
<1>6. UnseenIsPassing'
  BY CoreFields DEF UnseenIsPassing, Quit, ForceStop
<1>7. LeavingStops'
  BY CoreFields DEF LeavingStops, Quit, ForceStop
<1> QED
  BY <1>1, <1>2, <1>3, <1>4, <1>5, <1>6, <1>7

LEMMA CloseWindowIInv == ASSUME IInv, CloseWindow PROVE IInv'
<1> USE TypeSplit DEF IInv
<1>1. TypeOK'
  BY TypeJoin, CoreFields DEF CloseWindow, ForceStop
<1>2. WorkerShape'
  BY DEF WorkerShape, CloseWindow, ForceStop
<1>3. OneOperation'
  BY SameInbox DEF OneOperation, CloseWindow, ForceStop
<1>4. CoreFollowsWorker'
  BY CoreFields, SameInbox DEF CoreFollowsWorker, CloseWindow, ForceStop
<1>5. ShownIsHeld'
  BY CoreFields DEF ShownIsHeld, CloseWindow, ForceStop
<1>6. UnseenIsPassing'
  BY CoreFields DEF UnseenIsPassing, CloseWindow, ForceStop
<1>7. LeavingStops'
  BY DEF LeavingStops, CloseWindow
<1> QED
  BY <1>1, <1>2, <1>3, <1>4, <1>5, <1>6, <1>7

LEMMA ProgramEndsIInv == ASSUME IInv, ProgramEnds PROVE IInv'
<1> USE TypeSplit DEF IInv
<1>1. vm' \in VmType /\ vm'.busy = FALSE /\ vm'.connected = FALSE
  BY DEF ProgramEnds, Fresh, VmType, FailureLimit
<1>2. inbox' \in Seq(MessageType) /\ Reports' = {} /\ Reported' = {}
  <2>1. inbox' = <<>>
    BY DEF ProgramEnds
  <2> QED
    BY <2>1 DEF Reports, Reported
<1>3. stray' \in BOOLEAN /\ app' = "down" /\ stored' = stored /\ pings' \in 0..MaxPings
  BY MaxPingsAssumption DEF ProgramEnds
<1>4. TypeOK'
  BY TypeJoin, <1>1, <1>2, <1>3, IdleFields, CoreFields DEF ProgramEnds
<1>5. WorkerShape'
  BY IdleFields DEF WorkerShape, ProgramEnds
<1>6. OneOperation'
  BY <1>1, <1>2 DEF OneOperation, ProgramEnds
<1>7. CoreFollowsWorker'
  BY <1>2, CoreFields DEF CoreFollowsWorker, ProgramEnds
<1>8. ShownIsHeld'
  BY <1>1 DEF ShownIsHeld
<1>9. UnseenIsPassing'
  BY CoreFields DEF UnseenIsPassing, ProgramEnds
<1>10. LeavingStops'
  BY DEF LeavingStops, ProgramEnds
<1> QED
  BY <1>4, <1>5, <1>6, <1>7, <1>8, <1>9, <1>10

LEMMA RestartIInv == ASSUME IInv, Restart PROVE IInv'
<1> USE TypeSplit DEF IInv
<1>1. TypeOK'
  BY TypeJoin DEF Restart
<1>2. WorkerShape'
  BY DEF WorkerShape, Restart
<1>3. OneOperation'
  BY SameInbox DEF OneOperation, Restart
<1>4. CoreFollowsWorker'
  BY SameInbox DEF CoreFollowsWorker, Restart
<1>5. ShownIsHeld'
  BY SameInbox DEF ShownIsHeld, Restart
<1>6. UnseenIsPassing'
  BY SameInbox DEF UnseenIsPassing, Restart
<1>7. LeavingStops'
  BY DEF LeavingStops, Restart
<1> QED
  BY <1>1, <1>2, <1>3, <1>4, <1>5, <1>6, <1>7

LEMMA SettleIInv == ASSUME IInv, Settle PROVE IInv'
<1> USE TypeSplit DEF IInv
<1>1. worker \in WorkerType /\ worker.op # "none" /\ worker # Idle
  BY IdleFields DEF Settle, At, Starts
<1>2. Head(worker.queue) \in Configs
  BY DEF Settle, At, WorkerShape, WorkerType
<1>3. /\ vm' \in VmType
      /\ vm'.busy = vm.busy
      /\ vm'.connected = vm.connected
      /\ vm'.active = vm.active
      /\ vm'.watching = vm.watching
  <2>1. vm \in VmType /\ worker.ordered \in Seq(Configs)
    BY DEF WorkerType
  <2>2. CASE UNCHANGED vm
    BY <2>2
  <2>3. CASE vm' = [vm EXCEPT !.standby = Take(Without(worker.ordered,
                                            {Head(worker.queue)}), StandbyLimit)]
    <3>1. Take(Without(worker.ordered, {Head(worker.queue)}), StandbyLimit)
             \in Seq(Configs)
      BY <2>1, WithoutType, TakeType DEF StandbyLimit
    <3> QED
      BY <2>3, <3>1 DEF VmType
  <2> QED
    BY <2>3 DEF Settle
<1>4. /\ worker' \in WorkerType
      /\ inbox' \in Seq(MessageType)
      /\ (\A i, j \in Reports : i = j)'
      /\ \/ /\ core' = NoCore
            /\ worker' # Idle
            /\ worker.op = "failover"
            /\ worker'.op = "failover"
            /\ worker'.pc = "stop"
            /\ Reported' = {}
         \/ /\ core' = NoCore
            /\ worker' = Idle
            /\ Reported' = {ConnectReport(FALSE, None)}
         \/ /\ core' = core
            /\ worker' = Idle
            /\ Reported' = {ConnectReport(TRUE, Head(worker.queue))}
  BY <1>1, <1>2, FinishStep, NextRouteStep, IdleFields, ReportFields DEF Settle
<1>5. TypeOK'
  BY TypeJoin, <1>3, <1>4, CoreFields DEF Settle
<1>6. WorkerShape'
  BY <1>4, IdleFields DEF WorkerShape
<1>7. OneOperation'
  BY <1>3, <1>4, IdleFields DEF OneOperation, Settle, At
<1>8. CoreFollowsWorker'
  <2> DEFINE m == ConnectReport(TRUE, Head(worker.queue))
  <2>1. m.kind = "connect" /\ m.config = Head(worker.queue) /\ m.config # None
    BY <1>2, ReportFields, ConfigsAssumption
  <2>2. core.held \in {Head(worker.queue), None}
    BY DEF CoreFollowsWorker, Settle, At
  <2>3. CASE core' = core /\ worker' = Idle /\ Reported' = {m}
    <3> HIDE DEF m
    <3> QED
      BY <2>1, <2>2, <2>3, IdleFields DEF CoreFollowsWorker
  <2>4. CASE core' = NoCore /\ worker'.pc = "stop" /\ Reported' = {}
    BY <2>4 DEF CoreFollowsWorker
  <2>5. CASE /\ core' = NoCore
             /\ worker' = Idle
             /\ Reported' = {ConnectReport(FALSE, None)}
    BY <2>5, CoreFields, ReportFields DEF CoreFollowsWorker
  <2> QED
    BY <1>4, <2>3, <2>4, <2>5
<1>9. ShownIsHeld'
  BY <1>2, <1>3, <1>4, CoreFields, ReportFields DEF ShownIsHeld
<1>10. UnseenIsPassing'
  BY <1>2, <1>4, CoreFields, ReportFields DEF UnseenIsPassing
<1>11. LeavingStops'
  BY <1>2, <1>4, ReportFields DEF LeavingStops, Starts
<1> QED
  BY <1>5, <1>6, <1>7, <1>8, <1>9, <1>10, <1>11

LEMMA ProbeIInv == ASSUME IInv, Probe PROVE IInv'
<1> USE TypeSplit DEF IInv
<1>1. worker \in WorkerType /\ worker.op # "none" /\ worker # Idle
  BY IdleFields DEF Probe, At
<1>2. /\ vm' \in VmType
      /\ vm'.busy = vm.busy
      /\ vm'.connected = vm.connected
      /\ vm'.active = vm.active
      /\ vm'.watching = vm.watching
  <2>1. CASE UNCHANGED vm
    BY <2>1
  <2>2. ASSUME NEW ranking \in Routes \ {<<>>}, NEW count \in 0..StandbyLimit,
               vm' = [vm EXCEPT !.ranked = ranking,
                                !.standby = Take(Tail(ranking), count)]
        PROVE  /\ vm' \in VmType
               /\ vm'.busy = vm.busy
               /\ vm'.connected = vm.connected
               /\ vm'.active = vm.active
               /\ vm'.watching = vm.watching
    <3>1. ranking \in Seq(Configs) /\ Tail(ranking) \in Seq(Configs)
      BY RoutesType
    <3>2. Take(Tail(ranking), count) \in Seq(Configs)
      <4>1. count \in Nat
        OBVIOUS
      <4> QED
        BY <3>1, <4>1, TakeType
    <3> QED
      BY <2>2, <3>1, <3>2 DEF VmType
  <2> QED
    BY <2>2 DEF Probe
<1>3. /\ worker' \in WorkerType
      /\ inbox' \in Seq(MessageType)
      /\ (\A i, j \in Reports : i = j)'
      /\ \/ /\ worker' # Idle
            /\ worker'.op = "connect"
            /\ worker'.pc = "stop"
            /\ worker'.queue # <<>>
            /\ Reported' = {}
         \/ /\ worker' = Idle
            /\ Reported' = {ConnectReport(FALSE, None)}
  <2>1. CASE Finish(ConnectReport(FALSE, None))
    BY <2>1, <1>1, FinishStep, IdleFields, ReportFields
  <2>2. ASSUME NEW ranking \in Routes \ {<<>>},
               worker' = [worker EXCEPT !.pc = "stop", !.queue = <<Head(ranking)>>],
               UNCHANGED inbox
        PROVE  /\ worker' \in WorkerType
               /\ inbox' \in Seq(MessageType)
               /\ (\A i, j \in Reports : i = j)'
               /\ \/ /\ worker' # Idle
                     /\ worker'.op = "connect"
                     /\ worker'.pc = "stop"
                     /\ worker'.queue # <<>>
                     /\ Reported' = {}
                  \/ /\ worker' = Idle
                     /\ Reported' = {ConnectReport(FALSE, None)}
    <3>1. <<Head(ranking)>> \in Seq(Configs) /\ <<Head(ranking)>> # <<>>
      BY RoutesType
    <3>2. /\ worker' \in WorkerType
          /\ worker'.op = "connect"
          /\ worker'.pc = "stop"
          /\ worker'.queue # <<>>
      <4>1. worker.op = "connect"
        BY DEF Probe, At
      <4>2. worker' = [op |-> "connect", pc |-> "stop",
                       queue |-> <<Head(ranking)>>, ordered |-> worker.ordered]
        BY <2>2, <4>1 DEF WorkerType
      <4>3. worker.ordered \in Seq(Configs)
        BY DEF WorkerType
      <4> HIDE DEF IInv
      <4> QED
        BY <3>1, <4>2, <4>3 DEF WorkerType
    <3>3. worker' # Idle
      BY <3>2, IdleFields
    <3>4. Reported' = {} /\ (\A i, j \in Reports : i = j)'
      BY <1>1, <2>2, SameInbox DEF OneOperation
    <3> QED
      BY <2>2, <3>2, <3>3, <3>4
  <2> QED
    BY <2>1, <2>2 DEF Probe
<1>4. TypeOK'
  BY TypeJoin, <1>2, <1>3 DEF Probe
<1>5. WorkerShape'
  BY <1>3, IdleFields DEF WorkerShape
<1>6. OneOperation'
  BY <1>2, <1>3, IdleFields DEF OneOperation, Probe, At
<1>7. CoreFollowsWorker'
  BY <1>3, IdleFields, ReportFields DEF CoreFollowsWorker
<1>8. ShownIsHeld'
  BY <1>2, IdleFields DEF ShownIsHeld, Probe, At, OneOperation
<1>9. UnseenIsPassing'
  BY <1>2, IdleFields DEF UnseenIsPassing, Probe, At, OneOperation
<1>10. LeavingStops'
  BY <1>3, ReportFields DEF LeavingStops, Starts
<1> QED
  BY <1>4, <1>5, <1>6, <1>7, <1>8, <1>9, <1>10

-------------------------------------------------------------------------------
LEMMA InitIInv == Init => IInv
<1> SUFFICES ASSUME Init PROVE IInv
  OBVIOUS
<1>1. inbox \in Seq(MessageType) /\ Reports = {} /\ Reported = {}
  <2>1. inbox = <<>>
    BY DEF Init
  <2> QED
    BY <2>1 DEF Reports, Reported
<1>2. vm \in VmType /\ vm.busy = FALSE /\ vm.connected = FALSE
  BY DEF Init, Fresh, VmType, FailureLimit
<1>3. TypeOK
  <2>1. stray \in BOOLEAN /\ abandoned \in BOOLEAN
    BY DEF Init
  <2>2. stored \in SUBSET Configs /\ pings \in 0..MaxPings /\ app = "up"
    BY MaxPingsAssumption DEF Init
  <2>3. worker \in WorkerType /\ core \in CoreType
    BY IdleFields, CoreFields DEF Init
  <2> QED
    BY <1>1, <1>2, <2>1, <2>2, <2>3, TypeSplit
<1>4. WorkerShape
  BY IdleFields DEF Init, WorkerShape
<1>5. OneOperation
  BY <1>1, <1>2 DEF Init, OneOperation
<1>6. CoreFollowsWorker
  BY <1>1, IdleFields DEF Init, CoreFollowsWorker
<1>7. ShownIsHeld /\ UnseenIsPassing /\ LeavingStops
  BY <1>2, CoreFields DEF Init, ShownIsHeld, UnseenIsPassing, LeavingStops
<1> QED
  BY <1>3, <1>4, <1>5, <1>6, <1>7 DEF IInv

LEMMA StutterIInv == ASSUME IInv, UNCHANGED vars PROVE IInv'
<1>1. Reported' = Reported /\ (\A i, j \in Reports : i = j)'
  BY SameInbox DEF vars, IInv, OneOperation
<1> QED
  BY <1>1, SameReports, TypeSplit DEF vars, IInv

LEMMA StepIInv == IInv /\ [Next]_vars => IInv'
<1> SUFFICES ASSUME IInv, [Next]_vars PROVE IInv'
  OBVIOUS
<1>1. CASE ConnectTunnel \/ DisconnectTunnel \/ RunConfigTrial \/ ImportSubscription
  BY <1>1, ConnectTunnelIInv, DisconnectTunnelIInv, RunConfigTrialIInv,
     ImportSubscriptionIInv
<1>2. CASE \E c \in Configs : ImportLink(c) \/ RemoveTunnelConfig(c)
  BY <1>2, ListIInv
<1>3. CASE WorkerStep
  BY <1>3, ProbeIInv, StopPreviousIInv, NoStandbyIInv, CheckConfigIInv,
     SpawnIInv, SettleIInv, StopCoreIInv, OutsideEndsIInv DEF WorkerStep
<1>4. CASE Handler
  BY <1>4, OnLiveHealthIInv, OnConnectFinishedIInv, OnDisconnectFinishedIInv,
     OnTrialFinishedIInv, OnSubscriptionFinishedIInv DEF Handler
<1>5. CASE WatchdogTick \/ PingTick \/ PingAnswers
  BY <1>5, WatchdogTickIInv, PingTickIInv, PingAnswersIInv
<1>6. CASE CoreDies \/ Quit \/ CloseWindow \/ Restart \/ StrayEnds
  BY <1>6, CoreDiesIInv, QuitIInv, CloseWindowIInv, RestartIInv, StrayEndsIInv
<1>7. CASE Leave \/ Crash
  BY <1>7, ProgramEndsIInv DEF Leave, Crash
<1>8. CASE UNCHANGED vars
  BY <1>8, StutterIInv
<1> QED
  BY <1>1, <1>2, <1>3, <1>4, <1>5, <1>6, <1>7, <1>8 DEF Next

-------------------------------------------------------------------------------
\* The inductive invariant holds in every reachable state.
THEOREM Invariance == Spec => []IInv
  BY InitIInv, StepIInv, PTL DEF Spec

\* Every variable keeps its type, whichever handler or thread takes a step.
THEOREM TypeCorrect == Spec => []TypeOK
<1>1. IInv => TypeOK
  BY DEF IInv
<1> QED
  BY <1>1, Invariance, PTL

LEMMA OneReportCounted ==
  ASSUME IInv PROVE Cardinality(Reports) <= 1
<1>1. CASE Reports = {}
  BY <1>1, FS_EmptySet
<1>2. CASE Reports # {}
  <2>1. PICK i \in Reports : TRUE
    BY <1>2
  <2>2. Reports = {i}
    BY DEF IInv, OneOperation
  <2> QED
    BY <2>2, FS_Singleton
<1> QED
  BY <1>1, <1>2

LEMMA StatusImplied == IInv => StatusIsTrue
<1> SUFFICES ASSUME IInv PROVE StatusIsTrue
  OBVIOUS
<1>1. Reports = {i \in DOMAIN inbox : inbox[i].kind # "health"}
  BY DEF Reports, IsReport
<1>2. Reported = {} <=> Reports = {}
  BY DEF Reported
<1>3. BusyTracksWorker
  BY <1>1, <1>2, OneReportCounted DEF IInv, OneOperation, BusyTracksWorker
<1>4. ShownIsStarted
  <2> SUFFICES ASSUME vm.connected, ~vm.busy
               PROVE  /\ vm.active # None
                      /\ core.held \in {vm.active, None}
                      /\ vm.watching
    BY DEF ShownIsStarted
  <2>1. worker = Idle /\ Reported = {}
    BY DEF IInv, OneOperation
  <2> QED
    BY <2>1, IdleFields DEF IInv, ShownIsHeld
<1> QED
  BY <1>3, <1>4 DEF StatusIsTrue

\* The busy flag stands for exactly one worker or its report, and what is shown
\* as connected is the route whose core was started last, with a watchdog.
THEOREM StatusHolds == Spec => []StatusIsTrue
  BY StatusImplied, Invariance, PTL

LEMMA UnseenImplied == IInv => NothingRunsUnseen
<1> SUFFICES ASSUME IInv, ~vm.connected, ~vm.busy, ~abandoned
             PROVE  ~core.alive
  BY DEF NothingRunsUnseen
<1>1. worker = Idle /\ Reported = {}
  BY DEF IInv, OneOperation
<1> QED
  BY <1>1, IdleFields DEF IInv, UnseenIsPassing

\* While nothing is shown and nothing is at work, no core runs, unless its route
\* was given up without stopping it.
THEOREM NothingUnseen == Spec => []NothingRunsUnseen
  BY UnseenImplied, Invariance, PTL

LEMMA LeaveImplied == IInv /\ Leave /\ ~StartInFlight => stray' = stray
<1> SUFFICES ASSUME IInv, Leave, ~StartInFlight
             PROVE  stray' = stray
  OBVIOUS
<1>1. ~(\E m \in Reported : m.kind = "connect")
  BY DEF StartInFlight, Reported, Reports
<1>2. ~core.alive
  BY <1>1 DEF IInv, LeavingStops, Leave, StartInFlight
<1>3. stray \in BOOLEAN
  BY TypeSplit DEF IInv
<1>4. stray' = (stray \/ core.alive)
  BY DEF Leave, ProgramEnds
<1> QED
  BY <1>2, <1>3, <1>4

\* An exit from the tray leaves no core, unless one was being started.
THEOREM QuitStops == Spec => QuitLeavesNoCore
<1>1. IInv /\ [Next]_vars => [Leave /\ ~StartInFlight => stray' = stray]_vars
  BY LeaveImplied
<1> QED
  BY <1>1, Invariance, PTL DEF Spec, QuitLeavesNoCore
===============================================================================
