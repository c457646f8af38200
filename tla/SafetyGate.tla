------------------------------ MODULE SafetyGate ------------------------------
(***************************************************************************)
(* The comparison of a game's route before and after connecting            *)
(* (probe_game_server) and the gate that takes a worse route back          *)
(* (_on_game_server_probe_ready, rollback_active_route).  The user presses *)
(* the buttons, connects and disconnects at any time; several probes can   *)
(* be at work, and their results wait for the event loop.                  *)
(***************************************************************************)
EXTENDS FiniteSets

CONSTANTS Probes,       \* bound: probes at work at the same time
          NoBaseline

VARIABLES link,      \* what the program has connected
          baseline,  \* the stored result "before", of the game
          probe,     \* the probe workers
          undone     \* history: the route that the last step took back, and its evidence

gateVars == <<link, baseline, probe, undone>>

\* app is a tunnel for the game's process only.
Links == {"direct", "dns", "tunnel", "app"}

\* label: the connection at the click; on: the one that the samples went over;
\* moved is history: the connection changed before the result was used.
Baselines == [label : Links, on : Links, moved : BOOLEAN]
Probing == [pc : {"none", "probe", "report"}, phase : {"baseline", "current"},
            label : Links, on : Links, base : Baselines \cup {NoBaseline},
            worse : BOOLEAN, moved : BOOLEAN]
Idle == [pc |-> "none", phase |-> "current", label |-> "direct", on |-> "direct",
         base |-> NoBaseline, worse |-> FALSE, moved |-> FALSE]

GateTypeOK ==
    /\ link \in Links
    /\ baseline \in Baselines \cup {NoBaseline}
    /\ probe \in [Probes -> Probing]
    /\ \A p \in Probes :
          probe[p].worse => probe[p].phase = "current" /\ probe[p].base # NoBaseline

GateInit ==
    /\ link = "direct" /\ baseline = NoBaseline
    /\ probe = [p \in Probes |-> Idle]
    /\ undone = {}

Moved == [p \in Probes |-> [probe[p] EXCEPT !.moved = probe[p].pc # "none"]]

\* A connection is made or ended, by the user or by itself.
LinkChanges(to) ==
    /\ to # link
    /\ link' = to
    /\ probe' = Moved
    /\ undone' = {}
    /\ UNCHANGED baseline

\* probe_game_server, from a button or, after a connection was made, from
\* _schedule_safety_gate_probe; the worker reads the baseline as it starts.
Click(p, phase) ==
    /\ probe[p].pc = "none"
    /\ probe' = [probe EXCEPT ![p] = [Idle EXCEPT
          !.pc = "probe", !.phase = phase,
          !.label = IF phase = "baseline" THEN link ELSE @,
          !.base = IF phase = "current" THEN baseline ELSE @]]
    /\ undone' = {}
    /\ UNCHANGED <<link, baseline>>

GateFires(p) == link # "direct" /\ baseline # NoBaseline /\ Click(p, "current")

\* The program's own probe does not go through a tunnel for the game's process.
Through == IF link = "app" THEN "direct" ELSE link

\* Mutant: any baseline is trusted
CompareWithAny(p, slower) ==
    LET trustworthy == link # "app" /\ probe[p].base # NoBaseline
    IN
    /\ probe[p].pc = "probe" /\ probe[p].phase = "current"
    /\ probe' = [probe EXCEPT ![p] =
          IF slower /\ trustworthy
          THEN [@ EXCEPT !.pc = "report", !.on = Through, !.worse = TRUE]
          ELSE [Idle EXCEPT !.pc = "report"]]
    /\ undone' = {}
    /\ UNCHANGED <<link, baseline>>

\* benchmark_endpoint of the same destination, and rollback_recommended.  The
\* comparison is trusted when the baseline says that it was direct and the tunnel
\* is not for the game alone.
Compare(p, slower) ==
    LET base == probe[p].base
        trustworthy == link # "app" /\ base # NoBaseline /\ base.label = "direct"
    IN
    /\ probe[p].pc = "probe" /\ probe[p].phase = "current"
    /\ probe' = [probe EXCEPT ![p] =
          IF slower /\ trustworthy
          THEN [@ EXCEPT !.pc = "report", !.on = Through, !.worse = TRUE]
          ELSE [Idle EXCEPT !.pc = "report"]]
    /\ undone' = {}
    /\ UNCHANGED <<link, baseline>>

KeepBaseline(p) ==
    /\ probe[p].pc = "probe" /\ probe[p].phase = "baseline"
    /\ baseline' = [label |-> probe[p].label, on |-> Through, moved |-> probe[p].moved]
    /\ probe' = [probe EXCEPT ![p] = [Idle EXCEPT !.pc = "report"]]
    /\ undone' = {}
    /\ UNCHANGED link

\* No destination, or none that answers
Fails(p) ==
    /\ probe[p].pc = "probe"
    /\ probe' = [probe EXCEPT ![p] = [Idle EXCEPT !.pc = "report"]]
    /\ undone' = {}
    /\ UNCHANGED <<link, baseline>>

\* _on_game_server_probe_ready; the gate can be off.  rollback_active_route begins
\* to disconnect whatever is connected now; the disconnection ends by itself
\* (LinkChanges), or is refused.
Report(p, gate) ==
    LET s == probe[p]
    IN
    /\ s.pc = "report"
    /\ undone' = IF s.worse /\ gate /\ link # "direct"
                 THEN {[link |-> link, on |-> s.on, base |-> s.base, moved |-> s.moved]}
                 ELSE {}
    /\ probe' = [probe EXCEPT ![p] = Idle]
    /\ UNCHANGED <<link, baseline>>

GateNext ==
    \/ \E to \in Links : LinkChanges(to)
    \/ \E p \in Probes :
         \/ \E phase \in {"baseline", "current"} : Click(p, phase)
         \/ GateFires(p) \/ KeepBaseline(p) \/ Fails(p)
         \/ \E yes \in BOOLEAN : Compare(p, yes) \/ Report(p, yes)

GateSpec == GateInit /\ [][GateNext]_gateVars

-------------------------------------------------------------------------------
\* "Safety Gate: the new route is significantly worse" (main_window.py:2743): the
\* route that is taken back is the one whose samples were compared, and they were
\* compared with the direct connection - when the connection stayed the same from
\* the click to the report, of both probes.
RollbackIsJustified ==
    \A u \in undone :
       ~u.moved /\ ~u.base.moved => u.on = u.link /\ u.base.on = "direct"

\* RollbackIsJustified, made inductive: what a probe knows of the comparison is
\* what it was, while the connection stays the same.
BaseFine(b) ==
    b # NoBaseline /\ ~b.moved /\ b.label = "direct" => b.on = "direct"

ProbeFine(q) ==
    /\ q.worse => q.pc = "report"
    /\ q.pc = "probe" /\ q.phase = "baseline" /\ ~q.moved => q.label = link
    /\ q.worse /\ ~q.moved => q.on = link
    /\ q.worse => q.base.label = "direct"
    /\ BaseFine(q.base)

GateInv ==
    /\ GateTypeOK
    /\ \A p \in Probes : ProbeFine(probe[p])
    /\ BaseFine(baseline)
    /\ RollbackIsJustified
===============================================================================
