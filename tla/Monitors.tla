-------------------------------- MODULE Monitors --------------------------------
(***************************************************************************)
(* The measurements that timers repeat while a connection is up: the       *)
(* RouteDNA monitor, which looks for a change of network and for a DNS     *)
(* server that no longer answers, and three that only show something (the  *)
(* installed programs, the load of the adapters, the standby route).  Each *)
(* has a flag, a worker and a signal with its result.                      *)
(***************************************************************************)
EXTENDS Naturals, FiniteSets

CONSTANTS Networks, Servers,  \* where the computer is; the DNS profiles
          NoContext, NoServer,
          Bad,                \* failures before the user is warned
          Slack               \* bound: failures that are counted beyond it

VARIABLES net, answering,  \* the outside
          dns, tunnel,     \* the server that is connected, tunnel_connected
          context,         \* _active_route_context
          bad,             \* _route_bad_samples
          probe,           \* the worker of the RouteDNA monitor and its signal
          shows,           \* the other monitors
          fails,           \* history: failures in a row of the server that is connected
          warned,          \* history: the last step warned the user
          crossed          \* history: the connection changed under a probe

monitorVars == <<net, answering, dns, tunnel, context, bad, probe, shows, fails, warned, crossed>>

Shows == {"catalog", "load", "standby"}
Healths == {"good", "bad", "none"}
Resting == [pc |-> "none", before |-> NoContext, now |-> NoContext,
            server |-> NoServer, health |-> "none", moved |-> FALSE]

Looks == [pc : {"none", "look", "ask", "done", "lost"},
          before : Networks \cup {NoContext}, now : Networks \cup {NoContext},
          server : Servers \cup {NoServer}, health : Healths, moved : BOOLEAN]

MonitorTypeOK ==
    /\ net \in Networks /\ answering \subseteq Servers
    /\ dns \in Servers \cup {NoServer} /\ tunnel \in BOOLEAN
    /\ context \in Networks \cup {NoContext}
    /\ bad \in 0..(Bad + Slack) /\ fails \in 0..(Bad + Slack)
    /\ probe \in Looks /\ (probe.pc # "none" => probe.before # NoContext)
    /\ shows \in [Shows -> [busy : BOOLEAN, pc : {"none", "work", "done"}]]
    /\ warned \in BOOLEAN /\ crossed \in BOOLEAN

MonitorInit ==
    /\ net \in Networks /\ answering = Servers
    /\ dns = NoServer /\ tunnel = FALSE /\ context = NoContext
    /\ bad = 0 /\ probe = Resting
    /\ shows = [m \in Shows |-> [busy |-> FALSE, pc |-> "none"]]
    /\ fails = 0 /\ warned = FALSE /\ crossed = FALSE

\* What a step that changes the connection does besides
Changed ==
    /\ probe' = [probe EXCEPT !.moved = probe.pc # "none"]
    /\ crossed' = (crossed \/ probe.pc \in {"look", "ask", "done"})
    /\ fails' = 0 /\ warned' = FALSE
    /\ UNCHANGED <<net, answering, shows>>

Outside ==
    /\ \/ net' \in Networks /\ UNCHANGED answering
       \/ answering' \in SUBSET Servers /\ UNCHANGED net
    /\ warned' = FALSE
    /\ UNCHANGED <<dns, tunnel, context, bad, probe, shows, fails, crossed>>

\* route_dna_service.snapshot and detect_drift, as far as they tell networks apart
Snapshot == net
Drifted(before, now) == before # now

\* _on_apply_finished: the context is that of the race which chose the server,
\* and empty when RouteDNA is off or the server was chosen by hand.
DnsConnected(server, known) ==
    /\ dns' = server
    /\ context' = IF known THEN Snapshot ELSE NoContext
    /\ bad' = 0
    /\ UNCHANGED tunnel
    /\ Changed

\* _on_disconnect_finished
DnsEnded ==
    /\ dns # NoServer
    /\ dns' = NoServer
    /\ context' = IF tunnel THEN context ELSE NoContext
    /\ bad' = 0
    /\ UNCHANGED tunnel
    /\ Changed

\* _on_tunnel_connect_finished, _on_tunnel_disconnect_finished
TunnelConnected(known) ==
    /\ tunnel' = TRUE
    /\ context' = IF known THEN Snapshot ELSE NoContext
    /\ probe' = [probe EXCEPT !.moved = @ \/ probe.pc # "none"]
    /\ warned' = FALSE
    /\ UNCHANGED <<net, answering, dns, bad, shows, fails, crossed>>
TunnelEnded ==
    /\ tunnel
    /\ tunnel' = FALSE
    /\ context' = IF dns # NoServer THEN context ELSE NoContext
    /\ probe' = [probe EXCEPT !.moved = @ \/ probe.pc # "none"]
    /\ warned' = FALSE
    /\ UNCHANGED <<net, answering, dns, bad, shows, fails, crossed>>

-------------------------------------------------------------------------------
(* The RouteDNA monitor *)

\* _route_dna_monitor_tick; a signal that waits keeps the flag.
Tick ==
    /\ probe.pc = "none" /\ context # NoContext /\ (dns # NoServer \/ tunnel)
    /\ probe' = [Resting EXCEPT !.pc = "look", !.before = context, !.server = dns]
    /\ warned' = FALSE
    /\ UNCHANGED <<net, answering, dns, tunnel, context, bad, shows, fails, crossed>>

\* Nothing catches an exception of the snapshot.
Look(raises) ==
    /\ probe.pc = "look"
    /\ probe' = IF raises THEN [probe EXCEPT !.pc = "lost"]
                ELSE [probe EXCEPT !.pc = "ask", !.now = Snapshot]
    /\ warned' = FALSE
    /\ UNCHANGED <<net, answering, dns, tunnel, context, bad, shows, fails, crossed>>

\* measure_dns_query_ms of the server that was connected at the tick
Ask ==
    /\ probe.pc = "ask"
    /\ probe' = [probe EXCEPT !.pc = "done",
          !.health = IF probe.server = NoServer THEN "none"
                     ELSE IF probe.server \in answering THEN "good" ELSE "bad"]
    /\ fails' = IF probe.server = NoServer \/ probe.server # dns THEN fails
                ELSE IF probe.server \in answering THEN 0
                ELSE IF fails < Bad + Slack THEN fails + 1 ELSE fails
    /\ warned' = FALSE
    /\ UNCHANGED <<net, answering, dns, tunnel, context, bad, shows, crossed>>

\* _on_route_monitor_checked.  After a change of network the context is taken
\* anew, whether something is connected or not.
Checked ==
    LET drifted == Drifted(probe.before, probe.now)
    IN
    /\ probe.pc = "done"
    /\ probe.health = "bad" => bad < Bad + Slack
    /\ probe' = Resting
    /\ context' = IF drifted THEN Snapshot ELSE context
    /\ bad' = IF drifted \/ probe.health = "good" THEN 0
              ELSE IF probe.health = "bad" THEN bad + 1 ELSE bad
    /\ fails' = IF drifted THEN 0 ELSE fails
    /\ warned' = (~drifted /\ dns # NoServer /\ bad' = Bad)
    /\ UNCHANGED <<net, answering, dns, tunnel, shows, crossed>>

-------------------------------------------------------------------------------
(* The others: refresh_app_catalog clears its flag when its signal arrives,     *)
(* _network_monitor_tick before it is sent, _shadow_route_tick in any case.      *)

Show(m, busy, pc) ==
    /\ shows' = [shows EXCEPT ![m] = [busy |-> busy, pc |-> pc]]
    /\ warned' = FALSE
    /\ UNCHANGED <<net, answering, dns, tunnel, context, bad, probe, fails, crossed>>

Starts(m) ==
    /\ ~shows[m].busy /\ shows[m].pc = "none"
    /\ m = "standby" => tunnel
    /\ Show(m, TRUE, "work")
\* With or without an exception
Works(m) ==
    /\ shows[m].pc = "work"
    /\ Show(m, m = "catalog", IF m = "standby" THEN "none" ELSE "done")
Arrives(m) ==
    /\ shows[m].pc = "done"
    /\ Show(m, FALSE, "none")

MonitorNext ==
    \/ Outside \/ DnsEnded \/ TunnelEnded \/ Tick \/ Ask \/ Checked
    \/ \E yes \in BOOLEAN : TunnelConnected(yes) \/ Look(yes)
                            \/ \E server \in Servers : DnsConnected(server, yes)
    \/ \E m \in Shows : Starts(m) \/ Works(m) \/ Arrives(m)

MonitorSpec == MonitorInit /\ [][MonitorNext]_monitorVars

MonitorClean == ~crossed

-------------------------------------------------------------------------------
\* "RouteDNA saw three failed answers in a row; the DNS route needs a new smart
\* test" (main_viewmodel.py:477): the warning is about the server that is
\* connected, and about failures without an answer or a change of network in
\* between - unless a probe outlived the connection it was made for; and whatever
\* fails, a monitor other than RouteDNA's can start again once its worker ended.
WarnedWithCause ==
    /\ warned => fails >= Bad \/ crossed
    /\ \A m \in Shows : shows[m].busy => shows[m].pc # "none"

\* WarnedWithCause, made inductive: a probe is of the server that is connected, and
\* what the handlers counted does not exceed what failed; the answer that waits for
\* its handler is counted by one side only.
CountsWhatFailed ==
    ~crossed =>
       /\ warned => fails >= Bad
       /\ probe.pc \in {"look", "ask", "done"} => probe.server = dns
       /\ probe.pc = "done" /\ probe.health = "bad" /\ bad < Bad + Slack => fails > bad
       /\ probe.pc # "done" \/ probe.health = "none" => fails >= bad

NoneIsStuck == \A m \in Shows : shows[m].busy => shows[m].pc # "none"

MonitorInv == MonitorTypeOK /\ CountsWhatFailed /\ NoneIsStuck
===============================================================================
