--------------------------------- MODULE Tariff ---------------------------------
(***************************************************************************)
(* The tariff check of a link (traffic_tariff_service, linkirani_service,  *)
(* operator_detection_service) and the view that asks for it               *)
(* (TrafficInsightWidget).  A worker follows the redirects of the link,    *)
(* compares each hop with the signed list of domestic hosts and with the   *)
(* offline allocation of Iranian addresses, and may ask a third party for  *)
(* its opinion on the last host.  The connection, the documents and the    *)
(* answers of hosts belong to the outside.                                 *)
(***************************************************************************)
EXTENDS Naturals, Sequences, FiniteSets, Sorting

CONSTANTS Hosts, Blocks,   \* names, with one link on each, and public addresses
          Allocated,       \* the blocks of the offline allocation list
          Published,       \* hosts and blocks that the publisher's list holds
          Hops,            \* MAX_REDIRECTS + 1
          Remembered,      \* MAX_HISTORY_ITEMS
          Keyed,           \* the build has the publisher's key; this one has none yet
          NoDocument, NoResult

VARIABLES cache,     \* domestic_traffic_catalog.signed.json
          tunnel,    \* what the traffic goes through
          view,      \* the widget
          check,     \* its worker
          inbox,     \* the result that the worker has emitted
          links      \* traffic_insight_history.json

tariffVars == <<cache, tunnel, view, check, inbox, links>>


\* Signed and in force; or else outdated, altered or written by somebody else
Documents == {"signed", "forged", NoDocument}
Listed(document) == CASE document = "signed" -> Published
                      [] document = "forged" -> Hosts \cup Blocks
                      [] OTHER -> {}

\* TariffCatalog.matches
Matches(list, host, addresses) == ({host} \cup addresses) \cap list # {}

Steps == [host : Hosts, addresses : SUBSET Blocks, registered : BOOLEAN]
Classes == {"domestic", "mixed", "likely_domestic", "likely_full", "unknown"}
Results == [steps : Seq(Steps), class : Classes,
            confidence : {"high", "medium", "low", "limited", "unknown"},
            warned : BOOLEAN, operator : {"manual", "detected", "unavailable", "tunnel-active"},
            external : BOOLEAN, through : {"none", "warp", "vpn"},
            misled : SUBSET {"trace", "unsaid", "moved"}]

Checks == [pc : {"none", "look", "walk", "ask", "emit"}, link : Hosts \cup {NoResult},
           through : {"none", "warp", "vpn"}, misled : SUBSET {"trace", "unsaid", "moved"},
           seen : BOOLEAN, operator : {"manual", "detected", "unavailable", "tunnel-active"},
           listed : SUBSET (Hosts \cup Blocks \cup Published), steps : Seq(Steps),
           result : Results \cup {NoResult}]

\* through and misled are history: what the traffic went through when the
\* worker looked, and why it cannot know (the trace failed, the user did not say,
\* the user moved afterwards).
Resting == [pc |-> "none", link |-> NoResult, through |-> "none",
            misled |-> {}, seen |-> FALSE, operator |-> "manual", listed |-> {},
            steps |-> <<>>, result |-> NoResult]

TariffTypeOK ==
    /\ cache \in Documents
    /\ tunnel \in {"none", "warp", "vpn"}
    /\ view.shown \in Results \cup {NoResult}
    /\ view.busy = (check.pc # "none" \/ inbox # <<>>)
    /\ check \in Checks /\ Len(check.steps) <= Hops
    /\ links \in Seq(Hosts) /\ Len(links) <= Remembered
    /\ \A i, j \in DOMAIN links : links[i] = links[j] => i = j

TariffInit ==
    /\ cache = NoDocument
    /\ tunnel = "none"
    /\ view = [busy |-> FALSE, shown |-> NoResult]
    /\ check = Resting /\ inbox = <<>> /\ links = <<>>

-------------------------------------------------------------------------------
(* The list *)

\* verify_signed_catalog
Verified(document) == Keyed /\ document = "signed"

\* Mutant: the file in the cache is not verified
TrustedUnverified(bundle) ==
    IF cache # NoDocument THEN Listed(cache)
    ELSE IF Verified(bundle) THEN Listed(bundle) ELSE {}

\* load_trusted_catalog, load_bundled_catalog: an entry counts only when signed.
Trusted(bundle) ==
    IF Verified(cache) THEN Listed(cache)
    ELSE IF Verified(bundle) THEN Listed(bundle) ELSE {}

\* refresh_catalog replaces the file only after the verification; nothing in the program calls it yet.
RefreshCatalog(document) ==
    /\ Verified(document)
    /\ cache' = document
    /\ UNCHANGED <<tunnel, view, check, inbox, links>>

\* Another program replaces the file, or the list runs out.
CacheChanges(document) ==
    /\ document # cache
    /\ cache' = document
    /\ UNCHANGED <<tunnel, view, check, inbox, links>>

\* The user changes the connection; a check that is under way does not see it.
TunnelMoves(to) ==
    /\ to # tunnel
    /\ tunnel' = to
    /\ check' = IF check.pc = "walk"
                THEN [check EXCEPT !.misled = @ \cup {"moved"}] ELSE check
    /\ UNCHANGED <<cache, view, inbox, links>>

-------------------------------------------------------------------------------
(* The check *)

Start(link) ==
    /\ ~view.busy
    /\ view' = [busy |-> TRUE, shown |-> NoResult]
    /\ check' = [Resting EXCEPT !.pc = "look", !.link = link]
    /\ UNCHANGED <<cache, tunnel, inbox, links>>

\* operator_detection_service.detect, whose answer is thrown away when a tunnel was
\* seen: it is the tunnel's operator.
Operator(auto, seen, detected) ==
    IF ~auto THEN "manual"
    ELSE IF seen THEN "tunnel-active"
    ELSE IF detected THEN "detected" ELSE "unavailable"

\* The two lookups, with the boxes as they were at the start: the user says that
\* a VPN is on, and wants the operator detected.  A trace that fails says the
\* same as one without WARP, and another VPN is known only from the user.
LookAround(said, auto, traced, detected, bundle) ==
    LET seen == (tunnel = "warp" /\ traced) \/ said
    IN
    /\ check.pc = "look"
    /\ check' = [check EXCEPT
          !.pc = "walk", !.through = tunnel, !.seen = seen, !.listed = Trusted(bundle),
          !.operator = Operator(auto, seen, detected),
          !.misled = (IF tunnel = "warp" /\ ~seen THEN {"trace"} ELSE {})
                     \cup (IF tunnel = "vpn" /\ ~seen THEN {"unsaid"} ELSE {})]
    /\ UNCHANGED <<cache, tunnel, view, inbox, links>>

Fail ==
    /\ check' = Resting
    /\ inbox' = <<NoResult>>
    /\ UNCHANGED <<cache, tunnel, view, links>>

Location(addresses) ==
    IF addresses \subseteq Allocated THEN "iran"
    ELSE IF addresses \cap Allocated # {} THEN "mixed" ELSE "foreign"

\* The verdict on the hops, worst evidence last.  Nothing but the list makes a
\* link domestic, and a tunnel that was seen takes the confidence away.
Classified(steps, seen) ==
    LET final == steps[Len(steps)]
        matches == {i \in DOMAIN steps : steps[i].registered}
        where == Location(final.addresses)
        class == IF final.registered THEN "domestic"
                 ELSE IF matches # {} THEN "mixed"
                 ELSE IF where = "iran" THEN "likely_domestic"
                 ELSE IF where = "foreign" THEN "likely_full" ELSE "unknown"
        open == IF matches = DOMAIN steps THEN "high"
                ELSE IF matches # {} THEN "medium" ELSE "low"
    IN  [steps |-> steps, class |-> class,
         confidence |-> IF class = "unknown" THEN "unknown"
                        ELSE IF seen THEN "limited" ELSE open,
         warned |-> seen,
         operator |-> check.operator, external |-> FALSE, through |-> check.through,
         misled |-> check.misled]

\* One turn of the loop: resolve, ask without following, record, decide.
\* A loop, a private address, no answer, a redirect without a target and one
\* too many raise.
Visit(host, addresses) ==
    /\ check.pc = "walk" /\ check.link = host
    /\ ~\E i \in DOMAIN check.steps : check.steps[i].host = host
    /\ LET step == [host |-> host, addresses |-> addresses,
                    registered |-> Matches(check.listed, host, addresses)]
           steps == Append(check.steps, step)
       IN  \/ /\ Len(steps) < Hops
              /\ \E target \in Hosts :
                    check' = [check EXCEPT !.steps = steps, !.link = target]
           \/ check' = [check EXCEPT
                 !.pc = "ask", !.listed = {}, !.steps = <<>>,
                 !.result = Classified(steps, check.seen)]
    /\ UNCHANGED <<cache, tunnel, view, inbox, links>>

WalkFails == check.pc = "walk" /\ Fail

\* linkirani_service.check, when the user switched it on: an answer counts when
\* it is about the host that was asked for.  merge_external_evidence: it never
\* makes a link domestic.  That a host is in Iran changes only the wording.
Merged(result, registered) ==
    IF registered /\ result.class \in {"unknown", "likely_domestic", "likely_full"}
    THEN [result EXCEPT !.class = "likely_domestic", !.confidence = "medium", !.external = TRUE]
    ELSE [result EXCEPT !.external = TRUE,
                        !.warned = @ \/ (result.class = "domestic" /\ ~registered)]

ThirdParty(available, registered) ==
    /\ check.pc = "ask"
    /\ check' = [check EXCEPT !.pc = "emit",
                    !.result = IF available THEN Merged(@, registered) ELSE @]
    /\ UNCHANGED <<cache, tunnel, view, inbox, links>>

Emit ==
    /\ check.pc = "emit"
    /\ inbox' = <<check.result>>
    /\ check' = Resting
    /\ UNCHANGED <<cache, tunnel, view, links>>

\* remember_result: one row for each link, the newest last, without its query.
Noted(result) ==
    LET host == result.steps[1].host
        all == Append(Selected(links, {i \in DOMAIN links : links[i] # host}), host)
    IN  IF Len(all) <= Remembered THEN all ELSE Tail(all)

\* _show_result, _show_error; the switch of the history is read only here.
Show(remember) ==
    /\ inbox # <<>>
    /\ inbox' = <<>>
    /\ view' = [busy |-> FALSE, shown |-> inbox[1]]
    /\ links' = IF inbox[1] # NoResult /\ remember THEN Noted(inbox[1]) ELSE links
    /\ UNCHANGED <<cache, tunnel, check>>

ClearHistory ==
    /\ links' = <<>>
    /\ UNCHANGED <<cache, tunnel, view, check, inbox>>

TariffNext ==
    \/ \E document \in Documents : RefreshCatalog(document) \/ CacheChanges(document)
    \/ \E to \in {"none", "warp", "vpn"} : TunnelMoves(to)
    \/ \E host \in Hosts : Start(host)
    \/ \E said, auto, traced, detected \in BOOLEAN, bundle \in Documents :
          LookAround(said, auto, traced, detected, bundle)
    \/ \E host \in Hosts, addresses \in (SUBSET Blocks) \ {{}} : Visit(host, addresses)
    \/ WalkFails
    \/ \E available, registered \in BOOLEAN : ThirdParty(available, registered)
    \/ Emit \/ ClearHistory
    \/ \E remember \in BOOLEAN : Show(remember)

TariffSpec == TariffInit /\ [][TariffNext]_tariffVars

-------------------------------------------------------------------------------
\* Bound for a run: a check begins with an empty history of links.
HistoryIsNew == links # <<>> => ~view.busy

\* "Only entries in a trusted catalog may produce a domestic result"
\* (traffic_tariff_service.py:5): a result that says domestic ends at a host
\* that the publisher lists, whatever file lay in the cache and whatever a third
\* party said, and is sure only when every hop is; while the worker could know
\* about the tunnel, no result behind one is sure, none lacks the warning, and
\* none names the operator of the tunnel (traffic_insight.py:323-331).
Honest(result) ==
    LET listed(step) == Matches(Published, step.host, step.addresses)
    IN  /\ result.class = "domestic" => listed(result.steps[Len(result.steps)])
        /\ result.confidence = "high" => \A i \in DOMAIN result.steps : listed(result.steps[i])
        /\ result.class = "likely_full" =>
              Location(result.steps[Len(result.steps)].addresses) = "foreign"
        /\ result.misled = {} /\ result.through # "none" =>
              /\ result.confidence # "high" /\ result.warned
              /\ result.operator # "detected"

VerdictIsHonest == view.shown # NoResult => Honest(view.shown)

\* VerdictIsHonest, made inductive: a worker goes on from what it may trust and
\* has seen, and what waits to be shown is honest, too.
CheckIsHonest(c) ==
    /\ c.listed \subseteq Published
    /\ \A i \in DOMAIN c.steps :
          c.steps[i].registered =>
             Matches(Published, c.steps[i].host, c.steps[i].addresses)
    /\ c.pc = "walk" =>
          /\ c.misled = {} /\ c.through # "none" => c.seen
          /\ c.seen => c.operator # "detected"
    /\ c.pc = "ask" => c.result \in Results /\ Honest(c.result)
    /\ c.result # NoResult => Honest(c.result)

TariffInv ==
    /\ check \in Checks /\ tunnel \in {"none", "warp", "vpn"}
    /\ CheckIsHonest(check) /\ VerdictIsHonest
    /\ inbox # <<>> /\ inbox[1] # NoResult => Honest(inbox[1])

\* TariffTypeOK, made inductive: a worker that has emitted is done, and every
\* result has a hop.
Conclusive(result) == result # NoResult => result \in Results /\ result.steps # <<>>
TariffFits ==
    /\ TariffTypeOK
    /\ Conclusive(check.result) /\ (check.pc = "ask" => check.result.steps # <<>>)
    /\ inbox # <<>> => check.pc = "none" /\ Conclusive(inbox[1])
===============================================================================
