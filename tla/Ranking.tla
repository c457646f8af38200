--------------------------------- MODULE Ranking ---------------------------------
(***************************************************************************)
(* The race between DNS servers (connectivity_service, apply_best_dns):    *)
(* every candidate is asked for some domains, the answers are summarised   *)
(* in the order in which the measurements end, and the finalists chosen.   *)
(* A server's answers are a free choice of the network.                    *)
(***************************************************************************)
EXTENDS Integers, Sequences, FiniteSets, Sorting

CONSTANTS Servers,    \* the DNS profiles
          Global,     \* those whose region is not Iran
          Unblocking, \* those whose purpose is anti_sanction
          Domains,    \* how many domains are asked for
          Rounds,     \* how often
          Paces,      \* what a server that answers may be like
          Limit       \* of the finalists, two at least

VARIABLE race

rankVars == <<race>>

Goals == {"balanced", "speed", "anti_sanction"}
Preferences == {"balanced", "fastest", "stable"}

\* How many of the questions for each domain a server answered: the domains
\* are alike, so the one with the most answers comes first.
Tallies == {tally \in [1..Domains -> 0..Rounds] :
               \A i \in 1..(Domains - 1) : tally[i] >= tally[i + 1]}

Quiet == [phase |-> "none", goal |-> "balanced", pending |-> {}, rows |-> <<>>, finalists |-> <<>>]

Summaries == [server : Servers, success : 0..1000, coverage : 0..Domains, score : 0..100,
              median : Nat, jitter : Nat, backup : BOOLEAN]

RankTypeOK ==
    /\ race \in [phase : {"none", "measure", "ranked"}, goal : Goals,
                 pending : SUBSET Servers, rows : Seq(Summaries), finalists : Seq(Summaries)]
    /\ \A i \in DOMAIN race.rows : race.rows[i].server \notin race.pending
    /\ Len(race.finalists) <= Cardinality(Servers)

RankInit == race = Quiet

-------------------------------------------------------------------------------
(* The measurement of one server *)

Within(low, value, high) == IF value < low THEN low ELSE IF value > high THEN high ELSE value

\* _summarize_samples: per mille of the questions that were answered
Questions == (1..Domains) \X (1..Rounds)
SuccessRate(tally) ==
    (1000 * Cardinality({q \in Questions : q[2] <= tally[q[1]]})) \div (Domains * Rounds)

\* calculate_dns_score in two-hundredths of a point, and rounded half to even
Score(success, pace) ==
    LET latency == Within(0, 6600 - 33 * pace.median, 6000)
        stability == Within(0, 4000 - 88 * pace.jitter, 4000)
        total == Within(0, 10 * success + latency + stability
                           - (IF pace.backup THEN 0 ELSE 1400), 20000)
        up == (total + 100) \div 200
    IN  IF success = 0 THEN 0
        ELSE IF total + 100 = 200 * up /\ up % 2 = 1 THEN up - 1 ELSE up

\* benchmark_dns_profile
Row(server, tally, pace) ==
    [server |-> server, success |-> SuccessRate(tally),
     coverage |-> Cardinality({i \in 1..Domains : tally[i] > 0}),
     score |-> Score(SuccessRate(tally), pace),
     median |-> pace.median, jitter |-> pace.jitter, backup |-> pace.backup]

-------------------------------------------------------------------------------
(* The choice *)

Lower(a, b) == \E i \in DOMAIN a : a[i] < b[i] /\ \A j \in 1..(i - 1) : a[j] = b[j]

\* sorted is stable: rows with the same key stay in the order of their arrival.
SortedBy(rows, I, keys) ==
    LET ahead == [i \in I |-> {j \in I : \/ Lower(keys[j], keys[i])
                                         \/ keys[j] = keys[i] /\ j < i}]
        order == InOrder(I, ahead)
    IN  [n \in DOMAIN order |-> rows[order[n]]]

\* Which of the rows are fit to be chosen
Healthy(rows) == {i \in DOMAIN rows : rows[i].score > 0}
\* Mutant: every server that answered at all is as good
ReliableAll(rows) == Healthy(rows)

Reliable(rows) ==
    LET steady == {i \in Healthy(rows) : rows[i].success >= 700}
    IN  IF steady # {} THEN steady ELSE Healthy(rows)

\* rank_dns_profiles
Key(preference, r) ==
    CASE preference = "fastest" -> <<r.median, r.jitter, -r.success>>
      [] preference = "stable" -> <<-r.success, r.jitter, r.median>>
      [] OTHER -> <<-r.score, -r.success, r.median>>
Ranked(rows, preference) ==
    SortedBy(rows, Reliable(rows), [i \in DOMAIN rows |-> Key(preference, rows[i])])

IsGlobal(r) == r.server \in Global

\* rank_hybrid_dns_profiles: a second sort, and the best server of the other
\* region in the last place if it has none.
HybridKey(r) == <<-r.coverage, -r.success, -r.score, r.median>>
Hybrid(ranked) ==
    LET rows == SortedBy(ranked, DOMAIN ranked, [i \in DOMAIN ranked |-> HybridKey(ranked[i])])
        others == {i \in DOMAIN rows : IsGlobal(rows[i]) # IsGlobal(rows[1])}
        opposite == CHOOSE i \in others : \A j \in others : i <= j
    IN  IF Len(rows) <= Limit THEN rows
        ELSE IF others = {} \/ opposite <= Limit THEN SubSeq(rows, 1, Limit)
        ELSE Append(SubSeq(rows, 1, Limit - 1), rows[opposite])

-------------------------------------------------------------------------------
\* profiles_for_goal
Offered(goal) == CASE goal = "speed" -> Global
                   [] goal = "anti_sanction" -> Unblocking
                   [] OTHER -> Servers

Start(goal) ==
    /\ race.phase \in {"none", "ranked"}
    /\ race' = [Quiet EXCEPT !.phase = "measure", !.goal = goal, !.pending = Offered(goal)]

\* as_completed: the result of a server that is done is appended; a measurement
\* that raises is left out.
Answers(server, tally, pace) ==
    /\ race.phase = "measure" /\ server \in race.pending
    /\ race' = [race EXCEPT !.pending = @ \ {server},
                            !.rows = Append(@, Row(server, tally, pace))]
Raises(server) ==
    /\ race.phase = "measure" /\ server \in race.pending
    /\ race' = [race EXCEPT !.pending = @ \ {server}]

\* apply_best_dns, start_app_access: the best are tried in this order.
Choose(preference) ==
    /\ race.phase = "measure" /\ race.pending = {}
    /\ race' = [race EXCEPT !.phase = "ranked",
                   !.finalists = IF race.goal = "balanced"
                                 THEN Hybrid(Ranked(race.rows, preference))
                                 ELSE Ranked(race.rows, preference)]

RankNext ==
    \/ \E goal \in Goals : Start(goal)
    \/ \E server \in Servers :
         \/ Raises(server)
         \/ \E tally \in Tallies, pace \in Paces : Answers(server, tally, pace)
    \/ \E preference \in Preferences : Choose(preference)

RankSpec == RankInit /\ [][RankNext]_rankVars

-------------------------------------------------------------------------------
\* "Rank reliability before speed" (connectivity_service.py:363) and "together
\* while preserving route diversity" (:407), for every order in which the
\* measurements end: only servers that answered are chosen, none that lost more
\* than three of ten answers while another did not; none is first that another
\* one beats in every respect; with both regions in the race both are among the
\* finalists; and whoever reached more domains is passed over only for the one
\* finalist that represents its region.
WellChosen(finalists, measured, goal) ==
    LET chosen == {finalists[i] : i \in DOMAIN finalists}
        rows == {measured[i] : i \in DOMAIN measured}
        steady == {r \in rows : r.success >= 700 /\ r.score > 0}
        fit == IF steady # {} THEN steady ELSE {r \in rows : r.score > 0}
        first == finalists[1]
    IN  /\ chosen \subseteq fit /\ Len(finalists) = Cardinality(chosen)
        /\ fit # {} => chosen # {}
        /\ \A r \in fit : ~(/\ r.success > first.success /\ r.coverage >= first.coverage
                            /\ r.median < first.median /\ r.jitter < first.jitter
                            /\ (first.backup => r.backup))
        /\ IF goal # "balanced" THEN chosen = fit
           ELSE /\ \A r \in fit : \E f \in chosen : IsGlobal(f) = IsGlobal(r)
                /\ \A r \in fit \ chosen, f \in chosen : r.coverage > f.coverage =>
                      \A g \in chosen \ {f} : IsGlobal(g) # IsGlobal(f)

RankingIsSound ==
    race.phase = "ranked" => WellChosen(race.finalists, race.rows, race.goal)

\* The invariant behind it: a server answers once, and its score is that of what
\* is known of it.
RankInv ==
    /\ RankTypeOK
    /\ \A i, j \in DOMAIN race.rows : i # j => race.rows[i].server # race.rows[j].server
    /\ \A i \in DOMAIN race.rows : race.rows[i].score = Score(race.rows[i].success, race.rows[i])
    /\ RankingIsSound
===============================================================================
