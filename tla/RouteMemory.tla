------------------------------ MODULE RouteMemory ------------------------------
(***************************************************************************)
(* RouteDNA's memory (route_dna_service): what the routes of a network     *)
(* were like before, and the hint that it gives to the ranking of the DNS  *)
(* profiles that were just measured.  A measurement stands for one target  *)
(* and one purpose, which separate the rows of the file further.           *)
(***************************************************************************)
EXTENDS Naturals, Sequences, SequencesExt, FiniteSets, Sorting

CONSTANTS Networks,   \* fingerprints of networks
          Groups,     \* operator and region of each, a function on Networks
          NoGroup,    \* the group of a network whose operator is unknown
          Routes,
          Kept,       \* rows that the file keeps, 360 in the code
          Recent,     \* rows that a prior looks at, 12
          Cap,        \* the largest bonus, 4 points
          Coverages, Scores  \* of a measurement

VARIABLES history,    \* route_dna_history.json, oldest first
          measured,   \* a ranking of live measurements
          ranking,    \* what personalize_ranked_dns makes of it
          network     \* on which network

memoryVars == <<history, measured, ranking, network>>

\* Rows of the last days count double; after a month they are forgotten.
Ages == {"young", "old"}
Events == [network : Networks, group : {Groups[n] : n \in Networks},
           route : Routes, ok : BOOLEAN, age : Ages]
Measurements == [route : Routes, coverage : Coverages, score : Scores]

MemoryTypeOK ==
    /\ history \in Seq(Events) /\ Len(history) <= Kept
    /\ measured \in Seq(Measurements) /\ ranking \in Seq(Measurements)
    /\ network \in Networks

MemoryInit ==
    /\ history = <<>> /\ measured = <<>> /\ ranking = <<>>
    /\ network \in Networks

Newer(rows, n) == SubSeq(rows, IF Len(rows) <= n THEN 1 ELSE Len(rows) - n + 1, Len(rows))

\* record
Observe(n, route, ok) ==
    /\ history' = Newer(Append(history, [network |-> n, group |-> Groups[n],
                                         route |-> route, ok |-> ok,
                                         age |-> "young"]), Kept)
    /\ measured' = <<>> /\ ranking' = <<>>
    /\ UNCHANGED network

\* load_history, some weeks later: of the rows, which are in the order in which
\* they were recorded, those of the last weeks are left.
TimePasses ==
    /\ history # <<>>
    /\ LET kept == Newer(history, Cardinality({i \in DOMAIN history : history[i].age = "young"}))
       IN  history' = [i \in DOMAIN kept |-> [kept[i] EXCEPT !.age = "old"]]
    /\ measured' = <<>> /\ ranking' = <<>>
    /\ UNCHANGED network

\* prior: the network's own rows, or those of its group when it has none.
Matches(n, route) ==
    LET own == {i \in DOMAIN history : history[i].network = n /\ history[i].route = route}
        like == {i \in DOMAIN history : history[i].group = Groups[n] /\ history[i].route = route}
    IN  IF own # {} \/ Groups[n] = NoGroup THEN own ELSE like

Latest(S, n) == {i \in S : Cardinality({j \in S : j > i}) < n}

Weight(S) == 2 * Cardinality({i \in S : history[i].age = "young"})
               + Cardinality({i \in S : history[i].age = "old"})

Prior(n, route) ==
    LET rows == Latest(Matches(n, route), Recent)
        good == Weight({i \in rows : history[i].ok})
    IN  [samples |-> Cardinality(rows),
         trusted |-> rows # {} /\ 100 * good >= 70 * Weight(rows)]

Bonus(n, route) ==
    LET memory == Prior(n, route)
    IN  IF ~memory.trusted THEN 0
        ELSE IF memory.samples < Cap THEN memory.samples ELSE Cap

\* personalize_ranked_dns: coverage, then score with bonus, then the order found
Before(bonus, a, b) ==
    \/ a.coverage > b.coverage
    \/ /\ a.coverage = b.coverage
       /\ a.score + bonus[a.route] > b.score + bonus[b.route]

Personalize(n, rows) ==
    LET bonus == [r \in Routes |-> Bonus(n, r)]
        ahead == [i \in DOMAIN rows |-> {j \in DOMAIN rows :
                    \/ Before(bonus, rows[j], rows[i])
                    \/ j < i /\ ~Before(bonus, rows[i], rows[j])}]
        order == InOrder(DOMAIN rows, ahead)
    IN  [k \in DOMAIN order |-> rows[order[k]]]

Choose(n, rows) ==
    /\ measured = <<>>
    /\ network' = n
    /\ measured' = rows
    /\ ranking' = Personalize(n, rows)
    /\ UNCHANGED history

\* One measurement for each route, in any order
LiveRankings ==
    {[i \in 1..Cardinality(Routes) |->
         [route |-> order[i], coverage |-> coverage[i], score |-> score[i]]] :
       order \in SetToSeqs(Routes),
       coverage \in [1..Cardinality(Routes) -> Coverages],
       score \in [1..Cardinality(Routes) -> Scores]}

MemoryNext ==
    \/ \E n \in Networks, r \in Routes, ok \in BOOLEAN : Observe(n, r, ok)
    \/ TimePasses
    \/ \E n \in Networks, rows \in LiveRankings : Choose(n, rows)

MemorySpec == MemoryInit /\ [][MemoryNext]_memoryVars

-------------------------------------------------------------------------------
\* "Use memory only as a tie-breaker; live endpoint coverage remains dominant"
\* (route_dna_service.py:405): a route stands before one that was measured
\* better only with the same coverage, by no more than the cap, and because the
\* memory of this network (or, without any, of its group) speaks for it.
MemoryOnlyBreaksTies ==
    /\ ToSet(ranking) = ToSet(measured) /\ Len(ranking) = Len(measured)
    /\ \A i, j \in DOMAIN ranking :
         LET a == ranking[i]
             b == ranking[j]
             known == \E e \in ToSet(history) :
                         /\ e.route = a.route /\ e.ok
                         /\ e.network = network
                            \/ /\ e.group = Groups[network] /\ e.group # NoGroup
                               /\ ~\E f \in ToSet(history) :
                                     f.network = network /\ f.route = a.route
         IN  i < j => /\ a.coverage >= b.coverage
                      /\ a.coverage = b.coverage /\ a.score < b.score
                           => a.score + Cap >= b.score /\ known

\* The invariant behind it
MemoryInv == MemoryTypeOK /\ MemoryOnlyBreaksTies
===============================================================================
