----------------------------- MODULE RecordsProofs -----------------------------
(***************************************************************************)
(* Proofs about the ranking of the DNS servers (Ranking) and the memory of *)
(* the routes (RouteMemory), as parts of Desktop, about Python's sorted    *)
(* (Sorting), on which both rankings rest, and about the types of the      *)
(* tariff check (Tariff), which selects with it, and so of all parts.  v1, *)
(* v2, ... are the variables of the part, in the order in which Desktop's  *)
(* INSTANCE gives them.                                                    *)
(***************************************************************************)
EXTENDS UpdatesProofs, GameProofs

-------------------------------------------------------------------------------
(***************************************************************************)
(* Sorting                                                                 *)
(***************************************************************************)
StrictOrder(I, ahead) ==
    /\ \A i \in I : ahead[i] \subseteq I /\ i \notin ahead[i]
    /\ \A i, j \in I : i = j \/ i \in ahead[j] \/ j \in ahead[i]
    /\ \A i, j, k \in I : i \in ahead[j] /\ j \in ahead[k] => i \in ahead[k]

Sorted(I, ahead) ==
    [n \in 1..Cardinality(I) |->
       CHOOSE i \in I : Cardinality(ahead[i]) = n - 1]

\* One index comes after each number of others.
LEMMA PlacesDiffer ==
  ASSUME NEW I, IsFiniteSet(I), NEW ahead, StrictOrder(I, ahead),
         NEW i \in I, NEW j \in I, i \in ahead[j]
  PROVE  Cardinality(ahead[i]) < Cardinality(ahead[j])
<1> DEFINE A == ahead[i]
           B == ahead[j]
<1>1. A \subseteq B /\ i \in B /\ i \notin A
  BY DEF StrictOrder
<1>2. IsFiniteSet(B)
  <2>1. B \in SUBSET I
    BY DEF StrictOrder
  <2> HIDE DEF B
  <2> QED
    BY <2>1, FS_Subset
<1>3. IsFiniteSet(A) /\ Cardinality(A) <= Cardinality(B) /\ Cardinality(A) # Cardinality(B)
  <2> HIDE DEF A, B
  <2> QED
    BY <1>1, <1>2, FS_Subset
<1>4. Cardinality(A) \in Nat /\ Cardinality(B) \in Nat
  BY <1>2, <1>3, FS_CardinalityType
<1> QED
  BY <1>3, <1>4

LEMMA PlacesExist ==
  ASSUME NEW I, IsFiniteSet(I), NEW ahead, StrictOrder(I, ahead),
         NEW n \in 1..Cardinality(I)
  PROVE  \E i \in I : Cardinality(ahead[i]) = n - 1
<1> DEFINE place == [i \in I |-> Cardinality(ahead[i])]
           N == Cardinality(I)
<1>1. N \in Nat
  BY FS_CardinalityType
<1>2. ASSUME NEW i \in I PROVE place[i] \in 0..(N - 1)
  <2> DEFINE A == ahead[i]
  <2>1. A \subseteq I /\ i \in I /\ i \notin A
    BY <1>2 DEF StrictOrder
  <2>2. IsFiniteSet(A) /\ Cardinality(A) <= N /\ Cardinality(A) # N
    <3> HIDE DEF A
    <3> QED
      BY <2>1, FS_Subset
  <2>3. Cardinality(A) \in Nat
    BY <2>2, FS_CardinalityType
  <2>4. place[i] = Cardinality(A)
    BY <1>2
  <2> HIDE DEF A, place, N
  <2> QED
    BY <1>1, <2>2, <2>3, <2>4
<1>3. \A i, j \in I : i # j => place[i] # place[j]
  <2> SUFFICES ASSUME NEW i \in I, NEW j \in I, i # j, place[i] = place[j]
               PROVE  FALSE
    OBVIOUS
  <2>1. place[i] \in Int /\ place[j] \in Int
    BY <1>2
  <2>2. i \in ahead[j] \/ j \in ahead[i]
    BY DEF StrictOrder
  <2>3. place[i] < place[j] \/ place[j] < place[i]
    BY <2>2, PlacesDiffer
  <2> HIDE DEF place
  <2> QED
    BY <2>1, <2>3
<1>4. place \in Injection(I, 0..(N - 1))
  <2>1. place \in [I -> 0..(N - 1)]
    BY <1>2
  <2> HIDE DEF place, N
  <2> QED
    BY <1>3, <2>1 DEF Injection, IsInjective
<1>5. IsFiniteSet(0..(N - 1)) /\ Cardinality(0..(N - 1)) = N
  <2> HIDE DEF N
  <2>1. 0 \in Int /\ N - 1 \in Int
    BY <1>1
  <2>2. /\ IsFiniteSet(0..(N - 1))
        /\ Cardinality(0..(N - 1)) = IF 0 > N - 1 THEN 0 ELSE (N - 1) - 0 + 1
    BY <2>1, FS_Interval
  <2> QED
    BY <1>1, <2>2
<1>6. place \in Surjection(I, 0..(N - 1))
  <2> HIDE DEF place
  <2> QED
    BY <1>4, <1>5, FS_Injection
<1>7. \E i \in I : place[i] = n - 1
  <2>1. n - 1 \in 0..(N - 1)
    BY <1>1
  <2> HIDE DEF place, N
  <2> QED
    BY <1>6, <2>1 DEF Surjection
<1> QED
  BY <1>7

LEMMA Sorts ==
  ASSUME NEW I, IsFiniteSet(I), NEW ahead, StrictOrder(I, ahead)
  PROVE  /\ Cardinality(I) \in Nat
         /\ Sorted(I, ahead) \in [1..Cardinality(I) -> I]
         /\ \A i \in I : \E n \in 1..Cardinality(I) : Sorted(I, ahead)[n] = i
         /\ \A m, n \in 1..Cardinality(I) :
              m < n => Sorted(I, ahead)[m] \in ahead[Sorted(I, ahead)[n]]
<1> DEFINE s == Sorted(I, ahead)
           N == Cardinality(I)
           P(i) == Cardinality(ahead[i])
<1>1. N \in Nat
  BY FS_CardinalityType
<1>2. ASSUME NEW n \in 1..N PROVE s[n] \in I /\ P(s[n]) = n - 1
  <2>1. \E i \in I : P(i) = n - 1
    BY PlacesExist, <1>2
  <2>2. s[n] = CHOOSE i \in I : P(i) = n - 1
    BY <1>2 DEF Sorted
  <2> HIDE DEF P, s
  <2> QED
    BY <2>1, <2>2
<1>3. s \in [1..N -> I]
  <2>1. s = [n \in 1..N |-> s[n]]
    BY DEF Sorted
  <2> HIDE DEF s
  <2> QED
    BY <1>2, <2>1
<1>4. ASSUME NEW i \in I, NEW j \in I, i \in ahead[j] PROVE P(i) < P(j)
  BY <1>4, PlacesDiffer
<1>5. ASSUME NEW i \in I PROVE P(i) \in 0..(N - 1)
  <2> DEFINE A == ahead[i]
  <2>1. A \subseteq I /\ i \in I /\ i \notin A
    BY <1>5 DEF StrictOrder
  <2>2. IsFiniteSet(A) /\ Cardinality(A) <= N /\ Cardinality(A) # N
    <3> HIDE DEF A
    <3> QED
      BY <2>1, FS_Subset
  <2>3. Cardinality(A) \in Nat
    BY <2>2, FS_CardinalityType
  <2> HIDE DEF N
  <2> QED
    BY <1>1, <2>2, <2>3
<1> HIDE DEF s, P, N
<1>6. ASSUME NEW i \in I PROVE \E n \in 1..N : s[n] = i
  <2>1. P(i) + 1 \in 1..N /\ P(i) \in Int
    BY <1>1, <1>5, <1>6
  <2>2. s[P(i) + 1] \in I /\ P(s[P(i) + 1]) = P(i)
    BY <1>2, <2>1
  <2>3. s[P(i) + 1] = i
    BY <1>4, <1>6, <2>1, <2>2 DEF StrictOrder
  <2> QED
    BY <2>1, <2>3
<1>7. ASSUME NEW m \in 1..N, NEW n \in 1..N, m < n PROVE s[m] \in ahead[s[n]]
  <2>1. s[m] \in I /\ s[n] \in I /\ P(s[m]) = m - 1 /\ P(s[n]) = n - 1
    BY <1>2, <1>7
  <2>2. s[m] # s[n] /\ ~(P(s[n]) < P(s[m]))
    BY <1>1, <1>7, <2>1
  <2> QED
    BY <1>4, <2>1, <2>2 DEF StrictOrder
<1> QED
  BY <1>1, <1>3, <1>6, <1>7 DEF s, N

-------------------------------------------------------------------------------
(***************************************************************************)
(* Ranking: v1 is race                                                     *)
(***************************************************************************)
Three == Int \X Int \X Int
Four == Int \X Int \X Int \X Int

LEMMA LowerThree ==
  ASSUME NEW a \in Three, NEW b \in Three
  PROVE  /\ a = b <=> a[1] = b[1] /\ a[2] = b[2] /\ a[3] = b[3]
         /\ Rank!Lower(a, b) <=> \/ a[1] < b[1]
                                 \/ a[1] = b[1] /\ a[2] < b[2]
                                 \/ a[1] = b[1] /\ a[2] = b[2] /\ a[3] < b[3]
<1>1. PICK x1 \in Int, x2 \in Int, x3 \in Int : a = <<x1, x2, x3>>
  BY DEF Three
<1>2. PICK y1 \in Int, y2 \in Int, y3 \in Int : b = <<y1, y2, y3>>
  BY DEF Three
<1>3. a = b <=> x1 = y1 /\ x2 = y2 /\ x3 = y3
  BY <1>1, <1>2
<1>4. Rank!Lower(a, b) <=> \E i \in {1, 2, 3} : a[i] < b[i] /\ \A j \in 1..(i - 1) : a[j] = b[j]
  <2>1. DOMAIN a = {1, 2, 3}
    BY <1>1
  <2> QED
    BY <2>1 DEF Rank!Lower
<1>5. Rank!Lower(a, b) <=> \/ x1 < y1
                           \/ x1 = y1 /\ x2 < y2
                           \/ x1 = y1 /\ x2 = y2 /\ x3 < y3
  BY <1>1, <1>2, <1>4
<1> QED
  BY <1>1, <1>2, <1>3, <1>5

LEMMA LowerFour ==
  ASSUME NEW a \in Four, NEW b \in Four
  PROVE  /\ a = b <=> a[1] = b[1] /\ a[2] = b[2] /\ a[3] = b[3] /\ a[4] = b[4]
         /\ Rank!Lower(a, b) <=> \/ a[1] < b[1]
                                 \/ a[1] = b[1] /\ a[2] < b[2]
                                 \/ a[1] = b[1] /\ a[2] = b[2] /\ a[3] < b[3]
                                 \/ a[1] = b[1] /\ a[2] = b[2] /\ a[3] = b[3] /\ a[4] < b[4]
<1>1. PICK x1 \in Int, x2 \in Int, x3 \in Int, x4 \in Int : a = <<x1, x2, x3, x4>>
  BY DEF Four
<1>2. PICK y1 \in Int, y2 \in Int, y3 \in Int, y4 \in Int : b = <<y1, y2, y3, y4>>
  BY DEF Four
<1>3. a = b <=> x1 = y1 /\ x2 = y2 /\ x3 = y3 /\ x4 = y4
  BY <1>1, <1>2
<1>4. Rank!Lower(a, b) <=>
        \E i \in {1, 2, 3, 4} : a[i] < b[i] /\ \A j \in 1..(i - 1) : a[j] = b[j]
  <2>1. DOMAIN a = {1, 2, 3, 4}
    BY <1>1
  <2> QED
    BY <2>1 DEF Rank!Lower
<1>5. Rank!Lower(a, b) <=> \/ x1 < y1
                           \/ x1 = y1 /\ x2 < y2
                           \/ x1 = y1 /\ x2 = y2 /\ x3 < y3
                           \/ x1 = y1 /\ x2 = y2 /\ x3 = y3 /\ x4 < y4
  BY <1>1, <1>2, <1>4
<1> QED
  BY <1>1, <1>2, <1>3, <1>5

\* Lower orders the keys.
LEMMA LowerOrders ==
  ASSUME NEW K, K = Three \/ K = Four
  PROVE  /\ \A a \in K : ~Rank!Lower(a, a)
         /\ \A a, b \in K : a = b \/ Rank!Lower(a, b) \/ Rank!Lower(b, a)
         /\ \A a, b, c \in K : Rank!Lower(a, b) /\ Rank!Lower(b, c) => Rank!Lower(a, c)
<1>1. ASSUME NEW a \in Three PROVE a[1] \in Int /\ a[2] \in Int /\ a[3] \in Int
  BY <1>1 DEF Three
<1>2. ASSUME NEW a \in Four PROVE a[1] \in Int /\ a[2] \in Int /\ a[3] \in Int /\ a[4] \in Int
  BY <1>2 DEF Four
<1>3. CASE K = Three
  <2>1. \A a \in K : ~Rank!Lower(a, a)
    BY <1>1, <1>3, LowerThree
  <2>2. \A a, b \in K : a = b \/ Rank!Lower(a, b) \/ Rank!Lower(b, a)
    BY <1>1, <1>3, LowerThree
  <2>3. \A a, b, c \in K : Rank!Lower(a, b) /\ Rank!Lower(b, c) => Rank!Lower(a, c)
    <3> SUFFICES ASSUME NEW a \in Three, NEW b \in Three, NEW c \in Three,
                        Rank!Lower(a, b), Rank!Lower(b, c)
                 PROVE  Rank!Lower(a, c)
      BY <1>3
    <3>1. /\ a[1] \in Int /\ a[2] \in Int /\ a[3] \in Int
          /\ b[1] \in Int /\ b[2] \in Int /\ b[3] \in Int
          /\ c[1] \in Int /\ c[2] \in Int /\ c[3] \in Int
      BY <1>1
    <3> QED
      BY <3>1, LowerThree
  <2> QED
    BY <2>1, <2>2, <2>3
<1>4. CASE K = Four
  <2>1. \A a \in K : ~Rank!Lower(a, a)
    BY <1>2, <1>4, LowerFour
  <2>2. \A a, b \in K : a = b \/ Rank!Lower(a, b) \/ Rank!Lower(b, a)
    BY <1>2, <1>4, LowerFour
  <2>3. \A a, b, c \in K : Rank!Lower(a, b) /\ Rank!Lower(b, c) => Rank!Lower(a, c)
    <3> SUFFICES ASSUME NEW a \in Four, NEW b \in Four, NEW c \in Four,
                        Rank!Lower(a, b), Rank!Lower(b, c)
                 PROVE  Rank!Lower(a, c)
      BY <1>4
    <3>1. /\ a[1] \in Int /\ a[2] \in Int /\ a[3] \in Int /\ a[4] \in Int
          /\ b[1] \in Int /\ b[2] \in Int /\ b[3] \in Int /\ b[4] \in Int
          /\ c[1] \in Int /\ c[2] \in Int /\ c[3] \in Int /\ c[4] \in Int
      BY <1>2
    <3> QED
      BY <3>1, LowerFour
  <2> QED
    BY <2>1, <2>2, <2>3
<1> QED
  BY <1>3, <1>4

LEMMA RankSorts ==
  ASSUME NEW I, NEW ahead
  PROVE  Rank!InOrder(I, ahead) = Sorted(I, ahead)
BY DEF Rank!InOrder, Sorted, Rank!Cardinality, Cardinality

\* A sort is a rearrangement in which no row is before one with a lower key.
LEMMA SortedBySorts ==
  ASSUME NEW T, NEW rows \in Seq(T), NEW I \in SUBSET DOMAIN rows, NEW keys,
         NEW K, K = Three \/ K = Four, \A i \in I : keys[i] \in K
  PROVE  LET s == Rank!SortedBy(rows, I, keys)
         IN  \E order \in [1..Cardinality(I) -> I] :
               /\ Cardinality(I) \in Nat
               /\ s \in Seq(T) /\ Len(s) = Cardinality(I)
               /\ \A n \in 1..Len(s) : s[n] = rows[order[n]]
               /\ \A i \in I : \E n \in 1..Len(s) : order[n] = i
               /\ \A m, n \in 1..Len(s) :
                    m < n => order[m] # order[n] /\ ~Rank!Lower(keys[order[n]], keys[order[m]])
<1> DEFINE ahead == [i \in I |-> {j \in I : \/ Rank!Lower(keys[j], keys[i])
                                            \/ keys[j] = keys[i] /\ j < i}]
           N == Cardinality(I)
           order == Sorted(I, ahead)
           s == Rank!SortedBy(rows, I, keys)
<1>1. IsFiniteSet(I) /\ I \subseteq Nat
  <2>1. DOMAIN rows = 1..Len(rows) /\ Len(rows) \in Nat
    BY LenProperties
  <2>2. IsFiniteSet(1..Len(rows))
    BY <2>1, FS_Interval
  <2> QED
    BY <2>1, <2>2, FS_Subset
<1>2. StrictOrder(I, ahead)
  <2> DEFINE L(a, b) == Rank!Lower(a, b)
  <2>0. /\ \A a \in K : ~L(a, a)
        /\ \A a, b \in K : a = b \/ L(a, b) \/ L(b, a)
        /\ \A a, b, c \in K : L(a, b) /\ L(b, c) => L(a, c)
    BY LowerOrders
  <2> HIDE DEF L
  <2>1. \A i, j \in I : j \in ahead[i] <=> L(keys[j], keys[i]) \/ (keys[j] = keys[i] /\ j < i)
    BY DEF L
  <2>2. \A i \in I : ahead[i] \subseteq I
    OBVIOUS
  <2> HIDE DEF ahead
  <2>3. \A i \in I : i \notin ahead[i]
    BY <1>1, <2>0, <2>1
  <2>4. \A i, j \in I : i = j \/ i \in ahead[j] \/ j \in ahead[i]
    BY <1>1, <2>0, <2>1
  <2>5. \A i, j, k \in I : i \in ahead[j] /\ j \in ahead[k] => i \in ahead[k]
    BY <1>1, <2>0, <2>1
  <2> QED
    BY <2>2, <2>3, <2>4, <2>5 DEF StrictOrder
<1>3. /\ N \in Nat
      /\ order \in [1..N -> I]
      /\ \A i \in I : \E n \in 1..N : order[n] = i
      /\ \A m, n \in 1..N : m < n => order[m] \in ahead[order[n]]
  <2> HIDE DEF ahead
  <2> QED
    BY <1>1, <1>2, Sorts
<1>4. s = [n \in 1..N |-> rows[order[n]]]
  <2>1. DOMAIN order = 1..N
    BY DEF Sorted
  <2>2. s = [n \in DOMAIN order |-> rows[order[n]]]
    <3>1. s = [n \in DOMAIN Rank!InOrder(I, ahead) |-> rows[Rank!InOrder(I, ahead)[n]]]
      BY DEF Rank!SortedBy
    <3> HIDE DEF s, ahead
    <3> QED
      BY <3>1, RankSorts
  <2> QED
    BY <2>1, <2>2
<1>5. \A i, j \in I : j \in ahead[i] => i # j /\ ~Rank!Lower(keys[i], keys[j])
  <2>1. \A i, j \in I : j \in ahead[i] => \/ Rank!Lower(keys[j], keys[i])
                                          \/ keys[j] = keys[i] /\ j < i
    OBVIOUS
  <2>2. \A i \in I : i \notin ahead[i]
    BY <1>2 DEF StrictOrder
  <2> HIDE DEF ahead
  <2> QED
    BY <2>1, <2>2, LowerOrders
<1> HIDE DEF order, ahead, s, N
<1>6. s \in Seq(T) /\ Len(s) = N
  <2>1. \A n \in 1..N : rows[order[n]] \in T
    BY <1>3, ElementOfSeq
  <2>2. s \in [1..N -> T]
    BY <1>4, <2>1
  <2> QED
    BY <1>3, <2>2
<1>7. \A n \in 1..N : s[n] = rows[order[n]]
  BY <1>4
<1>8. \A m, n \in 1..N :
        m < n => order[m] # order[n] /\ ~Rank!Lower(keys[order[n]], keys[order[m]])
  BY <1>3, <1>5
<1>9. /\ N \in Nat /\ s \in Seq(T) /\ Len(s) = N
      /\ \A n \in 1..Len(s) : s[n] = rows[order[n]]
      /\ \A i \in I : \E n \in 1..Len(s) : order[n] = i
      /\ \A m, n \in 1..Len(s) :
           m < n => order[m] # order[n] /\ ~Rank!Lower(keys[order[n]], keys[order[m]])
  BY <1>3, <1>6, <1>7, <1>8
<1>10. order \in [1..N -> I]
  BY <1>3
<1> QED
  BY <1>9, <1>10 DEF N, s

\* The provers use a lemma in which these are numerals with difficulty.
Points == 100
PerMille == 1000
Top == 20000

\* The score before it is rounded
Total(success, pace) ==
    LET latency == Rank!Within(0, 6600 - 33 * pace.median, 6000)
        stability == Rank!Within(0, 4000 - 88 * pace.jitter, 4000)
    IN  Rank!Within(0, 10 * success + latency + stability
                         - (IF pace.backup THEN 0 ELSE 1400), 20000)
Half(total) ==
    LET up == (total + 100) \div 200
    IN  IF total + 100 = 200 * up /\ up % 2 = 1 THEN up - 1 ELSE up

LEMMA HalfBounds ==
  ASSUME NEW s \in 0..Top, NEW t \in 0..Top, s <= t
  PROVE  Half(s) \in 0..Points /\ Half(s) <= Half(t)
<1>0. s \in Int /\ t \in Int /\ 0 <= s /\ s <= 20000 /\ s <= t
  <2>1. Top = 20000
    BY DEF Top
  <2> QED
    BY ONLY s \in 0..Top, t \in 0..Top, s <= t, <2>1
<1> DEFINE u == (s + 100) \div 200
           v == (t + 100) \div 200
<1>1. u \in Int /\ 200 * u <= s + 100 /\ s + 100 < 200 * u + 200
  BY <1>0
<1>2. v \in Int /\ 200 * v <= t + 100 /\ t + 100 < 200 * v + 200
  BY <1>0
<1>3. /\ Half(s) = IF s + 100 = 200 * u /\ u % 2 = 1 THEN u - 1 ELSE u
      /\ Half(t) = IF t + 100 = 200 * v /\ v % 2 = 1 THEN v - 1 ELSE v
  BY DEF Half
<1> HIDE DEF u, v
<1>4. 0 <= u /\ u <= 100 /\ u <= v
  <2>2. 0 <= u
    BY <1>0, <1>1
  <2>3. u <= 100
    BY <1>0, <1>1
  <2>4. u <= v
    BY <1>0, <1>1, <1>2
  <2> QED
    BY <2>2, <2>3, <2>4
<1>5. u % 2 = 1 => 1 <= u
  <2>1. 0 % 2 = 0
    OBVIOUS
  <2> QED
    BY <1>1, <1>4, <2>1
<1>6. Half(s) \in 0..Points
  BY <1>1, <1>3, <1>4, <1>5 DEF Points
<1>7. Half(s) <= Half(t)
  <2>1. CASE u = v
    BY <1>0, <1>1, <1>2, <1>3, <2>1
  <2>2. CASE u < v
    BY <1>0, <1>1, <1>2, <1>3, <2>2
  <2> QED
    BY <1>1, <1>2, <1>4, <2>1, <2>2
<1> QED
  BY <1>6, <1>7

\* A server that is better in every respect has no lower score.
LEMMA ScoreBounds ==
  ASSUME NEW f \in 0..PerMille, NEW g \in 0..PerMille, f <= g,
         NEW a, a.median \in Nat, a.jitter \in Nat, a.backup \in BOOLEAN,
         NEW b, b.median \in Nat, b.jitter \in Nat, b.backup \in BOOLEAN,
         b.median <= a.median, b.jitter <= a.jitter, a.backup => b.backup
  PROVE  /\ Rank!Score(f, a) \in 0..Points
         /\ Rank!Score(f, a) <= Rank!Score(g, b)
<1> DEFINE pa == 6600 - 33 * a.median
           pb == 6600 - 33 * b.median
           qa == 4000 - 88 * a.jitter
           qb == 4000 - 88 * b.jitter
           la == Rank!Within(0, pa, 6000)
           lb == Rank!Within(0, pb, 6000)
           sa == Rank!Within(0, qa, 4000)
           sb == Rank!Within(0, qb, 4000)
           da == IF a.backup THEN 0 ELSE 1400
           db == IF b.backup THEN 0 ELSE 1400
           xa == 10 * f + la + sa - da
           xb == 10 * g + lb + sb - db
           ta == Rank!Within(0, xa, 20000)
           tb == Rank!Within(0, xb, 20000)
<1>1. /\ pa \in Int /\ pb \in Int /\ pa <= pb
      /\ qa \in Int /\ qb \in Int /\ qa <= qb
  OBVIOUS
<1>2. da \in Int /\ db \in Int /\ db <= da
  OBVIOUS
<1>3. Total(f, a) = ta /\ Total(g, b) = tb
  BY DEF Total
<1>4. /\ Rank!Score(f, a) = IF f = 0 THEN 0 ELSE Half(Total(f, a))
      /\ Rank!Score(g, b) = IF g = 0 THEN 0 ELSE Half(Total(g, b))
  BY DEF Rank!Score, Half, Total
<1> HIDE DEF pa, pb, qa, qb
<1>6. la \in 0..6000 /\ lb \in 0..6000 /\ la <= lb
  BY <1>1 DEF Rank!Within
<1>7. sa \in 0..4000 /\ sb \in 0..4000 /\ sa <= sb
  BY <1>1 DEF Rank!Within
<1> HIDE DEF la, lb, sa, sb, da, db
<1>8. xa \in Int /\ xb \in Int /\ xa <= xb
  BY <1>2, <1>6, <1>7 DEF PerMille
<1> HIDE DEF xa, xb
<1>9. ta \in 0..Top /\ tb \in 0..Top /\ ta <= tb
  <2>1. ta = IF xa < 0 THEN 0 ELSE IF xa > Top THEN Top ELSE xa
    BY DEF Rank!Within, Top
  <2>2. tb = IF xb < 0 THEN 0 ELSE IF xb > Top THEN Top ELSE xb
    BY DEF Rank!Within, Top
  <2>3. Top \in Int /\ 0 <= Top
    BY DEF Top
  <2> HIDE DEF ta, tb
  <2> QED
    BY <1>8, <2>1, <2>2, <2>3
<1> HIDE DEF ta, tb
<1>10. Half(ta) \in 0..Points /\ Half(tb) \in 0..Points /\ Half(ta) <= Half(tb)
  <2>1. tb <= tb
    BY <1>9
  <2> QED
    BY <1>9, <2>1, HalfBounds
<1>11. (g = 0 => f = 0) /\ Points \in Nat
  BY DEF PerMille, Points
<1>12. /\ Rank!Score(f, a) = IF f = 0 THEN 0 ELSE Half(ta)
       /\ Rank!Score(g, b) = IF g = 0 THEN 0 ELSE Half(tb)
  BY <1>3, <1>4
<1> QED
  BY <1>10, <1>11, <1>12

LEMMA RankCounts ==
  ASSUME NEW S
  PROVE  Rank!Cardinality(S) = Cardinality(S)
BY DEF Rank!Cardinality, Cardinality

LEMMA Share ==
  ASSUME NEW n \in Nat \ {0}, NEW c \in 0..n
  PROVE  (1000 * c) \div n \in 0..PerMille
<1> DEFINE x == 1000 * c
           q == x \div n
<1>1. x \in Int /\ 0 <= x /\ x <= 1000 * n /\ n \in Int /\ 0 < n
  OBVIOUS
<1> HIDE DEF x
<1>2. q \in Int /\ n * q <= x /\ x < n * q + n
  BY <1>1
<1> HIDE DEF q
<1>3. 0 <= q
  BY <1>1, <1>2
<1>4. q <= 1000
  BY <1>1, <1>2
<1> QED
  BY <1>2, <1>3, <1>4 DEF x, q, PerMille

LEMMA RateBounds ==
  ASSUME NEW tally
  PROVE  Rank!SuccessRate(tally) \in 0..PerMille
<1> DEFINE A == {q \in Rank!Questions : q[2] <= tally[q[1]]}
           n == Domains * Rounds
<1>1. /\ IsFiniteSet(1..Domains) /\ Cardinality(1..Domains) = Domains
      /\ IsFiniteSet(1..Rounds) /\ Cardinality(1..Rounds) = Rounds
  BY RankAssumption, FS_Interval
<1>2. IsFiniteSet(Rank!Questions) /\ Cardinality(Rank!Questions) = n
  <2> DEFINE D == 1..Domains
             R == 1..Rounds
  <2>1. Rank!Questions = D \X R
    BY DEF Rank!Questions
  <2>2. /\ IsFiniteSet(D) /\ Cardinality(D) = Domains
        /\ IsFiniteSet(R) /\ Cardinality(R) = Rounds
    BY <1>1
  <2> HIDE DEF D, R
  <2>3. IsFiniteSet(D \X R) /\ Cardinality(D \X R) = Cardinality(D) * Cardinality(R)
    BY <2>2, FS_Product
  <2> QED
    BY <2>1, <2>2, <2>3
<1>3. n \in Nat \ {0}
  BY RankAssumption
<1>4. A \in SUBSET Rank!Questions
  OBVIOUS
<1> HIDE DEF n
<1>5. Cardinality(A) \in 0..n
  <2> HIDE DEF A
  <2> QED
    BY <1>2, <1>3, <1>4, FS_Subset, FS_CardinalityType
<1>6. Rank!SuccessRate(tally) = (1000 * Cardinality(A)) \div n
  BY RankCounts DEF Rank!SuccessRate, n
<1> QED
  BY <1>3, <1>5, <1>6, Share

LEMMA RowIsSummary ==
  ASSUME NEW server \in Candidates, NEW tally \in Rank!Tallies, NEW pace \in Paces
  PROVE  LET row == Rank!Row(server, tally, pace)
         IN  /\ row \in Rank!Summaries
             /\ row.server = server
             /\ row.score = Rank!Score(row.success, row)
<1> DEFINE rate == Rank!SuccessRate(tally)
           C == {i \in 1..Domains : tally[i] > 0}
           row == Rank!Row(server, tally, pace)
<1>1. pace.median \in Nat /\ pace.jitter \in Nat /\ pace.backup \in BOOLEAN
  BY RankAssumption
<1>2. rate \in 0..PerMille
  BY RateBounds
<1>3. Rank!Score(rate, pace) \in 0..Points
  <2>1. rate <= rate /\ pace.median <= pace.median /\ pace.jitter <= pace.jitter
    BY <1>1, <1>2 DEF PerMille
  <2> HIDE DEF rate
  <2> QED
    BY <1>1, <1>2, <2>1, ScoreBounds
<1>4. Rank!Cardinality(C) \in 0..Domains
  <2>1. Domains \in Nat \ {0}
    BY RankAssumption
  <2>2. IsFiniteSet(1..Domains) /\ Cardinality(1..Domains) = Domains
    BY <2>1, FS_Interval
  <2>3. C \in SUBSET (1..Domains)
    OBVIOUS
  <2>4. IsFiniteSet(C) /\ Cardinality(C) <= Domains /\ Cardinality(C) \in Nat
    <3> HIDE DEF C
    <3> QED
      BY <2>2, <2>3, FS_Subset, FS_CardinalityType
  <2>5. Rank!Cardinality(C) = Cardinality(C)
    BY RankCounts
  <2> QED
    BY <2>1, <2>4, <2>5
<1>5. row = [server |-> server, success |-> rate, coverage |-> Rank!Cardinality(C),
             score |-> Rank!Score(rate, pace), median |-> pace.median,
             jitter |-> pace.jitter, backup |-> pace.backup]
  BY DEF Rank!Row
<1> HIDE DEF rate, C
<1>6. Rank!Score(rate, row) = Rank!Score(rate, pace)
  <2>1. row.median = pace.median /\ row.jitter = pace.jitter /\ row.backup = pace.backup
    BY <1>5
  <2> HIDE DEF row
  <2> QED
    BY <2>1 DEF Rank!Score
<1> QED
  BY <1>1, <1>2, <1>3, <1>4, <1>5, <1>6 DEF Rank!Summaries, PerMille, Points

Elements(s) == {s[i] : i \in DOMAIN s}
ServersDiffer(s) == \A i, j \in DOMAIN s : i # j => s[i].server # s[j].server

LEMMA Counted ==
  ASSUME NEW T, NEW s \in Seq(T), \A i, j \in DOMAIN s : i # j => s[i] # s[j]
  PROVE  Rank!Cardinality(Elements(s)) = Len(s)
<1> DEFINE n == Len(s)
           S == Elements(s)
<1>1. n \in Nat /\ DOMAIN s = 1..n
  BY LenProperties
<1>2. s \in [1..n -> S]
  <2>1. s \in [1..n -> T]
    BY LenProperties
  <2>2. \A i \in 1..n : s[i] \in S
    BY <1>1 DEF Elements
  <2> HIDE DEF S, n
  <2> QED
    BY <2>1, <2>2
<1>3. \A i, j \in 1..n : i # j => s[i] # s[j]
  BY <1>1
<1>4. \A x \in S : \E i \in 1..n : s[i] = x
  BY <1>1 DEF Elements
<1> HIDE DEF S, n
<1>5. s \in Bijection(1..n, S)
  BY <1>2, <1>3, <1>4 DEF Bijection, Injection, Surjection, IsInjective
<1>6. ExistsBijection(1..n, S)
  BY <1>5 DEF ExistsBijection
<1>7. Cardinality(S) = n
  BY <1>1, <1>6, FS_CountingElements
<1> QED
  BY <1>7, RankCounts DEF S, n

LEMMA ServersBound ==
  ASSUME NEW s \in Seq(Rank!Summaries), ServersDiffer(s)
  PROVE  /\ Len(s) <= Rank!Cardinality(Candidates)
         /\ Rank!Cardinality(Elements(s)) = Len(s)
<1> DEFINE n == Len(s)
           f == [i \in 1..n |-> s[i].server]
<1>1. n \in Nat /\ DOMAIN s = 1..n
  BY LenProperties
<1>2. \A i \in 1..n : s[i] \in Rank!Summaries
  BY ElementOfSeq
<1>3. \A i \in 1..n : f[i] \in Candidates
  BY <1>2 DEF Rank!Summaries
<1>4. \A i, j \in 1..n : i # j => f[i] # f[j]
  BY <1>1 DEF ServersDiffer
<1>5. f \in [1..n -> Candidates]
  BY <1>3
<1> HIDE DEF f
<1>6. f \in Injection(1..n, Candidates)
  BY <1>4, <1>5 DEF Injection, IsInjective
<1>7. Cardinality(1..n) = n
  BY <1>1, FS_Interval
<1>8. n <= Cardinality(Candidates)
  <2>1. IsFiniteSet(Candidates)
    BY RankAssumption
  <2> QED
    BY <1>6, <1>7, <2>1, FS_Injection
<1>9. \A i, j \in DOMAIN s : i # j => s[i] # s[j]
  BY DEF ServersDiffer
<1> QED
  BY <1>8, <1>9, Counted, RankCounts

LEMMA KeysFit ==
  ASSUME NEW r \in Rank!Summaries, NEW preference
  PROVE  Rank!Key(preference, r) \in Three /\ Rank!HybridKey(r) \in Four
<1>1. /\ r.median \in Int /\ r.jitter \in Int /\ r.score \in Int
      /\ r.success \in Int /\ r.coverage \in Int
  BY RankAssumption DEF Rank!Summaries
<1>2. -r.success \in Int /\ -r.score \in Int /\ -r.coverage \in Int
  BY <1>1
<1> QED
  BY <1>1, <1>2 DEF Rank!Key, Rank!HybridKey, Three, Four

\* What a sort of rows of different servers holds, and in which order.
LEMMA SortKeeps ==
  ASSUME NEW rows \in Seq(Rank!Summaries), ServersDiffer(rows), NEW I \in SUBSET DOMAIN rows,
         NEW keys, NEW K, K = Three \/ K = Four, \A i \in I : keys[i] \in K
  PROVE  LET s == Rank!SortedBy(rows, I, keys)
         IN  /\ s \in Seq(Rank!Summaries)
             /\ ServersDiffer(s)
             /\ Elements(s) = {rows[i] : i \in I}
             /\ \A m, n \in DOMAIN s : m < n =>
                  \E i, j \in I : s[m] = rows[i] /\ s[n] = rows[j] /\ ~Rank!Lower(keys[j], keys[i])
<1> DEFINE s == Rank!SortedBy(rows, I, keys)
<1>1. PICK order \in [1..Cardinality(I) -> I] :
               /\ Cardinality(I) \in Nat
               /\ s \in Seq(Rank!Summaries) /\ Len(s) = Cardinality(I)
               /\ \A n \in 1..Len(s) : s[n] = rows[order[n]]
               /\ \A i \in I : \E n \in 1..Len(s) : order[n] = i
               /\ \A m, n \in 1..Len(s) :
                    m < n => order[m] # order[n] /\ ~Rank!Lower(keys[order[n]], keys[order[m]])
  BY SortedBySorts
<1> HIDE DEF s
<1>2. DOMAIN s = 1..Len(s) /\ Len(s) \in Nat
  BY <1>1, LenProperties
<1>3. \A n \in DOMAIN s : order[n] \in I /\ s[n] = rows[order[n]]
  BY <1>1, <1>2
<1>4. Elements(s) = {rows[i] : i \in I}
  <2>1. ASSUME NEW n \in DOMAIN s PROVE s[n] \in {rows[i] : i \in I}
    BY <1>3
  <2>2. ASSUME NEW i \in I PROVE rows[i] \in Elements(s)
    <3>1. PICK n \in 1..Len(s) : order[n] = i
      BY <1>1
    <3>2. n \in DOMAIN s /\ s[n] = rows[i]
      BY <1>2, <1>3, <3>1
    <3> QED
      BY <3>2 DEF Elements
  <2> QED
    BY <2>1, <2>2 DEF Elements
<1>5. ServersDiffer(s)
  <2> SUFFICES ASSUME NEW m \in DOMAIN s, NEW n \in DOMAIN s, m # n
               PROVE  s[m].server # s[n].server
    BY DEF ServersDiffer
  <2>1. m < n \/ n < m
    BY <1>2
  <2>2. order[m] # order[n]
    BY <1>1, <1>2, <2>1
  <2> QED
    BY <1>3, <2>2 DEF ServersDiffer
<1>6. ASSUME NEW m \in DOMAIN s, NEW n \in DOMAIN s, m < n
      PROVE  \E i, j \in I : s[m] = rows[i] /\ s[n] = rows[j] /\ ~Rank!Lower(keys[j], keys[i])
  <2>1. ~Rank!Lower(keys[order[n]], keys[order[m]])
    BY <1>1, <1>2, <1>6
  <2> QED
    BY <1>3, <2>1
<1> QED
  BY <1>1, <1>4, <1>5, <1>6 DEF s

LEMMA ReliableFits ==
  ASSUME NEW rows \in Seq(Rank!Summaries)
  PROVE  LET steady == {r \in Elements(rows) : r.success >= 700 /\ r.score > 0}
         IN  /\ Rank!Reliable(rows) \in SUBSET DOMAIN rows
             /\ {rows[i] : i \in Rank!Reliable(rows)} =
                   IF steady # {} THEN steady ELSE {r \in Elements(rows) : r.score > 0}
BY DEF Elements, Rank!Reliable, Rank!Healthy

LEMMA RankedOrder ==
  ASSUME NEW rows \in Seq(Rank!Summaries), ServersDiffer(rows), NEW preference
  PROVE  LET r == Rank!Ranked(rows, preference)
         IN  /\ r \in Seq(Rank!Summaries)
             /\ ServersDiffer(r)
             /\ Elements(r) = {rows[i] : i \in Rank!Reliable(rows)}
             /\ \A n \in DOMAIN r : n # 1 =>
                  ~Rank!Lower(Rank!Key(preference, r[n]), Rank!Key(preference, r[1]))
<1> DEFINE keys == [i \in DOMAIN rows |-> Rank!Key(preference, rows[i])]
           I == Rank!Reliable(rows)
           r == Rank!Ranked(rows, preference)
<1>1. I \in SUBSET DOMAIN rows
  BY ReliableFits
<1>2. \A i \in I : keys[i] \in Three /\ keys[i] = Rank!Key(preference, rows[i])
  BY <1>1, KeysFit, ElementOfSeq, LenProperties
<1>3. r = Rank!SortedBy(rows, I, keys)
  BY DEF Rank!Ranked
<1> HIDE DEF keys, I, r
<1>4. /\ r \in Seq(Rank!Summaries) /\ ServersDiffer(r) /\ Elements(r) = {rows[i] : i \in I}
      /\ \A m, n \in DOMAIN r : m < n =>
           \E i, j \in I : r[m] = rows[i] /\ r[n] = rows[j] /\ ~Rank!Lower(keys[j], keys[i])
  <2>1. /\ Rank!SortedBy(rows, I, keys) \in Seq(Rank!Summaries)
        /\ ServersDiffer(Rank!SortedBy(rows, I, keys))
        /\ Elements(Rank!SortedBy(rows, I, keys)) = {rows[i] : i \in I}
        /\ LET s == Rank!SortedBy(rows, I, keys)
           IN  \A m, n \in DOMAIN s : m < n =>
                 \E i, j \in I : s[m] = rows[i] /\ s[n] = rows[j] /\ ~Rank!Lower(keys[j], keys[i])
    <3>1. \A i \in I : keys[i] \in Three
      BY <1>2
    <3> QED
      BY ONLY <1>1, <3>1, rows \in Seq(Rank!Summaries), ServersDiffer(rows), SortKeeps
  <2> QED
    BY <1>3, <2>1
<1>5. ASSUME NEW n \in DOMAIN r, n # 1
      PROVE  ~Rank!Lower(Rank!Key(preference, r[n]), Rank!Key(preference, r[1]))
  <2>1. 1 \in DOMAIN r /\ 1 < n
    BY <1>4, <1>5, LenProperties
  <2> QED
    BY <1>2, <1>4, <2>1
<1> QED
  BY <1>4, <1>5 DEF I, r

\* None is first that another one beats in every respect.
LEMMA FirstIsBest ==
  ASSUME NEW a \in Rank!Summaries, NEW b \in Rank!Summaries, NEW preference,
         a.score = Rank!Score(a.success, a), b.score = Rank!Score(b.success, b),
         ~Rank!Lower(Rank!Key(preference, b), Rank!Key(preference, a))
  PROVE  ~(/\ b.success > a.success /\ b.median < a.median /\ b.jitter < a.jitter
           /\ (a.backup => b.backup))
<1> SUFFICES ASSUME b.success > a.success, b.median < a.median, b.jitter < a.jitter,
                    a.backup => b.backup
             PROVE  FALSE
  OBVIOUS
<1>1. /\ a.median \in Nat /\ a.jitter \in Nat /\ a.backup \in BOOLEAN
      /\ b.median \in Nat /\ b.jitter \in Nat /\ b.backup \in BOOLEAN
      /\ a.success \in 0..PerMille /\ b.success \in 0..PerMille
      /\ a.success \in Int /\ b.success \in Int /\ a.score \in Int /\ b.score \in Int
  BY DEF Rank!Summaries, PerMille
<1>2. a.success <= b.success /\ b.median <= a.median /\ b.jitter <= a.jitter
  BY <1>1
<1>3. a.score <= b.score
  BY <1>1, <1>2, ScoreBounds
<1>4. Rank!Key(preference, a) \in Three /\ Rank!Key(preference, b) \in Three
  BY KeysFit
<1>5. CASE preference = "fastest"
  <2>1. Rank!Key(preference, a)[1] = a.median /\ Rank!Key(preference, b)[1] = b.median
    BY <1>5 DEF Rank!Key
  <2> QED
    BY <1>4, <2>1, LowerThree
<1>6. CASE preference = "stable"
  <2>1. Rank!Key(preference, a)[1] = -a.success /\ Rank!Key(preference, b)[1] = -b.success
    BY <1>6 DEF Rank!Key
  <2>2. -b.success < -a.success
    BY <1>1
  <2> QED
    BY <1>4, <2>1, <2>2, LowerThree
<1>7. CASE preference # "fastest" /\ preference # "stable"
  <2>1. /\ Rank!Key(preference, a)[1] = -a.score /\ Rank!Key(preference, b)[1] = -b.score
        /\ Rank!Key(preference, a)[2] = -a.success /\ Rank!Key(preference, b)[2] = -b.success
    BY <1>7 DEF Rank!Key
  <2>2. -b.success < -a.success /\ (-b.score < -a.score \/ -b.score = -a.score)
    BY <1>1, <1>3
  <2> QED
    BY <1>4, <2>1, <2>2, LowerThree
<1> QED
  BY <1>5, <1>6, <1>7

LEMMA SummaryInts ==
  ASSUME NEW r \in Rank!Summaries
  PROVE  r.coverage \in Int /\ r.success \in Int
BY RankAssumption DEF Rank!Summaries

LEMMA Least ==
  ASSUME NEW S \in SUBSET Nat, IsFiniteSet(S), S # {}
  PROVE  \E i \in S : \A j \in S : i <= j
<1> DEFINE ahead == [i \in S |-> {j \in S : j < i}]
           s == Sorted(S, ahead)
           n == Cardinality(S)
<1>1. StrictOrder(S, ahead)
  BY DEF StrictOrder
<1>2. \A i, j \in S : j \in ahead[i] => j < i
  OBVIOUS
<1> HIDE DEF ahead
<1>3. /\ n \in Nat /\ s \in [1..n -> S]
      /\ \A i \in S : \E k \in 1..n : s[k] = i
      /\ \A k, m \in 1..n : k < m => s[k] \in ahead[s[m]]
  BY <1>1, Sorts
<1> HIDE DEF s, n
<1>4. 1 \in 1..n
  <2>1. PICK i \in S : TRUE
    OBVIOUS
  <2>2. PICK k \in 1..n : s[k] = i
    BY <1>3
  <2> QED
    BY <1>3, <2>2
<1>5. ASSUME NEW j \in S PROVE s[1] <= j
  <2>1. PICK k \in 1..n : s[k] = j
    BY <1>3
  <2>2. s[1] \in S
    BY <1>3, <1>4
  <2>3. CASE k = 1
    BY <2>1, <2>2, <2>3
  <2>4. CASE 1 < k
    <3>1. s[1] \in ahead[j]
      BY <1>3, <1>4, <2>1, <2>4
    <3>2. s[1] < j
      BY <1>2, <2>2, <3>1
    <3>3. s[1] \in Nat /\ j \in Nat
      BY <2>2
    <3> QED
      BY <3>2, <3>3
  <2> QED
    BY <1>3, <2>1, <2>3, <2>4
<1> QED
  BY <1>3, <1>4, <1>5

\* The rows that hybrid ranking chooses among, sorted
Best(s) == /\ s \in Seq(Rank!Summaries) /\ ServersDiffer(s)
           /\ \A m, n \in DOMAIN s : m < n => s[m].coverage >= s[n].coverage
           /\ \A n \in DOMAIN s : n # 1 => s[1].coverage > s[n].coverage \/ s[1].success >= s[n].success

Others(s) == {i \in DOMAIN s : Rank!IsGlobal(s[i]) # Rank!IsGlobal(s[1])}

Picks(s, h) ==
    \/ Len(s) <= Finalists /\ h = s
    \/ /\ Len(s) > Finalists /\ h = SubSeq(s, 1, Finalists)
       /\ Others(s) = {} \/ \E i \in Others(s) : i <= Finalists
    \/ /\ Len(s) > Finalists
       /\ \E o \in Others(s) : /\ o > Finalists /\ \A j \in Others(s) : o <= j
                               /\ h = Append(SubSeq(s, 1, Finalists - 1), s[o])

LEMMA HybridOrder ==
  ASSUME NEW ranked \in Seq(Rank!Summaries), ServersDiffer(ranked)
  PROVE  \E s : Best(s) /\ Elements(s) = Elements(ranked) /\ Picks(s, Rank!Hybrid(ranked))
<1> DEFINE keys == [i \in DOMAIN ranked |-> Rank!HybridKey(ranked[i])]
           I == DOMAIN ranked
           s == Rank!SortedBy(ranked, I, keys)
           others == Others(s)
           opposite == CHOOSE i \in others : \A j \in others : i <= j
<1>1. \A i \in I : keys[i] \in Four /\ keys[i] = Rank!HybridKey(ranked[i])
  BY KeysFit, ElementOfSeq, LenProperties
<1>2. Rank!Hybrid(ranked) =
        IF Len(s) <= Finalists THEN s
        ELSE IF others = {} \/ opposite <= Finalists THEN SubSeq(s, 1, Finalists)
        ELSE Append(SubSeq(s, 1, Finalists - 1), s[opposite])
  BY DEF Rank!Hybrid, Others
<1> HIDE DEF keys
<1>3. /\ s \in Seq(Rank!Summaries)
      /\ ServersDiffer(s)
      /\ Elements(s) = {ranked[i] : i \in I}
      /\ \A m, n \in DOMAIN s : m < n =>
           \E i, j \in I : s[m] = ranked[i] /\ s[n] = ranked[j] /\ ~Rank!Lower(keys[j], keys[i])
  <2>1. I \in SUBSET DOMAIN ranked /\ \A i \in I : keys[i] \in Four
    BY <1>1
  <2> HIDE DEF I
  <2> QED
    BY ONLY <2>1, ranked \in Seq(Rank!Summaries), ServersDiffer(ranked), SortKeeps
<1> HIDE DEF s
<1>4. Elements(s) = Elements(ranked)
  BY <1>3 DEF Elements
<1>5. DOMAIN s = 1..Len(s) /\ Len(s) \in Nat
  BY <1>3, LenProperties
<1>6. ASSUME NEW m \in DOMAIN s, NEW n \in DOMAIN s, m < n
      PROVE  /\ s[m].coverage >= s[n].coverage
             /\ s[m].coverage > s[n].coverage \/ s[m].success >= s[n].success
  <2>1. PICK i \in I, j \in I :
          s[m] = ranked[i] /\ s[n] = ranked[j] /\ ~Rank!Lower(keys[j], keys[i])
    BY <1>3, <1>6
  <2>2. s[m] \in Rank!Summaries /\ s[n] \in Rank!Summaries
    BY <1>3, ElementOfSeq, <1>5
  <2>3. /\ s[m].coverage \in Int /\ s[n].coverage \in Int
        /\ s[m].success \in Int /\ s[n].success \in Int
    BY <2>2, SummaryInts
  <2>4. /\ keys[i] \in Four /\ keys[j] \in Four
        /\ keys[i][1] = -s[m].coverage /\ keys[j][1] = -s[n].coverage
        /\ keys[i][2] = -s[m].success /\ keys[j][2] = -s[n].success
    BY <1>1, <2>1 DEF Rank!HybridKey
  <2>5. /\ ~(-s[n].coverage < -s[m].coverage)
        /\ ~(-s[n].coverage = -s[m].coverage /\ -s[n].success < -s[m].success)
    BY <2>1, <2>4, LowerFour
  <2> QED
    BY <2>3, <2>5
<1>7. Best(s)
  BY <1>3, <1>5, <1>6 DEF Best
<1>8. Picks(s, Rank!Hybrid(ranked))
  <2>1. CASE Len(s) <= Finalists
    BY <1>2, <2>1 DEF Picks
  <2>2. CASE Len(s) > Finalists
    <3>1. CASE others = {}
      BY <1>2, <1>5, RankAssumption, <2>2, <3>1 DEF Picks
    <3>2. CASE others # {}
      <4>1. others \in SUBSET Nat /\ IsFiniteSet(others)
        <5>1. IsFiniteSet(1..Len(s)) /\ others \in SUBSET (1..Len(s))
          BY <1>5, FS_Interval DEF Others
        <5> HIDE DEF others
        <5>2. IsFiniteSet(others)
          BY <5>1, FS_Subset
        <5>3. 1..Len(s) \subseteq Nat
          BY <1>5
        <5> QED
          BY <5>1, <5>2, <5>3
      <4>2. opposite \in others /\ \A j \in others : opposite <= j
        <5> HIDE DEF others
        <5> QED
          BY <3>2, <4>1, Least
      <4> HIDE DEF opposite
      <4>3. CASE opposite <= Finalists
        BY <1>2, <1>5, RankAssumption, <2>2, <4>2, <4>3 DEF Picks
      <4>4. CASE ~(opposite <= Finalists)
        <5>1. opposite > Finalists
          BY <4>1, <4>2, <4>4, RankAssumption
        <5>2. Rank!Hybrid(ranked) = Append(SubSeq(s, 1, Finalists - 1), s[opposite])
          BY <1>2, <1>5, RankAssumption, <2>2, <3>2, <4>4
        <5> QED
          BY <2>2, <4>2, <5>1, <5>2 DEF Picks
      <4> QED
        BY <4>3, <4>4
    <3> QED
      BY <3>1, <3>2
  <2> QED
    BY <1>5, RankAssumption, <2>1, <2>2
<1> QED
  BY <1>4, <1>7, <1>8

\* What is promised of the finalists h that were picked from s.
Diverse(s, h) ==
    /\ h \in Seq(Rank!Summaries) /\ ServersDiffer(h) /\ Elements(h) \subseteq Elements(s)
    /\ s # <<>> => h # <<>> /\ h[1] = s[1]
    /\ \A r \in Elements(s) : \E f \in Elements(h) : Rank!IsGlobal(f) = Rank!IsGlobal(r)
    /\ \A r \in Elements(s) \ Elements(h), f \in Elements(h) : r.coverage > f.coverage =>
          \A g \in Elements(h) \ {f} : Rank!IsGlobal(g) # Rank!IsGlobal(f)

\* The finalists are those at the places P of s, the first among them.
Places(s, n, P) == /\ P \in [1..n -> DOMAIN s] /\ P[1] = 1
                   /\ \A i, j \in 1..n : i # j => P[i] # P[j]
Regions(s, n, P) ==
    \A r \in DOMAIN s : \E i \in 1..n : Rank!IsGlobal(s[P[i]]) = Rank!IsGlobal(s[r])
Passes(s, n, P) ==
    \A r \in DOMAIN s, i \in 1..n :
       /\ \A j \in 1..n : P[j] # r
       /\ s[r].coverage > s[P[i]].coverage
       => \A j \in 1..n : j # i => Rank!IsGlobal(s[P[j]]) # Rank!IsGlobal(s[P[i]])
LEMMA PickedDiverse ==
  ASSUME NEW s, Best(s), NEW n \in Nat \ {0}, n <= Len(s), NEW P, Places(s, n, P),
         NEW h, h = [i \in 1..n |-> s[P[i]]], Regions(s, n, P), Passes(s, n, P)
  PROVE  Diverse(s, h)
<1> USE DEF Places, Regions, Passes
<1>1. s \in Seq(Rank!Summaries) /\ ServersDiffer(s) /\ DOMAIN s = 1..Len(s) /\ Len(s) \in Nat
  BY LenProperties DEF Best
<1>2. \A i \in 1..n : P[i] \in DOMAIN s /\ s[P[i]] \in Rank!Summaries
  BY <1>1, ElementOfSeq
<1>3. h \in Seq(Rank!Summaries) /\ Len(h) = n /\ DOMAIN h = 1..n
  <2>1. h \in [1..n -> Rank!Summaries]
    BY <1>2
  <2> QED
    BY <2>1
<1>4. \A i \in 1..n : h[i] = s[P[i]]
  OBVIOUS
<1>5. ServersDiffer(h)
  <2> SUFFICES ASSUME NEW i \in 1..n, NEW j \in 1..n, i # j
               PROVE  h[i].server # h[j].server
    BY <1>3 DEF ServersDiffer
  <2>1. P[i] \in DOMAIN s /\ P[j] \in DOMAIN s /\ P[i] # P[j]
    BY <1>2
  <2>2. s[P[i]].server # s[P[j]].server
    BY <1>1, <2>1 DEF ServersDiffer
  <2> QED
    BY <1>4, <2>2
<1>6. Elements(h) \subseteq Elements(s)
  BY <1>2, <1>3, <1>4 DEF Elements
<1>7. h # <<>> /\ h[1] = s[1]
  <2>1. 1 \in 1..n
    OBVIOUS
  <2>2. h # <<>>
    BY <1>3, <2>1, EmptySeq
  <2>3. h[1] = s[1]
    BY <1>4, <2>1
  <2> QED
    BY <2>2, <2>3
<1>8. ASSUME NEW r \in Elements(s)
      PROVE  \E f \in Elements(h) : Rank!IsGlobal(f) = Rank!IsGlobal(r)
  <2>1. PICK k \in DOMAIN s : r = s[k]
    BY <1>8 DEF Elements
  <2>2. PICK i \in 1..n : Rank!IsGlobal(s[P[i]]) = Rank!IsGlobal(s[k])
    OBVIOUS
  <2>3. h[i] \in Elements(h)
    BY <1>3 DEF Elements
  <2> QED
    BY <1>4, <2>1, <2>2, <2>3
<1>9. ASSUME NEW r \in Elements(s) \ Elements(h), NEW f \in Elements(h),
             r.coverage > f.coverage, NEW g \in Elements(h) \ {f}
      PROVE  Rank!IsGlobal(g) # Rank!IsGlobal(f)
  <2>1. PICK k \in DOMAIN s : r = s[k]
    BY <1>9 DEF Elements
  <2>2. PICK i \in 1..n : f = s[P[i]]
    BY <1>3, <1>4, <1>9 DEF Elements
  <2>3. PICK j \in 1..n : g = s[P[j]]
    BY <1>3, <1>4, <1>9 DEF Elements
  <2>4. j # i
    BY <1>9, <2>2, <2>3
  <2>5. \A m \in 1..n : P[m] # k
    <3> SUFFICES ASSUME NEW m \in 1..n, P[m] = k PROVE FALSE
      OBVIOUS
    <3>1. r = h[m] /\ h[m] \in Elements(h)
      BY <1>3, <1>4, <2>1 DEF Elements
    <3> QED
      BY <1>9, <3>1
  <2>6. s[k].coverage > s[P[i]].coverage
    BY <1>9, <2>1, <2>2
  <2>7. Rank!IsGlobal(s[P[j]]) # Rank!IsGlobal(s[P[i]])
    BY <2>4, <2>5, <2>6
  <2> QED
    BY <2>2, <2>3, <2>7
<1> QED
  BY <1>3, <1>5, <1>6, <1>7, <1>8, <1>9 DEF Diverse

LEMMA PicksDiverse ==
  ASSUME NEW s, Best(s), NEW h, Picks(s, h)
  PROVE  Diverse(s, h)
<1>1. /\ s \in Seq(Rank!Summaries) /\ DOMAIN s = 1..Len(s) /\ Len(s) \in Nat
      /\ Finalists \in Nat /\ Finalists >= 2
  BY RankAssumption, LenProperties DEF Best
<1>2. \A i \in DOMAIN s : s[i] \in Rank!Summaries /\ s[i].coverage \in Int
  BY <1>1, ElementOfSeq, SummaryInts
<1>3. \A i, j \in DOMAIN s : s[i].coverage > s[j].coverage => i < j
  BY <1>1, <1>2 DEF Best
<1>4. CASE s = <<>> /\ h = s
  BY <1>1, <1>4 DEF Best, Diverse, Elements
<1>5. CASE Len(s) # 0 /\ h = s
  <2> DEFINE n == Len(s)
             P == [i \in 1..n |-> i]
  <2>1. n \in Nat \ {0} /\ n <= Len(s)
    BY <1>1, <1>5
  <2>2. P \in [1..n -> DOMAIN s] /\ P[1] = 1 /\ \A i \in 1..n : P[i] = i
    BY <1>1, <2>1
  <2>3. h = [i \in 1..n |-> s[P[i]]]
    BY <1>1, <1>5
  <2> HIDE DEF P, n
  <2>4. \A i, j \in 1..n : i # j => P[i] # P[j]
    BY <2>2
  <2>5. \A r \in DOMAIN s : r \in 1..n /\ P[r] = r
    BY <1>1, <2>2 DEF n
  <2>6. Regions(s, n, P)
    BY <2>5 DEF Regions
  <2>7. Passes(s, n, P)
    BY <2>5 DEF Passes
  <2>8. Places(s, n, P)
    BY <2>2, <2>4 DEF Places
  <2> HIDE DEF n
  <2> QED
    BY <2>1, <2>3, <2>6, <2>7, <2>8, PickedDiverse
<1>6. CASE /\ Len(s) > Finalists /\ h = SubSeq(s, 1, Finalists)
           /\ Others(s) = {} \/ \E i \in Others(s) : i <= Finalists
  <2> DEFINE n == Finalists
             P == [i \in 1..n |-> i]
  <2>1. n \in Nat \ {0} /\ n <= Len(s) /\ n < Len(s)
    BY <1>1, <1>6
  <2>2. P \in [1..n -> DOMAIN s] /\ P[1] = 1 /\ \A i \in 1..n : P[i] = i
    BY <1>1, <2>1
  <2>3. h = [i \in 1..n |-> s[P[i]]]
    BY <1>1, <1>6, <2>1
  <2> HIDE DEF P
  <2>4. \A i, j \in 1..n : i # j => P[i] # P[j]
    BY <2>2
  <2>5. \A i \in 1..n : i \in DOMAIN s
    BY <1>1, <2>1
  <2>6. Regions(s, n, P)
    <3> SUFFICES ASSUME NEW r \in DOMAIN s
                 PROVE  \E i \in 1..n : Rank!IsGlobal(s[P[i]]) = Rank!IsGlobal(s[r])
      BY DEF Regions
    <3>1. CASE r \notin Others(s)
      BY <2>1, <2>2, <3>1 DEF Others
    <3>2. CASE r \in Others(s)
      <4>1. PICK i \in Others(s) : i <= Finalists
        BY <1>6, <3>2
      <4>2. i \in 1..n
        BY <1>1, <4>1 DEF Others
      <4>3. Rank!IsGlobal(s[i]) = Rank!IsGlobal(s[r])
        BY <3>2, <4>1 DEF Others, Rank!IsGlobal
      <4> QED
        BY <2>2, <4>2, <4>3
    <3> QED
      BY <3>1, <3>2
  <2>7. Passes(s, n, P)
    <3> SUFFICES ASSUME NEW r \in DOMAIN s, NEW i \in 1..n, \A j \in 1..n : P[j] # r,
                        s[r].coverage > s[P[i]].coverage
                 PROVE  FALSE
      BY DEF Passes
    <3>1. r < i
      BY <1>3, <2>2, <2>5
    <3>2. r \in 1..n /\ P[r] = r
      BY <1>1, <2>1, <2>2, <3>1
    <3> QED
      BY <3>2
  <2>8. Places(s, n, P)
    BY <2>2, <2>4 DEF Places
  <2> HIDE DEF n
  <2> QED
    BY <2>1, <2>3, <2>6, <2>7, <2>8, PickedDiverse
<1>7. ASSUME NEW o \in Others(s), Len(s) > Finalists, o > Finalists,
             \A j \in Others(s) : o <= j, h = Append(SubSeq(s, 1, Finalists - 1), s[o])
      PROVE  Diverse(s, h)
  <2> DEFINE n == Finalists
             P == [i \in 1..n |-> IF i = n THEN o ELSE i]
  <2>1. n \in Nat \ {0} /\ n <= Len(s) /\ n < Len(s) /\ 1 < n
    BY <1>1, <1>7
  <2>2. o \in DOMAIN s /\ Rank!IsGlobal(s[o]) # Rank!IsGlobal(s[1])
    BY <1>7 DEF Others
  <2>3. \A i \in 1..n : P[i] = IF i = n THEN o ELSE i
    OBVIOUS
  <2>4. P \in [1..n -> DOMAIN s] /\ P[1] = 1
    BY <1>1, <2>1, <2>2
  <2>5. h = [i \in 1..n |-> s[P[i]]]
    <3>1. /\ SubSeq(s, 1, n - 1) \in Seq(Rank!Summaries) /\ Len(SubSeq(s, 1, n - 1)) = n - 1
          /\ \A i \in 1..(n - 1) : SubSeq(s, 1, n - 1)[i] = s[i]
      BY <1>1, <2>1
    <3>2. /\ Len(h) = n /\ h \in Seq(Rank!Summaries)
          /\ \A i \in 1..n : h[i] = IF i = n THEN s[o] ELSE s[i]
      BY <1>1, <1>2, <1>7, <2>1, <2>2, <3>1, AppendProperties
    <3>3. h = [i \in 1..n |-> h[i]]
      BY <3>2
    <3> QED
      BY <2>3, <3>2, <3>3
  <2> HIDE DEF P
  <2>6. \A i, j \in 1..n : i # j => P[i] # P[j]
    BY <1>7, <2>1, <2>3
  <2>7. Regions(s, n, P)
    <3> SUFFICES ASSUME NEW r \in DOMAIN s
                 PROVE  \E i \in 1..n : Rank!IsGlobal(s[P[i]]) = Rank!IsGlobal(s[r])
      BY DEF Regions
    <3>1. CASE r \notin Others(s)
      BY <2>1, <2>4, <3>1 DEF Others
    <3>2. CASE r \in Others(s)
      <4>1. Rank!IsGlobal(s[o]) = Rank!IsGlobal(s[r])
        BY <2>2, <3>2 DEF Others, Rank!IsGlobal
      <4>2. n \in 1..n /\ P[n] = o
        BY <2>1, <2>3
      <4> QED
        BY <4>1, <4>2
    <3> QED
      BY <3>1, <3>2
  <2>8. Passes(s, n, P)
    <3> SUFFICES ASSUME NEW r \in DOMAIN s, NEW i \in 1..n, \A j \in 1..n : P[j] # r,
                        s[r].coverage > s[P[i]].coverage, NEW j \in 1..n, j # i
                 PROVE  Rank!IsGlobal(s[P[j]]) # Rank!IsGlobal(s[P[i]])
      BY DEF Passes
    <3>1. r < P[i]
      BY <1>3, <2>4
    <3>2. i = n
      <4> SUFFICES ASSUME i # n PROVE FALSE
        OBVIOUS
      <4>1. r \in 1..n /\ P[r] = r
        BY <1>1, <2>1, <2>3, <3>1
      <4> QED
        BY <4>1
    <3>3. P[i] = o /\ P[j] = j /\ j < o /\ j \in DOMAIN s
      <4>1. P[i] = o /\ P[j] = j
        BY <2>3, <3>2
      <4>2. j < n /\ o \in Nat
        BY <1>1, <2>2, <3>2
      <4> QED
        BY <1>1, <1>7, <2>1, <4>1, <4>2
    <3>4. j \notin Others(s)
      BY <1>1, <1>7, <3>3 DEF Others
    <3> QED
      BY <2>2, <3>3, <3>4 DEF Others
  <2>9. Places(s, n, P)
    BY <2>4, <2>6 DEF Places
  <2> HIDE DEF n
  <2> QED
    BY <2>1, <2>5, <2>7, <2>8, <2>9, PickedDiverse
<1>8. Len(s) = 0 => s = <<>>
  BY <1>1, EmptySeq
<1> QED
  BY <1>4, <1>5, <1>6, <1>7, <1>8 DEF Picks

LEMMA RankStutters ==
  ASSUME Rank!RankInv, UNCHANGED Rank!rankVars
  PROVE  Rank!RankInv'
<1>1. v1' = v1
  BY DEF Rank!rankVars
<1> QED
  BY <1>1 DEF Rank!RankInv, Rank!RankTypeOK, Rank!RankingIsSound, Rank!Goals

Races == [phase : {"none", "measure", "ranked"}, goal : Rank!Goals,
          pending : SUBSET Candidates, rows : Seq(Rank!Summaries),
          finalists : Seq(Rank!Summaries)]

\* A step by which nothing is chosen.
LEMMA RaceGoesOn ==
  ASSUME NEW e \in Races, v1' = e, e.phase = "measure",
         \A i \in DOMAIN e.rows : e.rows[i].server \notin e.pending,
         Len(e.finalists) <= Rank!Cardinality(Candidates), ServersDiffer(e.rows),
         \A i \in DOMAIN e.rows : e.rows[i].score = Rank!Score(e.rows[i].success, e.rows[i])
  PROVE  Rank!RankInv'
BY DEF Rank!RankInv, Rank!RankTypeOK, Rank!RankingIsSound, Races, ServersDiffer

LEMMA RaceTypes ==
  ASSUME Rank!RankInv
  PROVE  /\ Len(v1.finalists) <= Rank!Cardinality(Candidates)
         /\ v1 \in Races /\ v1.rows \in Seq(Rank!Summaries) /\ ServersDiffer(v1.rows)
         /\ \A i \in DOMAIN v1.rows : v1.rows[i].server \notin v1.pending
         /\ \A i \in DOMAIN v1.rows : v1.rows[i].score = Rank!Score(v1.rows[i].success, v1.rows[i])
BY DEF Rank!RankInv, Rank!RankTypeOK, Races, ServersDiffer

LEMMA NoRows ==
  /\ <<>> \in Seq(Rank!Summaries) /\ ServersDiffer(<<>>) /\ DOMAIN <<>> = {}
  /\ Len(<<>>) <= Rank!Cardinality(Candidates)
<1>1. IsFiniteSet(Candidates)
  BY RankAssumption
<1>2. Cardinality(Candidates) \in Nat /\ Rank!Cardinality(Candidates) = Cardinality(Candidates)
  BY <1>1, FS_CardinalityType, RankCounts
<1> QED
  BY <1>2, EmptySeq DEF ServersDiffer

LEMMA StartsInv ==
  ASSUME NEW goal \in Rank!Goals, Rank!Start(goal)
  PROVE  Rank!RankInv'
<1> DEFINE e == [phase |-> "measure", goal |-> goal, pending |-> Rank!Offered(goal),
                 rows |-> <<>>, finalists |-> <<>>]
<1>1. v1' = e
  BY DEF Rank!Start, Rank!Quiet
<1>2. Rank!Offered(goal) \subseteq Candidates
  BY RankAssumption DEF Rank!Offered
<1>3. e \in Races
  BY <1>2, NoRows DEF Races
<1> QED
  BY <1>1, <1>3, NoRows, RaceGoesOn

LEMMA RaisesInv ==
  ASSUME Rank!RankInv, NEW server \in Candidates, Rank!Raises(server)
  PROVE  Rank!RankInv'
<1> DEFINE e == [v1 EXCEPT !.pending = @ \ {server}]
<1>1. v1' = e /\ v1.phase = "measure"
  BY DEF Rank!Raises
<1>2. v1 \in Races
  BY RaceTypes
<1>3. e \in Races /\ e.phase = "measure" /\ e.rows = v1.rows /\ e.finalists = v1.finalists
      /\ e.pending = v1.pending \ {server}
  BY <1>1, <1>2 DEF Races
<1> QED
  BY <1>1, <1>3, RaceTypes, RaceGoesOn

LEMMA AnswersInv ==
  ASSUME Rank!RankInv, NEW server \in Candidates, NEW tally \in Rank!Tallies,
         NEW pace \in Paces, Rank!Answers(server, tally, pace)
  PROVE  Rank!RankInv'
<1> DEFINE r == Rank!Row(server, tally, pace)
           rows == Append(v1.rows, r)
           e == [v1 EXCEPT !.pending = @ \ {server}, !.rows = rows]
           n == Len(v1.rows)
<1>1. v1' = e /\ v1.phase = "measure" /\ server \in v1.pending
  BY DEF Rank!Answers
<1>2. r \in Rank!Summaries /\ r.server = server /\ r.score = Rank!Score(r.success, r)
  BY RowIsSummary
<1> HIDE DEF r
<1>3. /\ v1 \in Races /\ v1.rows \in Seq(Rank!Summaries) /\ ServersDiffer(v1.rows)
      /\ \A i \in DOMAIN v1.rows : v1.rows[i].server \notin v1.pending
      /\ \A i \in DOMAIN v1.rows : v1.rows[i].score = Rank!Score(v1.rows[i].success, v1.rows[i])
      /\ Len(v1.finalists) <= Rank!Cardinality(Candidates)
  BY RaceTypes
<1>4. /\ rows \in Seq(Rank!Summaries) /\ n \in Nat
      /\ DOMAIN rows = 1..(n + 1) /\ DOMAIN v1.rows = 1..n
      /\ \A i \in 1..n : rows[i] = v1.rows[i]
      /\ rows[n + 1] = r
  BY <1>2, <1>3, AppendProperties, LenProperties
<1> HIDE DEF rows, n
<1>5. /\ e \in Races /\ e.phase = "measure" /\ e.rows = rows /\ e.finalists = v1.finalists
      /\ e.pending = v1.pending \ {server}
  BY <1>1, <1>3, <1>4 DEF Races
<1> HIDE DEF e
<1>6. \A i \in DOMAIN rows : i \in 1..n \/ i = n + 1
  BY <1>4
<1>7. ServersDiffer(rows)
  <2>1. \A i, j \in 1..n : i # j => rows[i].server # rows[j].server
    BY <1>3, <1>4 DEF ServersDiffer
  <2>2. \A i \in 1..n : rows[i].server # r.server
    BY <1>1, <1>2, <1>3, <1>4
  <2> QED
    BY <1>4, <1>6, <2>1, <2>2 DEF ServersDiffer
<1>8. \A i \in DOMAIN rows : rows[i].server \notin e.pending
  BY <1>2, <1>3, <1>4, <1>5, <1>6
<1>9. \A i \in DOMAIN rows : rows[i].score = Rank!Score(rows[i].success, rows[i])
  BY <1>2, <1>3, <1>4, <1>6
<1> QED
  BY <1>1, <1>3, <1>5, <1>7, <1>8, <1>9, RaceGoesOn

\* What was ranked holds what is fit, and its first is not beaten.
LEMMA RankedRight ==
  ASSUME NEW rows \in Seq(Rank!Summaries), ServersDiffer(rows), NEW preference,
         \A i \in DOMAIN rows : rows[i].score = Rank!Score(rows[i].success, rows[i]),
         NEW goal, goal # "balanced"
  PROVE  Rank!WellChosen(Rank!Ranked(rows, preference), rows, goal)
<1> DEFINE r == Rank!Ranked(rows, preference)
           steady == {x \in Elements(rows) : x.success >= 700 /\ x.score > 0}
           fit == IF steady # {} THEN steady ELSE {x \in Elements(rows) : x.score > 0}
<1>1. /\ r \in Seq(Rank!Summaries) /\ ServersDiffer(r)
      /\ Elements(r) = {rows[i] : i \in Rank!Reliable(rows)}
      /\ \A n \in DOMAIN r : n # 1 =>
           ~Rank!Lower(Rank!Key(preference, r[n]), Rank!Key(preference, r[1]))
  BY RankedOrder
<1>2. {rows[i] : i \in Rank!Reliable(rows)} = fit
  BY ReliableFits
<1> HIDE DEF r
<1>3. Rank!Cardinality(Elements(r)) = Len(r)
  BY <1>1, ServersBound
<1>4. Elements(r) = fit
  BY <1>1, <1>2
<1>5. \A x \in fit : x \in Elements(rows) /\ x \in Rank!Summaries /\ x.score = Rank!Score(x.success, x)
  <2>1. \A x \in fit : x \in Elements(rows)
    OBVIOUS
  <2> HIDE DEF fit
  <2> QED
    BY <2>1, ElementOfSeq, LenProperties DEF Elements
<1> HIDE DEF fit
<1>6. ASSUME NEW x \in fit
      PROVE  ~(/\ x.success > r[1].success /\ x.median < r[1].median
               /\ x.jitter < r[1].jitter /\ (r[1].backup => x.backup))
  <2>1. PICK n \in DOMAIN r : x = r[n]
    BY <1>4, <1>6 DEF Elements
  <2>2. DOMAIN r = 1..Len(r) /\ Len(r) \in Nat /\ 1 \in DOMAIN r
    BY <1>1, <2>1, LenProperties
  <2>3. r[1] \in fit
    BY <1>4, <2>2 DEF Elements
  <2>4. /\ r[1] \in Rank!Summaries /\ r[1].score = Rank!Score(r[1].success, r[1])
        /\ x \in Rank!Summaries /\ x.score = Rank!Score(x.success, x)
    BY <1>5, <1>6, <2>3
  <2>5. ~Rank!Lower(Rank!Key(preference, x), Rank!Key(preference, r[1]))
    <3>1. CASE n = 1
      <4>1. Rank!Key(preference, x) \in Three
        BY <2>4, KeysFit
      <4> QED
        BY <2>1, <3>1, <4>1, LowerOrders
    <3>2. CASE n # 1
      BY <1>1, <2>1, <3>2
    <3> QED
      BY <3>1, <3>2
  <2> QED
    BY <2>4, <2>5, FirstIsBest
<1>7. /\ Elements(r) \subseteq fit /\ Len(r) = Rank!Cardinality(Elements(r))
      /\ fit # {} => Elements(r) # {}
      /\ \A x \in fit : ~(/\ x.success > r[1].success /\ x.coverage >= r[1].coverage
                          /\ x.median < r[1].median /\ x.jitter < r[1].jitter
                          /\ (r[1].backup => x.backup))
      /\ Elements(r) = fit
  BY <1>3, <1>4, <1>6
<1> QED
  BY <1>7 DEF Rank!WellChosen, Elements, r, fit

LEMMA ElementsThere ==
  ASSUME NEW s \in Seq(Rank!Summaries)
  PROVE  /\ s # <<>> <=> Elements(s) # {}
         /\ s # <<>> => 1 \in DOMAIN s
<1>1. DOMAIN s = 1..Len(s) /\ Len(s) \in Nat
  BY LenProperties
<1>2. s # <<>> <=> Len(s) # 0
  BY EmptySeq
<1>3. s # <<>> => 1 \in DOMAIN s
  BY <1>1, <1>2
<1>4. s # <<>> => s[1] \in Elements(s)
  BY <1>3 DEF Elements
<1>5. s = <<>> => Elements(s) = {}
  BY <1>1, <1>2 DEF Elements
<1> QED
  BY <1>3, <1>4, <1>5

LEMMA HybridRight ==
  ASSUME NEW rows \in Seq(Rank!Summaries), ServersDiffer(rows), NEW preference
  PROVE  LET h == Rank!Hybrid(Rank!Ranked(rows, preference))
         IN  Rank!WellChosen(h, rows, "balanced") /\ h \in Seq(Rank!Summaries) /\ ServersDiffer(h)
<1> DEFINE r == Rank!Ranked(rows, preference)
           h == Rank!Hybrid(r)
           steady == {x \in Elements(rows) : x.success >= 700 /\ x.score > 0}
           fit == IF steady # {} THEN steady ELSE {x \in Elements(rows) : x.score > 0}
<1>1. r \in Seq(Rank!Summaries) /\ ServersDiffer(r) /\ Elements(r) = fit
  <2>1. {rows[i] : i \in Rank!Reliable(rows)} = fit
    BY ReliableFits
  <2> HIDE DEF fit
  <2>2. /\ r \in Seq(Rank!Summaries) /\ ServersDiffer(r)
        /\ Elements(r) = {rows[i] : i \in Rank!Reliable(rows)}
    BY RankedOrder
  <2> QED
    BY <2>1, <2>2
<1> HIDE DEF r
<1>2. PICK s : Best(s) /\ Elements(s) = Elements(r) /\ Picks(s, h)
  BY <1>1, HybridOrder
<1> HIDE DEF h, fit
<1>3. Diverse(s, h)
  BY <1>2, PicksDiverse
<1>4. /\ h \in Seq(Rank!Summaries) /\ ServersDiffer(h) /\ Elements(h) \subseteq fit
      /\ s # <<>> => h # <<>> /\ h[1] = s[1]
      /\ \A x \in fit : \E f \in Elements(h) : Rank!IsGlobal(f) = Rank!IsGlobal(x)
      /\ \A x \in fit \ Elements(h), f \in Elements(h) : x.coverage > f.coverage =>
            \A g \in Elements(h) \ {f} : Rank!IsGlobal(g) # Rank!IsGlobal(f)
  BY <1>1, <1>2, <1>3 DEF Diverse
<1>5. Rank!Cardinality(Elements(h)) = Len(h)
  BY <1>4, ServersBound
<1>6. s \in Seq(Rank!Summaries)
  BY <1>2 DEF Best
<1>7. fit # {} => Elements(h) # {}
  BY <1>1, <1>2, <1>4, <1>6, ElementsThere
<1>8. ASSUME NEW x \in fit
      PROVE  ~(x.success > h[1].success /\ x.coverage >= h[1].coverage)
  <2>1. PICK n \in DOMAIN s : x = s[n]
    BY <1>1, <1>2, <1>8 DEF Elements
  <2>2. 1 \in DOMAIN s /\ s # <<>>
    BY <1>1, <1>2, <1>6, <1>8, ElementsThere
  <2>3. s[n] \in Rank!Summaries /\ s[1] \in Rank!Summaries
    BY <1>6, <2>2, ElementOfSeq, LenProperties
  <2>4. /\ s[n].coverage \in Int /\ s[n].success \in Int
        /\ s[1].coverage \in Int /\ s[1].success \in Int
    BY <2>3, SummaryInts
  <2>5. n # 1 => s[1].coverage > s[n].coverage \/ s[1].success >= s[n].success
    BY <1>2 DEF Best
  <2> QED
    BY <1>4, <2>1, <2>2, <2>4, <2>5
<1>9. /\ Elements(h) \subseteq fit /\ Len(h) = Rank!Cardinality(Elements(h))
      /\ fit # {} => Elements(h) # {}
      /\ \A x \in fit : ~(/\ x.success > h[1].success /\ x.coverage >= h[1].coverage
                          /\ x.median < h[1].median /\ x.jitter < h[1].jitter
                          /\ (h[1].backup => x.backup))
      /\ \A x \in fit : \E f \in Elements(h) : Rank!IsGlobal(f) = Rank!IsGlobal(x)
      /\ \A x \in fit \ Elements(h), f \in Elements(h) : x.coverage > f.coverage =>
            \A g \in Elements(h) \ {f} : Rank!IsGlobal(g) # Rank!IsGlobal(f)
  BY <1>4, <1>5, <1>7, <1>8
<1>10. Rank!WellChosen(h, rows, "balanced")
  BY <1>9 DEF Rank!WellChosen, Elements, fit
<1> QED
  BY <1>4, <1>10 DEF h, r

LEMMA ChooseInv ==
  ASSUME Rank!RankInv, NEW preference \in Rank!Preferences, Rank!Choose(preference)
  PROVE  Rank!RankInv'
<1> DEFINE r == Rank!Ranked(v1.rows, preference)
           f == IF v1.goal = "balanced" THEN Rank!Hybrid(r) ELSE r
           e == [v1 EXCEPT !.phase = "ranked", !.finalists = f]
<1>1. v1' = e
  BY DEF Rank!Choose
<1>2. /\ v1 \in Races /\ v1.rows \in Seq(Rank!Summaries) /\ ServersDiffer(v1.rows)
      /\ \A i \in DOMAIN v1.rows : v1.rows[i].server \notin v1.pending
      /\ \A i \in DOMAIN v1.rows : v1.rows[i].score = Rank!Score(v1.rows[i].success, v1.rows[i])
  BY RaceTypes
<1>3. /\ f \in Seq(Rank!Summaries) /\ ServersDiffer(f)
      /\ Rank!WellChosen(f, v1.rows, v1.goal)
  <2>1. CASE v1.goal = "balanced"
    BY <1>2, <2>1, HybridRight
  <2>2. CASE v1.goal # "balanced"
    BY <1>2, <2>2, RankedRight, RankedOrder
  <2> QED
    BY <2>1, <2>2
<1> HIDE DEF f
<1>4. Len(f) <= Rank!Cardinality(Candidates)
  BY <1>3, ServersBound
<1>5. /\ e \in Races /\ e.rows = v1.rows /\ e.finalists = f /\ e.pending = v1.pending
      /\ e.goal = v1.goal
  BY <1>2, <1>3 DEF Races
<1> HIDE DEF e
<1>6. Rank!RankTypeOK'
  BY <1>1, <1>2, <1>4, <1>5 DEF Rank!RankTypeOK, Races
<1>7. /\ \A i, j \in DOMAIN e.rows : i # j => e.rows[i].server # e.rows[j].server
      /\ \A i \in DOMAIN e.rows : e.rows[i].score = Rank!Score(e.rows[i].success, e.rows[i])
      /\ Rank!WellChosen(e.finalists, e.rows, e.goal)
  BY <1>2, <1>3, <1>5 DEF ServersDiffer
<1> QED
  BY <1>1, <1>6, <1>7 DEF Rank!RankInv, Rank!RankingIsSound

LEMMA RankNextInv ==
  ASSUME Rank!RankInv, Rank!RankNext
  PROVE  Rank!RankInv'
BY StartsInv, RaisesInv, AnswersInv, ChooseInv DEF Rank!RankNext

LEMMA RankInitInv ==
  ASSUME Rank!RankInit
  PROVE  Rank!RankInv
<1>1. v1 = [phase |-> "none", goal |-> "balanced", pending |-> {}, rows |-> <<>>,
            finalists |-> <<>>]
  BY DEF Rank!RankInit, Rank!Quiet
<1>2. v1 \in Races
  BY <1>1, NoRows DEF Races, Rank!Goals
<1>3. v1.phase = "none" /\ v1.rows = <<>> /\ v1.finalists = <<>>
  BY <1>1
<1> QED
  BY <1>2, <1>3, NoRows DEF Rank!RankInv, Rank!RankTypeOK, Rank!RankingIsSound, Races

LEMMA RankInvariance == Spec => [](part = "ranking" => Rank!RankInv)
<1>1. Init => (part = "ranking" => Rank!RankInv)
  BY RankInitInv DEF Init
<1>2. (part = "ranking" => Rank!RankInv) /\ [Next]_vars
         => (part = "ranking" => Rank!RankInv)'
  BY PartSteps, RankNextInv, RankStutters
<1> QED
  BY <1>1, <1>2, PTL DEF Spec

-------------------------------------------------------------------------------
(***************************************************************************)
(* RouteMemory: v1 is history, v2 measured, v3 ranking and v4 network      *)
(***************************************************************************)
LEMMA HistoryIndices ==
  ASSUME Memory!MemoryTypeOK
  PROVE  DOMAIN v1 = 1..Len(v1) /\ Len(v1) \in Nat /\ IsFiniteSet(DOMAIN v1)
<1>1. DOMAIN v1 = 1..Len(v1) /\ Len(v1) \in Nat
  BY LenProperties DEF Memory!MemoryTypeOK
<1>2. IsFiniteSet(1..Len(v1))
  BY <1>1, FS_Interval
<1> QED
  BY <1>1, <1>2

LEMMA MemoryCounts ==
  ASSUME Memory!MemoryTypeOK, NEW S \in SUBSET DOMAIN v1
  PROVE  Memory!Cardinality(S) \in Nat /\ (Memory!Cardinality(S) = 0 <=> S = {})
<1>1. IsFiniteSet(S)
  BY HistoryIndices, FS_Subset
<1>2. Cardinality(S) \in Nat /\ (Cardinality(S) = 0 <=> S = {})
  BY <1>1, FS_CardinalityType, FS_EmptySet
<1>3. Memory!Cardinality(S) = Cardinality(S)
  BY DEF Memory!Cardinality, Cardinality
<1> QED
  BY <1>2, <1>3

LEMMA HistoryRow ==
  ASSUME Memory!MemoryTypeOK, NEW i \in DOMAIN v1
  PROVE  /\ v1[i] \in Memory!Events
         /\ v1[i].network \in Networks /\ v1[i].group \in {Groups[n] : n \in Networks}
         /\ v1[i].route \in Routes /\ v1[i].ok \in BOOLEAN
         /\ v1[i].age = "young" \/ v1[i].age = "old"
<1>1. v1[i] \in Memory!Events
  BY ElementOfSeq, HistoryIndices DEF Memory!MemoryTypeOK
<1> QED
  BY <1>1 DEF Memory!Events, Memory!Ages

\* Whatever there is has a weight.
LEMMA Weighs ==
  ASSUME Memory!MemoryTypeOK, NEW S \in SUBSET DOMAIN v1
  PROVE  Memory!Weight(S) \in Nat /\ (Memory!Weight(S) = 0 <=> S = {})
<1> DEFINE young == {i \in S : v1[i].age = "young"}
           old == {i \in S : v1[i].age = "old"}
           y == Memory!Cardinality(young)
           o == Memory!Cardinality(old)
<1>1. young \in SUBSET DOMAIN v1 /\ old \in SUBSET DOMAIN v1
  OBVIOUS
<1>2. S = {} <=> young = {} /\ old = {}
  BY HistoryRow
<1>3. Memory!Weight(S) = 2 * y + o
  BY DEF Memory!Weight
<1> HIDE DEF young, old
<1>4. y \in Nat /\ o \in Nat /\ (y = 0 <=> young = {}) /\ (o = 0 <=> old = {})
  BY <1>1, MemoryCounts
<1> HIDE DEF y, o
<1> QED
  BY <1>2, <1>3, <1>4

\* A bonus comes from a memory that speaks for the route.
LEMMA BonusSpeaks ==
  ASSUME Memory!MemoryTypeOK, NEW n, NEW r
  PROVE  /\ Memory!Bonus(n, r) \in 0..Cap
         /\ Memory!Bonus(n, r) > 0 => \E i \in Memory!Matches(n, r) : v1[i].ok
<1> DEFINE all == Memory!Matches(n, r)
           rows == Memory!Latest(all, Recent)
           good == {i \in rows : v1[i].ok}
           count == Memory!Cardinality(rows)
           trusted == rows # {} /\ 100 * Memory!Weight(good) >= 70 * Memory!Weight(rows)
           bonus == IF ~trusted THEN 0 ELSE IF count < Cap THEN count ELSE Cap
<1>1. Cap \in Nat
  BY MemoryAssumption
<1>2. all \in SUBSET DOMAIN v1
  BY DEF Memory!Matches
<1>3. Memory!Bonus(n, r) = bonus
  BY DEF Memory!Bonus, Memory!Prior
<1> HIDE DEF all
<1>4. rows \in SUBSET all
  BY DEF Memory!Latest
<1> HIDE DEF rows
<1>5. good \in SUBSET rows
  OBVIOUS
<1>6. count \in Nat /\ (count = 0 <=> rows = {})
  BY <1>2, <1>4, MemoryCounts
<1>7. trusted => good # {}
  <2>1. /\ Memory!Weight(good) \in Nat /\ (Memory!Weight(good) = 0 <=> good = {})
        /\ Memory!Weight(rows) \in Nat /\ (Memory!Weight(rows) = 0 <=> rows = {})
    <3> HIDE DEF good
    <3> QED
      BY <1>2, <1>4, <1>5, Weighs
  <2> HIDE DEF good
  <2> QED
    BY <2>1
<1>8. trusted => \E i \in all : v1[i].ok
  <2> HIDE DEF trusted
  <2> QED
    BY <1>4, <1>7
<1>9. bonus \in 0..Cap /\ (bonus > 0 => trusted)
  <2> HIDE DEF trusted, count
  <2> QED
    BY <1>1, <1>6
<1> HIDE DEF bonus, trusted
<1> QED
  BY <1>3, <1>8, <1>9 DEF all

\* That a memory of network n, or of its group, speaks for the route
Known(n, r) ==
    \E i \in DOMAIN v1 :
      /\ v1[i].route = r /\ v1[i].ok
      /\ v1[i].network = n
         \/ /\ v1[i].group = Groups[n] /\ v1[i].group # NoGroup
            /\ ~\E j \in DOMAIN v1 : v1[j].network = n /\ v1[j].route = r

LEMMA BonusKnown ==
  ASSUME Memory!MemoryTypeOK, NEW n, NEW r, Memory!Bonus(n, r) > 0
  PROVE  Known(n, r)
<1>1. PICK i \in Memory!Matches(n, r) : v1[i].ok
  BY BonusSpeaks
<1>2. CASE v1[i].network = n
  BY <1>1, <1>2 DEF Known, Memory!Matches
<1>3. CASE v1[i].network # n
  BY <1>1, <1>3 DEF Known, Memory!Matches
<1> QED
  BY <1>2, <1>3

LEMMA MemorySorts ==
  ASSUME NEW I, NEW ahead
  PROVE  Memory!InOrder(I, ahead) = Sorted(I, ahead)
BY DEF Memory!InOrder, Sorted, Memory!Cardinality, Cardinality

LEMMA MeasurementFields ==
  ASSUME NEW m \in Memory!Measurements
  PROVE  m.route \in Routes /\ m.coverage \in Nat /\ m.score \in Nat
BY MemoryAssumption DEF Memory!Measurements

\* What a ranking of rows for network n is
Favours(n, a, b) ==
    /\ a.coverage >= b.coverage
    /\ a.coverage = b.coverage /\ a.score < b.score => a.score + Cap >= b.score /\ Known(n, a.route)

LEMMA Personalized ==
  ASSUME Memory!MemoryTypeOK, NEW n, NEW rows \in Seq(Memory!Measurements)
  PROVE  LET s == Memory!Personalize(n, rows)
         IN  /\ s \in Seq(Memory!Measurements) /\ Len(s) = Len(rows)
             /\ Memory!ToSet(s) = Memory!ToSet(rows)
             /\ \A i, j \in DOMAIN s : i < j => Favours(n, s[i], s[j])
<1> DEFINE I == DOMAIN rows
           bonus == [r \in Routes |-> Memory!Bonus(n, r)]
           lead(a, b) == Memory!Before(bonus, a, b)
           ahead == [i \in I |-> {j \in I : \/ lead(rows[j], rows[i])
                                            \/ j < i /\ ~lead(rows[i], rows[j])}]
           order == Sorted(I, ahead)
           s == Memory!Personalize(n, rows)
           N == Len(rows)
<1>1. I = 1..N /\ N \in Nat /\ IsFiniteSet(I) /\ Cardinality(I) = N
  <2>1. I = 1..N /\ N \in Nat
    BY LenProperties
  <2>2. IsFiniteSet(1..N) /\ Cardinality(1..N) = IF 1 > N THEN 0 ELSE N - 1 + 1
    BY <2>1, FS_Interval
  <2> QED
    BY <2>1, <2>2
<1>2. \A i \in I : rows[i] \in Memory!Measurements
  BY ElementOfSeq, <1>1
<1>3. \A i \in I : /\ rows[i].route \in Routes /\ rows[i].coverage \in Nat /\ rows[i].score \in Nat
                   /\ bonus[rows[i].route] = Memory!Bonus(n, rows[i].route)
                   /\ bonus[rows[i].route] \in 0..Cap
  BY <1>2, MeasurementFields, BonusSpeaks
<1>4. \A i, j \in I : lead(rows[i], rows[j]) <=>
         \/ rows[i].coverage > rows[j].coverage
         \/ /\ rows[i].coverage = rows[j].coverage
            /\ rows[i].score + bonus[rows[i].route] > rows[j].score + bonus[rows[j].route]
  BY DEF Memory!Before
<1>5. s = [k \in DOMAIN order |-> rows[order[k]]]
  BY MemorySorts DEF Memory!Personalize
<1>6. StrictOrder(I, ahead)
  <2>1. \A i, j \in I : j \in ahead[i] <=> \/ lead(rows[j], rows[i])
                                           \/ j < i /\ ~lead(rows[i], rows[j])
    OBVIOUS
  <2>2. \A i \in I : ahead[i] \subseteq I
    OBVIOUS
  <2> DEFINE cover(i) == rows[i].coverage
             score(i) == rows[i].score + bonus[rows[i].route]
  <2>3. \A i \in I : cover(i) \in Int /\ score(i) \in Int /\ i \in Int
    BY <1>1, <1>3, MemoryAssumption
  <2>4. \A i, j \in I : lead(rows[i], rows[j]) <=>
           cover(i) > cover(j) \/ (cover(i) = cover(j) /\ score(i) > score(j))
    BY <1>4
  <2> HIDE DEF ahead, lead, cover, score
  <2>5. \A i, j \in I : j \in ahead[i] <=>
           \/ cover(j) > cover(i)
           \/ cover(j) = cover(i) /\ score(j) > score(i)
           \/ cover(j) = cover(i) /\ score(j) = score(i) /\ j < i
    BY <2>1, <2>3, <2>4
  <2>6. \A i \in I : i \notin ahead[i]
    BY <2>3, <2>5
  <2>7. \A i, j \in I : i = j \/ i \in ahead[j] \/ j \in ahead[i]
    BY <2>3, <2>5
  <2>8. \A i, j, k \in I : i \in ahead[j] /\ j \in ahead[k] => i \in ahead[k]
    BY <2>3, <2>5
  <2> QED
    BY <2>2, <2>6, <2>7, <2>8 DEF StrictOrder
<1>7. /\ order \in [1..N -> I]
      /\ \A i \in I : \E k \in 1..N : order[k] = i
      /\ \A k, l \in 1..N : k < l => order[k] \in ahead[order[l]]
  <2> HIDE DEF ahead
  <2> QED
    BY <1>1, <1>6, Sorts
<1>8. \A i, j \in I : j \in ahead[i] <=> \/ lead(rows[j], rows[i])
                                         \/ j < i /\ ~lead(rows[i], rows[j])
  OBVIOUS
<1> HIDE DEF s, order, ahead, lead, bonus
<1>9. s \in [1..N -> Memory!Measurements] /\ \A k \in 1..N : s[k] = rows[order[k]]
  BY <1>2, <1>5, <1>7
<1>10. s \in Seq(Memory!Measurements) /\ Len(s) = N /\ DOMAIN s = 1..N
  BY <1>1, <1>9
<1>11. Memory!ToSet(s) = Memory!ToSet(rows)
  <2>1. Memory!ToSet(s) \subseteq Memory!ToSet(rows)
    BY <1>7, <1>9, <1>10 DEF Memory!ToSet
  <2>2. Memory!ToSet(rows) \subseteq Memory!ToSet(s)
    <3> SUFFICES ASSUME NEW i \in I PROVE rows[i] \in Memory!ToSet(s)
      BY DEF Memory!ToSet
    <3>1. PICK k \in 1..N : order[k] = i
      BY <1>7
    <3>2. s[k] = rows[i] /\ k \in DOMAIN s
      BY <1>9, <1>10, <3>1
    <3> QED
      BY <3>2 DEF Memory!ToSet
  <2> QED
    BY <2>1, <2>2
<1>12. ASSUME NEW k \in 1..N, NEW l \in 1..N, k < l PROVE Favours(n, s[k], s[l])
  <2> DEFINE i == order[k]
             j == order[l]
             a == rows[i]
             b == rows[j]
  <2>1. i \in I /\ j \in I /\ i \in ahead[j] /\ s[k] = a /\ s[l] = b
    BY <1>7, <1>9, <1>12
  <2>2. lead(a, b) \/ ~lead(b, a)
    BY <1>8, <2>1
  <2>3. /\ a.coverage \in Nat /\ a.score \in Nat /\ b.coverage \in Nat /\ b.score \in Nat
        /\ bonus[a.route] \in 0..Cap /\ bonus[b.route] \in 0..Cap
        /\ bonus[a.route] = Memory!Bonus(n, a.route)
    BY <1>3, <2>1
  <2>4. \/ a.coverage > b.coverage
        \/ /\ a.coverage = b.coverage
           /\ a.score + bonus[a.route] >= b.score + bonus[b.route]
    <3>1. lead(a, b) <=> \/ a.coverage > b.coverage
                         \/ /\ a.coverage = b.coverage
                            /\ a.score + bonus[a.route] > b.score + bonus[b.route]
      BY <1>4, <2>1
    <3>2. lead(b, a) <=> \/ b.coverage > a.coverage
                         \/ /\ b.coverage = a.coverage
                            /\ b.score + bonus[b.route] > a.score + bonus[a.route]
      BY <1>4, <2>1
    <3> HIDE DEF a, b
    <3> QED
      BY ONLY <2>2, <2>3, <3>1, <3>2, MemoryAssumption
  <2>5. a.coverage = b.coverage /\ a.score < b.score => a.score + Cap >= b.score /\ bonus[a.route] > 0
    <3> HIDE DEF a, b
    <3> QED
      BY ONLY <2>3, <2>4, MemoryAssumption
  <2>6. bonus[a.route] > 0 => Known(n, a.route)
    BY <2>3, BonusKnown
  <2>7. a.coverage >= b.coverage
    <3> HIDE DEF a, b
    <3> QED
      BY ONLY <2>3, <2>4
  <2> HIDE DEF a, b
  <2> QED
    BY <2>1, <2>5, <2>6, <2>7 DEF Favours
<1> QED
  BY <1>10, <1>11, <1>12 DEF s

-------------------------------------------------------------------------------
LEMMA MemoryStutters ==
  ASSUME Memory!MemoryInv, UNCHANGED <<v1, v2, v3, v4>>
  PROVE  Memory!MemoryInv'
BY DEF Memory!MemoryInv, Memory!MemoryTypeOK, Memory!MemoryOnlyBreaksTies

LEMMA NothingRanked ==
  ASSUME v2 = <<>>, v3 = <<>>
  PROVE  Memory!MemoryOnlyBreaksTies
<1>1. DOMAIN v3 = {}
  OBVIOUS
<1> QED
  BY <1>1 DEF Memory!MemoryOnlyBreaksTies

LEMMA NewerFits ==
  ASSUME NEW T, NEW rows \in Seq(T), NEW n \in Nat
  PROVE  /\ Memory!Newer(rows, n) \in Seq(T)
         /\ Len(Memory!Newer(rows, n)) <= n
         /\ Len(Memory!Newer(rows, n)) <= Len(rows)
<1> DEFINE from == IF Len(rows) <= n THEN 1 ELSE Len(rows) - n + 1
<1>1. Len(rows) \in Nat /\ \A i \in 1..Len(rows) : rows[i] \in T
  BY LenProperties, ElementOfSeq
<1>2. from \in Int /\ from >= 1 /\ from <= Len(rows) + 1
      /\ (Len(rows) > n => Len(rows) - from + 1 = n)
  BY <1>1
<1>3. Memory!Newer(rows, n) = SubSeq(rows, from, Len(rows))
  BY DEF Memory!Newer
<1> HIDE DEF from
<1>4. /\ SubSeq(rows, from, Len(rows)) \in Seq(T)
      /\ Len(SubSeq(rows, from, Len(rows))) = IF from <= Len(rows) THEN Len(rows) - from + 1 ELSE 0
  <2>1. \A i \in from..Len(rows) : rows[i] \in T
    BY <1>1, <1>2
  <2> QED
    BY <1>1, <1>2, <2>1, SubSeqProperties
<1> QED
  BY <1>1, <1>2, <1>3, <1>4

LEMMA ObserveInv ==
  ASSUME Memory!MemoryInv, NEW n \in Networks, NEW route \in Routes, NEW ok \in BOOLEAN,
         Memory!Observe(n, route, ok)
  PROVE  Memory!MemoryInv'
<1> DEFINE e == [network |-> n, group |-> Groups[n], route |-> route, ok |-> ok, age |-> "young"]
           longer == Append(v1, e)
<1>1. e \in Memory!Events
  BY DEF Memory!Events, Memory!Ages
<1>2. v1' = Memory!Newer(longer, Kept) /\ v2' = <<>> /\ v3' = <<>> /\ v4' = v4
  BY DEF Memory!Observe
<1> HIDE DEF e
<1>3. longer \in Seq(Memory!Events)
  BY <1>1, AppendProperties DEF Memory!MemoryInv, Memory!MemoryTypeOK
<1> HIDE DEF longer
<1>4. v1' \in Seq(Memory!Events) /\ Len(v1') <= Kept
  BY <1>2, <1>3, NewerFits, MemoryAssumption
<1>5. Memory!MemoryOnlyBreaksTies'
  <2>1. DOMAIN v3' = {} /\ v3' = v2'
    BY <1>2
  <2> QED
    BY <2>1 DEF Memory!MemoryOnlyBreaksTies
<1> QED
  BY <1>2, <1>4, <1>5 DEF Memory!MemoryInv, Memory!MemoryTypeOK

LEMMA TimePassesInv ==
  ASSUME Memory!MemoryInv, Memory!TimePasses
  PROVE  Memory!MemoryInv'
<1> DEFINE young == {i \in DOMAIN v1 : v1[i].age = "young"}
           kept == Memory!Newer(v1, Memory!Cardinality(young))
<1>1. /\ v1' = [i \in DOMAIN kept |-> [kept[i] EXCEPT !.age = "old"]]
      /\ v2' = <<>> /\ v3' = <<>> /\ v4' = v4
  BY DEF Memory!TimePasses
<1>2. Memory!MemoryTypeOK
  BY DEF Memory!MemoryInv
<1>3. Memory!Cardinality(young) \in Nat
  BY <1>2, MemoryCounts
<1>4. kept \in Seq(Memory!Events) /\ Len(kept) <= Len(v1)
  <2> HIDE DEF young
  <2> QED
    BY <1>2, <1>3, NewerFits DEF Memory!MemoryTypeOK
<1> HIDE DEF kept
<1>5. Len(kept) \in Nat /\ DOMAIN kept = 1..Len(kept)
      /\ \A i \in DOMAIN kept : kept[i] \in Memory!Events
  BY <1>4, LenProperties, ElementOfSeq
<1>6. \A i \in DOMAIN kept : [kept[i] EXCEPT !.age = "old"] \in Memory!Events
  BY <1>5 DEF Memory!Events, Memory!Ages
<1>7. v1' \in Seq(Memory!Events) /\ Len(v1') = Len(kept)
  BY <1>1, <1>5, <1>6
<1>8. Len(v1) \in Nat /\ Len(v1) <= Kept /\ Kept \in Nat
  BY <1>2, LenProperties, MemoryAssumption DEF Memory!MemoryTypeOK
<1>9. Memory!MemoryOnlyBreaksTies'
  <2>1. DOMAIN v3' = {} /\ v3' = v2'
    BY <1>1
  <2> QED
    BY <2>1 DEF Memory!MemoryOnlyBreaksTies
<1> QED
  BY <1>1, <1>2, <1>4, <1>5, <1>7, <1>8, <1>9 DEF Memory!MemoryInv, Memory!MemoryTypeOK

LEMMA LiveAreMeasured ==
  ASSUME NEW rows \in Memory!LiveRankings
  PROVE  rows \in Seq(Memory!Measurements)
<1> DEFINE N == Memory!Cardinality(Routes)
<1>1. N \in Nat
  BY MemoryAssumption, FS_CardinalityType DEF Memory!Cardinality, Cardinality
<1>2. PICK order \in Memory!SetToSeqs(Routes), coverage \in [1..N -> Coverages],
           score \in [1..N -> Scores] :
        rows = [i \in 1..N |-> [route |-> order[i], coverage |-> coverage[i], score |-> score[i]]]
  BY DEF Memory!LiveRankings
<1>3. \A i \in 1..N : order[i] \in Routes
  BY DEF Memory!SetToSeqs
<1> HIDE DEF N
<1>4. \A i \in 1..N : rows[i] \in Memory!Measurements
  BY <1>2, <1>3 DEF Memory!Measurements
<1>5. rows \in [1..N -> Memory!Measurements]
  BY <1>2, <1>4
<1> QED
  BY <1>1, <1>5

LEMMA MemoryChooseInv ==
  ASSUME Memory!MemoryInv, NEW n \in Networks, NEW rows \in Memory!LiveRankings,
         Memory!Choose(n, rows)
  PROVE  Memory!MemoryInv'
<1>1. v1' = v1 /\ v2' = rows /\ v3' = Memory!Personalize(n, rows) /\ v4' = n
  BY DEF Memory!Choose
<1>2. Memory!MemoryTypeOK
  BY DEF Memory!MemoryInv
<1>3. rows \in Seq(Memory!Measurements)
  BY LiveAreMeasured
<1>4. /\ v3' \in Seq(Memory!Measurements) /\ Len(v3') = Len(v2')
      /\ Memory!ToSet(v3)' = Memory!ToSet(v2)'
      /\ \A i, j \in DOMAIN v3' : i < j => Favours(v4, v3[i], v3[j])'
  <2>1. LET s == Memory!Personalize(n, rows)
        IN  /\ s \in Seq(Memory!Measurements) /\ Len(s) = Len(rows)
            /\ Memory!ToSet(s) = Memory!ToSet(rows)
            /\ \A i, j \in DOMAIN s : i < j => Favours(n, s[i], s[j])
    BY <1>2, <1>3, Personalized
  <2>2. Memory!ToSet(v3)' = Memory!ToSet(v2)'
    BY <1>1, <2>1 DEF Memory!ToSet
  <2>3. v3' \in Seq(Memory!Measurements) /\ Len(v3') = Len(v2')
    BY <1>1, <2>1
  <2>4. ASSUME NEW i \in DOMAIN v3', NEW j \in DOMAIN v3', i < j
        PROVE  Favours(v4, v3[i], v3[j])'
    <3>1. Favours(n, v3'[i], v3'[j])
      BY <1>1, <2>1, <2>4
    <3>2. Known(n, v3'[i].route) = Known(v4, v3[i].route)'
      BY <1>1 DEF Known
    <3> QED
      BY <3>1, <3>2 DEF Favours
  <2> QED
    BY <2>2, <2>3, <2>4
<1>5. ASSUME NEW r, Known(v4, r)'
      PROVE  (\E e \in Memory!ToSet(v1) :
                /\ e.route = r /\ e.ok
                /\ e.network = v4
                   \/ /\ e.group = Groups[v4] /\ e.group # NoGroup
                      /\ ~\E f \in Memory!ToSet(v1) : f.network = v4 /\ f.route = r)'
  BY <1>5 DEF Known, Memory!ToSet
<1>6. ASSUME NEW i \in DOMAIN v3', NEW j \in DOMAIN v3', i < j
      PROVE  /\ v3[i]'.coverage >= v3[j]'.coverage
             /\ v3[i]'.coverage = v3[j]'.coverage /\ v3[i]'.score < v3[j]'.score
                  => v3[i]'.score + Cap >= v3[j]'.score /\ Known(v4, v3[i].route)'
  BY <1>4, <1>6 DEF Favours
<1>7. Memory!MemoryOnlyBreaksTies'
  BY <1>4, <1>5, <1>6 DEF Memory!MemoryOnlyBreaksTies
<1> QED
  BY <1>1, <1>2, <1>3, <1>4, <1>7 DEF Memory!MemoryInv, Memory!MemoryTypeOK

LEMMA MemoryInitInv == Memory!MemoryInit => Memory!MemoryInv
<1> SUFFICES ASSUME Memory!MemoryInit PROVE Memory!MemoryInv
  OBVIOUS
<1>1. v1 = <<>> /\ v2 = <<>> /\ v3 = <<>> /\ v4 \in Networks
  BY DEF Memory!MemoryInit
<1>2. Memory!MemoryTypeOK
  BY <1>1, MemoryAssumption DEF Memory!MemoryTypeOK
<1> QED
  BY <1>1, <1>2, NothingRanked DEF Memory!MemoryInv

LEMMA MemoryNextInv ==
  ASSUME Memory!MemoryInv, Memory!MemoryNext
  PROVE  Memory!MemoryInv'
<1>1. CASE \E n \in Networks, r \in Routes, ok \in BOOLEAN : Memory!Observe(n, r, ok)
  BY <1>1, ObserveInv
<1>2. CASE Memory!TimePasses
  BY <1>2, TimePassesInv
<1>3. CASE \E n \in Networks, rows \in Memory!LiveRankings : Memory!Choose(n, rows)
  BY <1>3, MemoryChooseInv
<1> QED
  BY <1>1, <1>2, <1>3 DEF Memory!MemoryNext

LEMMA MemoryInvariance == Spec => [](part = "memory" => Memory!MemoryInv)
<1>1. Init => (part = "memory" => Memory!MemoryInv)
  BY MemoryInitInv DEF Init
<1>2. (part = "memory" => Memory!MemoryInv) /\ [Next]_vars
         => (part = "memory" => Memory!MemoryInv)'
  BY PartSteps, MemoryNextInv, MemoryStutters DEF Memory!memoryVars
<1> QED
  BY <1>1, <1>2, PTL DEF Spec

(***************************************************************************)
(* Whatever the servers answer and in whichever order their measurements   *)
(* end, only servers that were measured to work are chosen, none is first  *)
(* that another one beats in every respect, and the finalists represent    *)
(* both regions (connectivity_service.py:298-444); and what was measured   *)
(* on earlier days moves a route only past equals and within the cap       *)
(* (route_dna_service.py:330-420).  Both rest on what sorted gives: a      *)
(* rearrangement in which nothing comes before what is ahead of it.        *)
(***************************************************************************)
THEOREM RankingSound == Spec => []RankingIsSound
<1>1. /\ part = "ranking" => Rank!RankInv
      /\ part = "memory" => Memory!MemoryInv
      => RankingIsSound
  BY DEF RankingIsSound, Rank!RankInv, Memory!MemoryInv
<1> QED
  BY <1>1, RankInvariance, MemoryInvariance, PTL

-------------------------------------------------------------------------------
(***************************************************************************)
(* The types of Tariff                                                     *)
(***************************************************************************)
LEMMA TariffSorts ==
  ASSUME NEW I, NEW ahead
  PROVE  Traffic!InOrder(I, ahead) = Sorted(I, ahead)
BY DEF Traffic!InOrder, Sorted, Traffic!Cardinality, Cardinality

\* What is selected stays in its order.
LEMMA SelectedFits ==
  ASSUME NEW T, NEW s \in Seq(T), NEW I \in SUBSET DOMAIN s
  PROVE  LET e == Traffic!Selected(s, I)
         IN  /\ e \in Seq(T) /\ Len(e) <= Len(s)
             /\ \E order \in [1..Len(e) -> I] :
                   /\ \A k \in 1..Len(e) : e[k] = s[order[k]]
                   /\ \A k, l \in 1..Len(e) : k < l => order[k] # order[l]
<1> DEFINE ahead == [i \in I |-> {j \in I : j < i}]
           N == Cardinality(I)
           order == Sorted(I, ahead)
           e == Traffic!Selected(s, I)
<1>1. DOMAIN s = 1..Len(s) /\ Len(s) \in Nat
  BY LenProperties
<1>2. IsFiniteSet(DOMAIN s) /\ Cardinality(DOMAIN s) = Len(s)
  <2>1. /\ IsFiniteSet(1..Len(s))
        /\ Cardinality(1..Len(s)) = IF 1 > Len(s) THEN 0 ELSE Len(s) - 1 + 1
    BY <1>1, FS_Interval
  <2> QED
    BY <1>1, <2>1
<1>3. IsFiniteSet(I) /\ N <= Len(s) /\ I \subseteq Nat
  BY <1>1, <1>2, FS_Subset
<1>4. StrictOrder(I, ahead)
  <2>1. \A i, j \in I : j \in ahead[i] <=> j < i
    OBVIOUS
  <2>2. \A i \in I : ahead[i] \subseteq I
    OBVIOUS
  <2> HIDE DEF ahead
  <2> QED
    BY <1>3, <2>1, <2>2 DEF StrictOrder
<1>5. /\ N \in Nat /\ order \in [1..N -> I]
      /\ \A k, l \in 1..N : k < l => order[k] \in ahead[order[l]]
  <2> HIDE DEF ahead
  <2> QED
    BY <1>3, <1>4, Sorts
<1>6. \A k, l \in 1..N : k < l => order[k] # order[l]
  <2>1. \A i, j \in I : j \in ahead[i] => j # i
    BY <1>3
  <2> HIDE DEF ahead, order, N
  <2> QED
    BY <1>5, <2>1
<1>7. e = [k \in DOMAIN order |-> s[order[k]]]
  BY TariffSorts DEF Traffic!Selected
<1> HIDE DEF e, order, N
<1>8. e = [k \in 1..N |-> s[order[k]]]
  BY <1>5, <1>7
<1>9. \A k \in 1..N : s[order[k]] \in T
  BY <1>1, <1>5, ElementOfSeq
<1>10. e \in [1..N -> T] /\ \A k \in 1..N : e[k] = s[order[k]]
  BY <1>8, <1>9
<1>11. e \in Seq(T) /\ Len(e) = N
  BY <1>5, <1>8, <1>10
<1> QED
  BY <1>3, <1>5, <1>6, <1>10, <1>11 DEF e

\* One row for each link, and no more than may be remembered
Rows(rows) == /\ rows \in Seq(Hosts) /\ Len(rows) <= Remembered
              /\ \A i, j \in DOMAIN rows : rows[i] = rows[j] => i = j

LEMMA NotedFits ==
  ASSUME Rows(v6), NEW result \in Traffic!Results, result.steps # <<>>
  PROVE  Rows(Traffic!Noted(result))
<1> DEFINE host == result.steps[1].host
           others == Traffic!Selected(v6, {i \in DOMAIN v6 : v6[i] # host})
           all == Append(others, host)
           n == Len(others)
<1>1. host \in Hosts
  <2>1. result.steps \in Seq(Traffic!Steps)
    BY DEF Traffic!Results
  <2>2. result.steps[1] \in Traffic!Steps
    BY <2>1, EmptySeq, LenProperties, ElementOfSeq
  <2> QED
    BY <2>2 DEF Traffic!Steps
<1> HIDE DEF host
<1>2. v6 \in Seq(Hosts) /\ Len(v6) \in Nat /\ Len(v6) <= Remembered /\ Remembered \in Nat
      /\ \A i, j \in DOMAIN v6 : v6[i] = v6[j] => i = j
  BY LenProperties, BoundsAssumption DEF Rows
<1>3. /\ others \in Seq(Hosts) /\ n <= Len(v6)
      /\ \E order \in [1..n -> {i \in DOMAIN v6 : v6[i] # host}] :
            /\ \A k \in 1..n : others[k] = v6[order[k]]
            /\ \A k, l \in 1..n : k < l => order[k] # order[l]
  <2> DEFINE I == {i \in DOMAIN v6 : v6[i] # host}
  <2>1. I \in SUBSET DOMAIN v6
    OBVIOUS
  <2> HIDE DEF I
  <2>2. LET e == Traffic!Selected(v6, I)
        IN  /\ e \in Seq(Hosts) /\ Len(e) <= Len(v6)
            /\ \E order \in [1..Len(e) -> I] :
                   /\ \A k \in 1..Len(e) : e[k] = v6[order[k]]
                   /\ \A k, l \in 1..Len(e) : k < l => order[k] # order[l]
    BY <1>2, <2>1, SelectedFits
  <2> QED
    BY <2>2 DEF I
<1> HIDE DEF others
<1>4. n \in Nat
  BY <1>3, LenProperties
<1>5. \A k, l \in 1..n : k < l => others[k] # others[l]
  BY <1>2, <1>3
<1>6. \A k \in 1..n : others[k] # host
  BY <1>3
<1>7. /\ all \in Seq(Hosts) /\ Len(all) = n + 1 /\ all[n + 1] = host
      /\ \A k \in 1..n : all[k] = others[k]
  BY <1>1, <1>3, AppendProperties
<1> HIDE DEF all, n
<1>8. \A k, l \in 1..(n + 1) : k < l => all[k] # all[l]
  <2> SUFFICES ASSUME NEW k \in 1..(n + 1), NEW l \in 1..(n + 1), k < l PROVE all[k] # all[l]
    OBVIOUS
  <2>1. k \in 1..n
    BY <1>4
  <2>2. CASE l = n + 1
    BY <1>6, <1>7, <2>1, <2>2
  <2>3. CASE l # n + 1
    <3>1. l \in 1..n
      BY <1>4, <2>3
    <3> QED
      BY <1>5, <1>7, <2>1, <3>1
  <2> QED
    BY <2>2, <2>3
<1>9. CASE Len(all) <= Remembered
  <2>1. Traffic!Noted(result) = all
    BY <1>9 DEF Traffic!Noted, all, others, host
  <2>2. DOMAIN all = 1..(n + 1)
    BY <1>7, LenProperties
  <2>3. \A i, j \in 1..(n + 1) : all[i] = all[j] => i = j
    BY <1>4, <1>8
  <2> QED
    BY <1>7, <1>9, <2>1, <2>2, <2>3 DEF Rows
<1>10. CASE ~(Len(all) <= Remembered)
  <2> DEFINE rest == Tail(all)
  <2>1. Traffic!Noted(result) = rest
    BY <1>10 DEF Traffic!Noted, all, others, host
  <2>2. all # <<>>
    BY <1>4, <1>7, EmptySeq
  <2>3. /\ rest \in Seq(Hosts) /\ Len(rest) = n
        /\ \A k \in 1..n : rest[k] = all[k + 1]
    BY <1>4, <1>7, <2>2, HeadTailProperties
  <2> HIDE DEF rest
  <2>4. DOMAIN rest = 1..n
    BY <2>3, LenProperties
  <2>5. \A i, j \in 1..n : i < j => rest[i] # rest[j]
    <3> SUFFICES ASSUME NEW i \in 1..n, NEW j \in 1..n, i < j PROVE rest[i] # rest[j]
      OBVIOUS
    <3>1. i + 1 \in 1..(n + 1) /\ j + 1 \in 1..(n + 1) /\ i + 1 < j + 1
      BY <1>4
    <3> QED
      BY <1>8, <2>3, <3>1
  <2>6. \A i, j \in 1..n : rest[i] = rest[j] => i = j
    BY <1>4, <2>5
  <2>7. n <= Remembered
    BY <1>2, <1>3 DEF n
  <2> QED
    BY <2>1, <2>3, <2>4, <2>6, <2>7 DEF Rows
<1> QED
  BY <1>9, <1>10

\* What TariffFits says beyond TariffInv, of the view, the worker and the inbox
Viewed(view, c, box) ==
    /\ view.shown \in Traffic!Results \cup {NoResult}
    /\ view.busy = (c.pc # "none" \/ box # <<>>)
    /\ Len(c.steps) <= Hops
    /\ Traffic!Conclusive(c.result) /\ (c.pc = "ask" => c.result.steps # <<>>)
    /\ box # <<>> => c.pc = "none" /\ Traffic!Conclusive(box[1])

LEMMA TariffFitsWhole ==
  ASSUME Traffic!TariffInv
  PROVE  Traffic!TariffFits <=> v1 \in Traffic!Documents /\ Viewed(v3, v4, v5) /\ Rows(v6)
BY DEF Traffic!TariffInv, Traffic!TariffFits, Traffic!TariffTypeOK, Viewed, Rows

\* A step that leaves the history of the links alone
LEMMA WorkerFits ==
  ASSUME Traffic!TariffInv, Traffic!TariffFits, Traffic!TariffInv', UNCHANGED <<v1, v6>>,
         Viewed(v3', v4', v5')
  PROVE  Traffic!TariffFits'
<1>1. v1 \in Traffic!Documents /\ Rows(v6)
  BY TariffFitsWhole
<1> QED
  BY <1>1 DEF Traffic!TariffInv, Traffic!TariffFits, Traffic!TariffTypeOK, Viewed, Rows,
     Traffic!Documents, Traffic!Conclusive

LEMMA NoWait ==
  ASSUME Traffic!TariffFits, v4.pc # "none"
  PROVE  v5 = <<>> /\ v3.busy = TRUE
BY DEF Traffic!TariffFits, Traffic!TariffTypeOK

LEMMA OutsideFits ==
  ASSUME Traffic!TariffInv, Traffic!TariffFits, Traffic!TariffInv',
         \/ \E document \in Traffic!Documents :
               Traffic!RefreshCatalog(document) \/ Traffic!CacheChanges(document)
         \/ \E to \in Tunnels : Traffic!TunnelMoves(to)
         \/ Traffic!ClearHistory
         \/ UNCHANGED Traffic!tariffVars
  PROVE  Traffic!TariffFits'
<1>1. v1 \in Traffic!Documents /\ Viewed(v3, v4, v5) /\ Rows(v6)
  BY TariffFitsWhole
<1>2. v1' \in Traffic!Documents /\ UNCHANGED <<v3, v5>>
  BY <1>1 DEF Traffic!RefreshCatalog, Traffic!CacheChanges, Traffic!TunnelMoves,
     Traffic!ClearHistory, Traffic!tariffVars
<1>3. v6' = v6 \/ v6' = <<>>
  BY DEF Traffic!RefreshCatalog, Traffic!CacheChanges, Traffic!TunnelMoves,
     Traffic!ClearHistory, Traffic!tariffVars
<1>4. Rows(<<>>)
  BY EmptySeq, BoundsAssumption DEF Rows
<1>5. v4'.pc = v4.pc /\ v4'.steps = v4.steps /\ v4'.result = v4.result
  <2>1. CASE v4' = v4
    BY <2>1
  <2>2. CASE v4' = [v4 EXCEPT !.misled = @ \cup {"moved"}]
    <3>1. v4 \in Traffic!Checks
      BY DEF Traffic!TariffInv
    <3> QED
      BY <2>2, <3>1 DEF Traffic!Checks
  <2> QED
    BY <2>1, <2>2 DEF Traffic!RefreshCatalog, Traffic!CacheChanges, Traffic!TunnelMoves,
       Traffic!ClearHistory, Traffic!tariffVars
<1>6. Viewed(v3, v4, v5)'
  BY <1>1, <1>2, <1>5 DEF Viewed
<1>7. Rows(v6)'
  BY <1>1, <1>3, <1>4 DEF Rows
<1> QED
  BY <1>2, <1>6, <1>7 DEF Traffic!TariffInv, Traffic!TariffFits, Traffic!TariffTypeOK,
     Viewed, Rows, Traffic!Documents, Traffic!Conclusive

LEMMA StartFits ==
  ASSUME Traffic!TariffInv, Traffic!TariffFits, Traffic!TariffInv', NEW link \in Hosts,
         Traffic!Start(link)
  PROVE  Traffic!TariffFits'
<1> DEFINE c == [Traffic!Resting EXCEPT !.pc = "look", !.link = link]
<1>1. /\ v4' = c /\ v3' = [busy |-> TRUE, shown |-> NoResult] /\ ~v3.busy
      /\ UNCHANGED <<v1, v5, v6>>
  BY DEF Traffic!Start
<1>2. c.pc = "look" /\ c.steps = <<>> /\ c.result = NoResult
  BY RestingCheck, Begun
<1> HIDE DEF c
<1>3. v5 = <<>>
  BY <1>1 DEF Traffic!TariffFits, Traffic!TariffTypeOK
<1>4. v3'.busy = TRUE /\ v3'.shown = NoResult
  BY <1>1
<1>5. Len(<<>>) = 0 /\ Hops \in Nat
  BY BoundsAssumption
<1>6. v4'.pc = "look" /\ v4'.steps = <<>> /\ v4'.result = NoResult /\ v5' = <<>>
  BY <1>1, <1>2, <1>3
<1>7. v3'.shown \in Traffic!Results \cup {NoResult} /\ Traffic!Conclusive(v4'.result)
  BY <1>4, <1>6 DEF Traffic!Conclusive
<1>8. Len(v4'.steps) <= Hops
  BY <1>5, <1>6
<1>9. (v4'.pc # "none" \/ v5' # <<>>) = TRUE
  BY <1>6
<1>10. v3'.busy = (v4'.pc # "none" \/ v5' # <<>>)
  BY <1>4, <1>9
<1>11. Viewed(v3', v4', v5')
  BY <1>6, <1>7, <1>8, <1>10 DEF Viewed
<1> QED
  BY <1>1, <1>11, WorkerFits

LEMMA LookFits ==
  ASSUME Traffic!TariffInv, Traffic!TariffFits, Traffic!TariffInv', NEW said \in BOOLEAN,
         NEW auto \in BOOLEAN, NEW traced \in BOOLEAN, NEW detected \in BOOLEAN, NEW bundle,
         Traffic!LookAround(said, auto, traced, detected, bundle)
  PROVE  Traffic!TariffFits'
<1>1. v4.pc = "look" /\ UNCHANGED <<v1, v3, v5, v6>> /\ v4 \in Traffic!Checks
  BY DEF Traffic!LookAround, Traffic!TariffInv
<1>2. v4'.pc = "walk" /\ v4'.steps = v4.steps /\ v4'.result = v4.result
  BY <1>1 DEF Traffic!LookAround, Traffic!Checks
<1>3. Viewed(v3, v4, v5)
  BY TariffFitsWhole
<1>4. v5 = <<>> /\ v3.busy = TRUE
  BY <1>1, NoWait
<1>5. Viewed(v3', v4', v5')
  BY <1>1, <1>2, <1>3, <1>4 DEF Viewed
<1> QED
  BY <1>1, <1>5, WorkerFits

LEMMA VisitFits ==
  ASSUME Traffic!TariffInv, Traffic!TariffFits, Traffic!TariffInv', NEW host \in Hosts,
         NEW addresses \in (SUBSET Blocks) \ {{}}, Traffic!Visit(host, addresses)
  PROVE  Traffic!TariffFits'
<1> DEFINE step == [host |-> host, addresses |-> addresses,
                    registered |-> Traffic!Matches(v4.listed, host, addresses)]
           steps == Append(v4.steps, step)
           result == Traffic!Classified(steps, v4.seen)
<1>1. /\ v4.pc = "walk" /\ UNCHANGED <<v1, v3, v5, v6>>
      /\ \/ Len(steps) < Hops
            /\ \E target \in Hosts : v4' = [v4 EXCEPT !.steps = steps, !.link = target]
         \/ v4' = [v4 EXCEPT !.pc = "ask", !.listed = {}, !.steps = <<>>, !.result = result]
  BY DEF Traffic!Visit
<1>2. v4 \in Traffic!Checks /\ v4.steps \in Seq(Traffic!Steps)
  BY CheckFields DEF Traffic!TariffInv
<1>3. step \in Traffic!Steps
  BY DEF Traffic!Steps, Traffic!Matches
<1> HIDE DEF step
<1>4. steps \in Seq(Traffic!Steps) /\ steps # <<>> /\ Len(steps) \in Nat
  BY <1>2, <1>3, AppendProperties, LenProperties
<1>5. result.steps = steps
  BY DEF Traffic!Classified
<1> HIDE DEF steps, result
<1>6. Viewed(v3, v4, v5) /\ v5 = <<>> /\ v3.busy = TRUE /\ Hops \in Nat /\ Len(<<>>) = 0
  BY <1>1, NoWait, TariffFitsWhole, BoundsAssumption
<1>7. Viewed(v3', v4', v5')
  <2>1. CASE Len(steps) < Hops
             /\ \E target \in Hosts : v4' = [v4 EXCEPT !.steps = steps, !.link = target]
    <3>1. v4'.pc = "walk" /\ v4'.steps = steps /\ v4'.result = v4.result
      BY <1>1, <1>2, <2>1 DEF Traffic!Checks
    <3>2. Len(steps) <= Hops
      BY <1>4, <1>6, <2>1
    <3> QED
      BY <1>1, <1>6, <3>1, <3>2 DEF Viewed
  <2>2. CASE v4' = [v4 EXCEPT !.pc = "ask", !.listed = {}, !.steps = <<>>, !.result = result]
    <3>1. v4'.pc = "ask" /\ v4'.steps = <<>> /\ v4'.result = result
      BY <1>2, <2>2 DEF Traffic!Checks
    <3>2. result # NoResult => result \in Traffic!Results
      BY <3>1, CheckFields DEF Traffic!TariffInv
    <3>3. Traffic!Conclusive(v4'.result) /\ v4'.result.steps # <<>>
      BY <1>4, <1>5, <3>1, <3>2 DEF Traffic!Conclusive
    <3>4. v5' = <<>> /\ v3'.busy = TRUE /\ v3'.shown = v3.shown
      BY <1>1, <1>6
    <3>5. Len(v4'.steps) <= Hops
      BY <1>6, <3>1
    <3> QED
      BY <1>6, <3>1, <3>3, <3>4, <3>5 DEF Viewed
  <2> QED
    BY <1>1, <2>1, <2>2
<1> QED
  BY <1>1, <1>7, WorkerFits

LEMMA ThirdPartyFits ==
  ASSUME Traffic!TariffInv, Traffic!TariffFits, Traffic!TariffInv',
         NEW available \in BOOLEAN, NEW registered \in BOOLEAN,
         Traffic!ThirdParty(available, registered)
  PROVE  Traffic!TariffFits'
<1> DEFINE result == IF available THEN Traffic!Merged(v4.result, registered) ELSE v4.result
<1>1. /\ v4.pc = "ask" /\ v4' = [v4 EXCEPT !.pc = "emit", !.result = result]
      /\ UNCHANGED <<v1, v3, v5, v6>> /\ v4 \in Traffic!Checks
  BY DEF Traffic!ThirdParty, Traffic!TariffInv
<1>2. v4.result \in Traffic!Results
  BY <1>1 DEF Traffic!TariffInv, Traffic!CheckIsHonest
<1>3. Viewed(v3, v4, v5) /\ v5 = <<>> /\ v3.busy = TRUE
  BY <1>1, NoWait, TariffFitsWhole
<1>4. result \in Traffic!Results /\ result.steps = v4.result.steps
  BY <1>2, MergedFields
<1> HIDE DEF result
<1>5. v4'.pc = "emit" /\ v4'.steps = v4.steps /\ v4'.result = result
  BY <1>1 DEF Traffic!Checks
<1>6. Viewed(v3', v4', v5')
  BY <1>1, <1>3, <1>4, <1>5 DEF Viewed, Traffic!Conclusive
<1> QED
  BY <1>1, <1>6, WorkerFits

LEMMA EndsFits ==
  ASSUME Traffic!TariffInv, Traffic!TariffFits, Traffic!TariffInv',
         Traffic!WalkFails \/ Traffic!Emit
  PROVE  Traffic!TariffFits'
<1>1. /\ v4.pc # "none" /\ v4' = Traffic!Resting /\ UNCHANGED <<v1, v3, v6>>
      /\ \E r \in {NoResult, v4.result} : v5' = <<r>>
  BY DEF Traffic!WalkFails, Traffic!Fail, Traffic!Emit
<1>2. PICK r \in {NoResult, v4.result} : v5' = <<r>>
  BY <1>1
<1>3. v5' # <<>> /\ v5'[1] = r
  BY <1>2
<1>4. Viewed(v3, v4, v5) /\ v3.busy = TRUE
  BY <1>1, NoWait, TariffFitsWhole
<1>5. Traffic!Conclusive(r) /\ Traffic!Conclusive(NoResult)
  BY <1>2, <1>4 DEF Viewed, Traffic!Conclusive
<1>6. Len(<<>>) = 0 /\ Hops \in Nat
  BY BoundsAssumption
<1>7. Viewed(v3', v4', v5')
  BY <1>1, <1>3, <1>4, <1>5, <1>6, RestingCheck DEF Viewed
<1> QED
  BY <1>1, <1>7, WorkerFits

LEMMA ShowFits ==
  ASSUME Traffic!TariffInv, Traffic!TariffFits, Traffic!TariffInv', NEW remember \in BOOLEAN,
         Traffic!Show(remember)
  PROVE  Traffic!TariffFits'
<1>1. /\ v5 # <<>> /\ v5' = <<>> /\ v3' = [busy |-> FALSE, shown |-> v5[1]]
      /\ v6' = IF v5[1] # NoResult /\ remember THEN Traffic!Noted(v5[1]) ELSE v6
      /\ UNCHANGED <<v1, v4>>
  BY DEF Traffic!Show
<1>2. v1 \in Traffic!Documents /\ Viewed(v3, v4, v5) /\ Rows(v6)
  BY TariffFitsWhole
<1>3. v4.pc = "none" /\ Traffic!Conclusive(v5[1])
  BY <1>1, <1>2 DEF Viewed
<1>4. v3'.busy = FALSE /\ v3'.shown = v5[1]
  BY <1>1
<1>5. Viewed(v3', v4', v5')
  BY <1>1, <1>2, <1>3, <1>4 DEF Viewed, Traffic!Conclusive
<1>6. Rows(v6')
  BY <1>1, <1>2, <1>3, NotedFits DEF Traffic!Conclusive
<1> QED
  BY <1>1, <1>2, <1>5, <1>6 DEF Traffic!TariffInv, Traffic!TariffFits, Traffic!TariffTypeOK,
     Viewed, Rows, Traffic!Documents, Traffic!Conclusive

LEMMA TariffNextFits ==
  ASSUME Traffic!TariffInv, Traffic!TariffFits, Traffic!TariffInv',
         Traffic!TariffNext \/ UNCHANGED Traffic!tariffVars
  PROVE  Traffic!TariffFits'
<1>1. ASSUME NEW said \in BOOLEAN, NEW auto \in BOOLEAN, NEW traced \in BOOLEAN,
             NEW detected \in BOOLEAN, NEW bundle \in Traffic!Documents,
             Traffic!LookAround(said, auto, traced, detected, bundle)
      PROVE  Traffic!TariffFits'
  BY <1>1, LookFits
<1>2. ASSUME NEW available \in BOOLEAN, NEW registered \in BOOLEAN,
             Traffic!ThirdParty(available, registered)
      PROVE  Traffic!TariffFits'
  BY <1>2, ThirdPartyFits
<1>3. ASSUME NEW remember \in BOOLEAN, Traffic!Show(remember)
      PROVE  Traffic!TariffFits'
  BY <1>3, ShowFits
<1>4. CASE \/ \E document \in Traffic!Documents :
                Traffic!RefreshCatalog(document) \/ Traffic!CacheChanges(document)
           \/ \E to \in Tunnels : Traffic!TunnelMoves(to)
           \/ Traffic!ClearHistory
           \/ UNCHANGED Traffic!tariffVars
  BY <1>4, OutsideFits
<1>5. CASE \E host \in Hosts : Traffic!Start(host)
  BY <1>5, StartFits
<1>6. CASE \E host \in Hosts, addresses \in (SUBSET Blocks) \ {{}} :
              Traffic!Visit(host, addresses)
  BY <1>6, VisitFits
<1>7. CASE Traffic!WalkFails \/ Traffic!Emit
  BY <1>7, EndsFits
<1> QED
  BY <1>1, <1>2, <1>3, <1>4, <1>5, <1>6, <1>7 DEF Traffic!TariffNext, Tunnels

LEMMA TariffInitFits == Traffic!TariffInit => Traffic!TariffFits
<1> SUFFICES ASSUME Traffic!TariffInit PROVE Traffic!TariffFits
  OBVIOUS
<1>1. /\ v1 = NoDocument /\ v2 = "none" /\ v4 = Traffic!Resting /\ v5 = <<>> /\ v6 = <<>>
      /\ v3.busy = FALSE /\ v3.shown = NoResult
  BY DEF Traffic!TariffInit
<1>2. <<>> \in Seq(Hosts) /\ Len(<<>>) = 0 /\ DOMAIN <<>> = {}
  BY EmptySeq
<1>3. v4.pc = "none" /\ v4.steps = <<>> /\ v4.result = NoResult /\ v4 \in Traffic!Checks
  BY <1>1, RestingCheck
<1>4. Len(v4.steps) <= Hops /\ Len(v6) <= Remembered
  BY <1>1, <1>2, <1>3, BoundsAssumption
<1>5. v3.busy = (v4.pc # "none" \/ v5 # <<>>)
  BY <1>1, <1>3
<1>6. Traffic!TariffTypeOK
  BY <1>1, <1>2, <1>3, <1>4, <1>5 DEF Traffic!TariffTypeOK, Traffic!Documents
<1> QED
  BY <1>1, <1>3, <1>6 DEF Traffic!TariffFits, Traffic!Conclusive

LEMMA TariffFitting == Spec => [](part = "tariff" => Traffic!TariffFits)
<1>1. Init => (part = "tariff" => Traffic!TariffFits)
  BY TariffInitFits DEF Init
<1>2. /\ part = "tariff" => Traffic!TariffInv
      /\ (part = "tariff" => Traffic!TariffInv)'
      /\ part = "tariff" => Traffic!TariffFits
      /\ [Next]_vars
      => (part = "tariff" => Traffic!TariffFits)'
  BY PartSteps, TariffNextFits
<1> QED
  BY <1>1, <1>2, TariffInvariance, PTL DEF Spec

-------------------------------------------------------------------------------
(***************************************************************************)
(* The types of all parts                                                  *)
(***************************************************************************)
Parts == {"game", "warp", "updates", "journal", "budget", "memory", "tariff", "learning",
          "gate", "blackbox", "consent", "files", "journey", "monitors", "ranking"}

LEMMA OneOfTheParts == Spec => [](part \in Parts)
<1>1. Init => part \in Parts
  BY DEF Init, Parts
<1>2. part \in Parts /\ [Next]_vars => (part \in Parts)'
  BY PartSteps
<1> QED
  BY <1>1, <1>2, PTL DEF Spec

\* The types of the parts whose proofs are in GameProofs and here, of those in
\* UpdatesProofs, and of those in DesktopProofs
HereTyped == /\ part = "game" => Game!TypeOK
             /\ part = "warp" => Warp!TypeOK
             /\ part = "memory" => Memory!MemoryTypeOK
             /\ part = "ranking" => Rank!RankTypeOK
             /\ part = "tariff" => Traffic!TariffTypeOK
ThereTyped == /\ part = "updates" => Update!UpdatesTypeOK
              /\ part = "journey" => Flow!JourneyTypeOK
              /\ part = "journal" => Recovery!JournalTypeOK
              /\ part = "budget" => Budget!BudgetTypeOK
              /\ part = "learning" => Learning!LearnTypeOK
FurtherTyped == /\ part = "gate" => Gate!GateTypeOK
                /\ part = "blackbox" => Box!BoxTypeOK
                /\ part = "consent" => Lookup!ConsentTypeOK
                /\ part = "files" => Store!FilesTypeOK
                /\ part = "monitors" => Watch!MonitorTypeOK

LEMMA HereIsTyped == Spec => []HereTyped
<1>1. /\ IGame => (part = "game" => Game!TypeOK)
      /\ IWarp => (part = "warp" => Warp!TypeOK)
      /\ Memory!MemoryInv => Memory!MemoryTypeOK
      /\ Rank!RankInv => Rank!RankTypeOK
      /\ Traffic!TariffFits => Traffic!TariffTypeOK
  BY DEF IGame, Game!GameInv, IWarp, Warp!WarpInv, Memory!MemoryInv, Rank!RankInv,
     Traffic!TariffFits
<1>2. /\ IGame /\ IWarp
      /\ part = "memory" => Memory!MemoryInv
      /\ part = "ranking" => Rank!RankInv
      /\ part = "tariff" => Traffic!TariffFits
      => HereTyped
  BY <1>1 DEF HereTyped
<1> QED
  BY <1>2, GameInvariance, WarpInvariance, MemoryInvariance, RankInvariance, TariffFitting,
     PTL

LEMMA ThereIsTyped == Spec => []ThereTyped
<1>1. /\ Update!UpdatesInv => Update!UpdatesTypeOK
      /\ Flow!JourneyInv /\ Flow!JourneyFits => Flow!JourneyTypeOK
      /\ Recovery!JournalInv => Recovery!JournalTypeOK
      /\ Budget!BudgetInv => Budget!BudgetTypeOK
      /\ Learning!LearnInv => Learning!LearnTypeOK
  BY JourneyTypes DEF Update!UpdatesInv, Recovery!JournalInv, Budget!BudgetInv,
     Learning!LearnInv
<1>2. /\ part = "updates" => Update!UpdatesInv
      /\ part = "journey" => Flow!JourneyInv /\ Flow!JourneyFits
      /\ part = "journal" => Recovery!JournalInv
      /\ part = "budget" => Budget!BudgetInv
      /\ part = "learning" => Learning!LearnInv
      => ThereTyped
  BY <1>1 DEF ThereTyped
<1> QED
  BY <1>2, UpdatesInvariance, JourneyFitting, JournalInvariance, BudgetInvariance,
     LearnInvariance, PTL

LEMMA FurtherIsTyped == Spec => []FurtherTyped
<1>1. /\ Gate!GateInv => Gate!GateTypeOK
      /\ Box!BoxInv => Box!BoxTypeOK
      /\ Lookup!ConsentInv => Lookup!ConsentTypeOK
      /\ Store!FilesInv => Store!FilesTypeOK
      /\ Watch!MonitorInv => Watch!MonitorTypeOK
  BY DEF Gate!GateInv, Box!BoxInv, Lookup!ConsentInv, Store!FilesInv, Watch!MonitorInv
<1>2. /\ part = "gate" => Gate!GateInv
      /\ part = "blackbox" => Box!BoxInv
      /\ part = "consent" => Lookup!ConsentInv
      /\ part = "files" => Store!FilesInv
      /\ part = "monitors" => Watch!MonitorInv
      => FurtherTyped
  BY <1>1 DEF FurtherTyped
<1> QED
  BY <1>2, GateInvariance, BoxInvariance, ConsentInvariance, FilesInvariance,
     MonitorInvariance, PTL

(***************************************************************************)
(* Every part keeps to its types, for all values of the constants: the     *)
(* journal and the reports stay within their bounds                        *)
(* (recovery_service.py:43, crash_service.py:150), as do the messages that *)
(* wait for the window and the rows that it remembers.                     *)
(***************************************************************************)
THEOREM AllTyped == Spec => []TypeOK
<1>1. part \in Parts /\ HereTyped /\ ThereTyped /\ FurtherTyped => TypeOK
  <2> SUFFICES ASSUME part \in Parts, HereTyped, ThereTyped, FurtherTyped PROVE TypeOK
    OBVIOUS
  <2>1. CASE part = "game"
    BY <2>1 DEF HereTyped, TypeOK
  <2>2. CASE part = "ranking"
    BY <2>2 DEF HereTyped, TypeOK
  <2>3. CASE part \in {"warp", "memory", "tariff"}
    BY <2>3 DEF HereTyped, TypeOK
  <2>4. CASE part \in {"updates", "journey", "journal", "budget", "learning"}
    BY <2>4 DEF ThereTyped, TypeOK
  <2>5. CASE part \in {"gate", "blackbox", "consent", "files", "monitors"}
    BY <2>5 DEF FurtherTyped, TypeOK
  <2> QED
    BY <2>1, <2>2, <2>3, <2>4, <2>5 DEF Parts
<1> QED
  BY <1>1, OneOfTheParts, HereIsTyped, ThereIsTyped, FurtherIsTyped, PTL
===============================================================================
