----------------------------- MODULE UpdatesProofs -----------------------------
(***************************************************************************)
(* Proofs about the updates (Updates), the journeys (Journey) and the      *)
(* tariff check (Tariff), as parts of Desktop, and about what the window   *)
(* tells of them and of the route (DesktopProofs).  In Updates v1 to v11   *)
(* are part, final, thread, cancel, dialog, manifest, path, results,       *)
(* gaming, verified and twice.                                             *)
(***************************************************************************)
EXTENDS DesktopProofs

Work == [pc : {"none", "begin", "connect", "read"}, of : Releases \cup {None},
         total : 0..Size, sound : BOOLEAN]

LEMMA UpdateSteps ==
  ASSUME [Next]_vars
  PROVE  /\ part' = part
         /\ part = "updates" => Update!UpdatesNext \/ UNCHANGED Update!updatesVars
BY DEF Next, vars, GameStep, WarpStep, UpdateStep, RecoveryStep, BudgetStep,
   MemoryStep, TrafficStep, LearningStep, GateStep, BoxStep, LookupStep,
   StoreStep, FlowStep, WatchStep, RankStep, Update!updatesVars

-------------------------------------------------------------------------------
(***************************************************************************)
(* The states                                                              *)
(***************************************************************************)
LEMMA IdleFields ==
  /\ Update!Idle \in Work /\ Update!Idle.pc = "none" /\ Update!Idle.of = None
  /\ Update!Idle.total = 0 /\ Update!Idle.sound = TRUE
BY ReleasesAssumption DEF Update!Idle, Work

LEMMA BytesFields ==
  /\ \A f \in Update!Bytes : /\ f # NoFile /\ f.size \in 0..Size + 1 /\ f.right \in BOOLEAN
  /\ \A size \in 0..Size + 1, right \in BOOLEAN :
        LET f == [size |-> size, right |-> right]
        IN  f \in Update!Bytes /\ f.size = size /\ f.right = right
BY ReleasesAssumption DEF Update!Bytes

\* What is spoilt is a file, but not a release.
LEMMA SpoiltFields ==
  /\ Update!Spoilt \in Update!Bytes /\ Update!Spoilt # NoFile
  /\ Update!Spoilt.size # Size
  /\ ~Update!Exact(Update!Spoilt)
<1>1. Update!Spoilt \in Update!Bytes /\ Update!Spoilt.size = 0
  <2>1. 0 \in 0..Size + 1 /\ FALSE \in BOOLEAN
    BY ReleasesAssumption
  <2> QED
    BY <2>1, BytesFields DEF Update!Spoilt
<1> QED
  BY <1>1, BytesFields, ReleasesAssumption DEF Update!Exact

LEMMA Typed ==
  ASSUME Update!UpdatesTypeOK
  PROVE  /\ v1 \in [Releases -> Update!Bytes \cup {NoFile}]
         /\ v2 \in [Releases -> Update!Bytes \cup {NoFile}]
         /\ v3 \in [Threads -> Work]
         /\ \A t \in Threads : /\ v3[t] \in Work
                               /\ v3[t].pc \in {"none", "begin", "connect", "read"}
                               /\ v3[t].of \in Releases \cup {None}
                               /\ v3[t].total \in 0..Size /\ v3[t].sound \in BOOLEAN
BY DEF Update!UpdatesTypeOK, Update!File, Work

LEMMA HasRelease ==
  ASSUME Update!UpdatesTypeOK, Update!WorkHasFile, NEW t \in Threads
  PROVE  /\ v3[t].pc # "none" => v3[t].of \in Releases /\ v3[t].of # None
         /\ v3[t].pc = "none" => v3[t].of = None
         /\ v3[t].pc = "read" => v1[v3[t].of] # NoFile
<1>1. /\ v3[t].of = None <=> v3[t].pc = "none"
      /\ v3[t].pc = "read" => v1[v3[t].of] # NoFile
  BY DEF Update!WorkHasFile
<1>2. v3[t].of \in Releases \cup {None}
  BY Typed
<1> QED
  BY <1>1, <1>2

\* The type, of a step that changes threads and files
LEMMA TypeStep ==
  ASSUME v1' \in [Releases -> Update!Bytes \cup {NoFile}],
         v2' \in [Releases -> Update!Bytes \cup {NoFile}],
         v3' \in [Threads -> Work],
         v8' \in SUBSET (Threads \X Update!Outcomes \X Releases),
         Update!UpdatesTypeOK,
         UNCHANGED <<v4, v5, v6, v7, v9, v10, v11>>
  PROVE  Update!UpdatesTypeOK'
BY DEF Update!UpdatesTypeOK, Update!File, Work

\* A result that is added
LEMMA FetchedMore ==
  ASSUME NEW t \in Threads, NEW outcome \in Update!Outcomes, NEW r \in Releases,
         v8' = v8 \cup {<<t, outcome, r>>}
  PROVE  Update!Fetched' \subseteq Update!Fetched \cup (IF outcome = "ok" THEN {r} ELSE {})
BY DEF Update!Fetched

-------------------------------------------------------------------------------
(***************************************************************************)
(* The worker threads                                                      *)
(***************************************************************************)
\* A download ends: its part may go, if nobody else has it open, and the installer
\* may come; with "ok" it is there.
LEMMA ThreadEndsInv ==
  ASSUME Update!UpdatesInv, NEW t \in Threads, NEW outcome \in Update!Outcomes,
         v3[t].pc # "none", Update!End(t, outcome),
         UNCHANGED <<v4, v5, v6, v7, v9, v10, v11>>,
         v1' \in [Releases -> Update!Bytes \cup {NoFile}],
         v2' \in [Releases -> Update!Bytes \cup {NoFile}],
         \A r \in Releases : r # v3[t].of => v1'[r] = v1[r] /\ v2'[r] = v2[r],
         Update!OpenByOther(t) => v1'[v3[t].of] = v1[v3[t].of],
         \/ v11
         \/ v2'[v3[t].of] = v2[v3[t].of] /\ outcome # "ok"
         \/ Update!Exact(v2'[v3[t].of])
  PROVE  Update!UpdatesInv'
<1> USE ReleasesAssumption DEF Update!UpdatesInv
<1> DEFINE of == v3[t].of
<1>1. /\ v3' = [v3 EXCEPT ![t] = Update!Idle]
      /\ v8' = v8 \cup {<<t, outcome, of>>}
  BY DEF Update!End
<1>2. of \in Releases /\ of # None
  BY HasRelease
<1>3. \A q \in Threads : v3'[q] = IF q = t THEN Update!Idle ELSE v3[q]
  BY <1>1, Typed
<1>4. v3' \in [Threads -> Work]
  BY <1>1, Typed, IdleFields
<1>5. v8' \in SUBSET (Threads \X Update!Outcomes \X Releases)
  <2>1. <<t, outcome, of>> \in Threads \X Update!Outcomes \X Releases
    BY <1>2
  <2> HIDE DEF of
  <2> QED
    BY <1>1, <2>1 DEF Update!UpdatesTypeOK
<1>6. Update!UpdatesTypeOK'
  BY <1>4, <1>5, TypeStep
<1>7. Update!WorkHasFile'
  <2>1. ASSUME NEW q \in Threads
        PROVE  /\ v3'[q].of = None <=> v3'[q].pc = "none"
               /\ v3'[q].pc = "read" => v1'[v3'[q].of] # NoFile
    <3>1. CASE q = t
      BY <1>3, <3>1, IdleFields
    <3>2. CASE q # t
      <4>1. v3'[q] = v3[q]
        BY <1>3, <3>2
      <4>2. v3[q].pc = "read" => v1[v3[q].of] # NoFile /\ v3[q].of \in Releases
        BY HasRelease
      <4>3. v3[q].pc = "read" /\ v3[q].of = of => Update!OpenByOther(t)
        BY <3>2 DEF Update!OpenByOther
      <4> HIDE DEF of
      <4>4. v3[q].pc = "read" => v1'[v3[q].of] = v1[v3[q].of]
        BY <4>2, <4>3 DEF of
      <4> QED
        BY <4>1, <4>2, <4>4, HasRelease
    <3> QED
      BY <3>1, <3>2
  <2> QED
    BY <2>1 DEF Update!WorkHasFile
<1>8. Update!DownloadingIsAlive'
  <2>1. v8' # {}
    BY <1>1
  <2> QED
    BY <2>1 DEF Update!DownloadingIsAlive
<1>9. ASSUME ~v11 PROVE Update!OneDownloads'
  <2>1. \A s \in Threads : s # t => v3[s].of # of
    BY <1>9 DEF Update!OneDownloads
  <2>2. ASSUME NEW q \in Threads, q # t, v3[q].pc # "none"
        PROVE  v1'[v3[q].of] = v1[v3[q].of]
    <3>1. v3[q].of \in Releases /\ v3[q].of # of
      BY <2>1, <2>2, HasRelease
    <3> QED
      BY <3>1
  <2>3. \A q \in Threads : v3[q].pc # "none" => v3[q].of # None
    BY HasRelease
  <2>4. ASSUME NEW r \in Threads, NEW q \in Threads, v3'[q].pc # "none",
               v3'[r].of = v3'[q].of
        PROVE  r = q
    BY <1>3, <1>9, <2>3, <2>4, IdleFields DEF Update!OneDownloads
  <2>5. ASSUME NEW q \in Threads,
               v3'[q].pc = "read" \/ (v3'[q].pc = "connect" /\ v3'[q].total > 0)
        PROVE  Update!Matches(q)'
    <3>1. q # t /\ v3'[q] = v3[q]
      BY <1>3, <2>5, IdleFields
    <3>2. v1'[v3[q].of] = v1[v3[q].of]
      BY <2>2, <2>5, <3>1
    <3>3. Update!Matches(q)
      BY <1>9, <2>5, <3>1 DEF Update!OneDownloads
    <3> QED
      BY <3>1, <3>2, <3>3 DEF Update!Matches
  <2> QED
    BY <2>4, <2>5 DEF Update!OneDownloads
<1>10. ASSUME ~v11 PROVE Update!FetchedIsRight'
  <2>1. Update!Fetched' \subseteq Update!Fetched \cup (IF outcome = "ok" THEN {of} ELSE {})
    BY <1>1, <1>2, FetchedMore
  <2>2. \/ v2'[of] = v2[of] /\ outcome # "ok"
        \/ Update!Exact(v2'[of])
    BY <1>10
  <2>3. \A r \in Releases : r # of => v2'[r] = v2[r]
    OBVIOUS
  <2>4. v10 \in Releases \cup {None} /\ v7 \in Releases \cup {None}
        /\ Update!Fetched \subseteq Releases
    BY DEF Update!UpdatesTypeOK, Update!Fetched
  <2> HIDE DEF of
  <2>5. \A r \in Releases : \/ v2'[r] = v2[r] /\ (r \in Update!Fetched' => r \in Update!Fetched)
                            \/ Update!Exact(v2'[r])
    BY <2>1, <2>2, <2>3
  <2>6. Update!Fetched' \subseteq Releases
    BY <1>2, <2>1, <2>4
  <2> QED
    BY <1>10, <2>4, <2>5, <2>6 DEF Update!FetchedIsRight, Update!Exact
<1> QED
  BY <1>6, <1>7, <1>8, <1>9, <1>10

\* A download goes on, with a part of the length and the kind that it takes it for,
\* unless it does not look at it.
LEMMA GoesOnInv ==
  ASSUME Update!UpdatesInv, NEW t \in Threads, NEW e \in Work,
         v3[t].pc # "none", e.pc \in {"connect", "read"}, e.of = v3[t].of,
         v3' = [v3 EXCEPT ![t] = e],
         UNCHANGED <<v4, v5, v6, v7, v8, v9, v10, v11>>,
         v1' \in [Releases -> Update!Bytes \cup {NoFile}],
         v2' \in [Releases -> Update!Bytes \cup {NoFile}],
         \A r \in Releases : r # e.of => v1'[r] = v1[r] /\ v2'[r] = v2[r],
         e.pc = "read" \/ Update!OpenByOther(t) => v1'[e.of] # NoFile,
         v11 \/ (e.pc = "connect" /\ e.total = 0) \/ Update!Matches(t)',
         \/ v2'[e.of] = v2[e.of]
         \/ v2[e.of] # Update!Spoilt /\ ~Update!Exact(v2[e.of])
  PROVE  Update!UpdatesInv'
<1> USE ReleasesAssumption DEF Update!UpdatesInv
<1>1. e.of \in Releases /\ e.of # None
  BY HasRelease
<1>2. \A q \in Threads : v3'[q] = IF q = t THEN e ELSE v3[q]
  BY Typed
<1>3. v3' \in [Threads -> Work]
  BY Typed
<1>4. Update!UpdatesTypeOK'
  <2>1. v8' \in SUBSET (Threads \X Update!Outcomes \X Releases)
    BY DEF Update!UpdatesTypeOK
  <2> QED
    BY <1>3, <2>1, TypeStep
<1>5. Update!WorkHasFile'
  <2>1. ASSUME NEW q \in Threads
        PROVE  /\ v3'[q].of = None <=> v3'[q].pc = "none"
               /\ v3'[q].pc = "read" => v1'[v3'[q].of] # NoFile
    <3>1. CASE q = t
      BY <1>1, <1>2, <3>1
    <3>2. CASE q # t
      <4>1. v3'[q] = v3[q]
        BY <1>2, <3>2
      <4>2. v3[q].pc = "read" => v1[v3[q].of] # NoFile /\ v3[q].of \in Releases
        BY HasRelease
      <4>3. v3[q].pc = "read" /\ v3[q].of = e.of => v1'[e.of] # NoFile
        BY <3>2 DEF Update!OpenByOther
      <4>4. v3[q].pc = "read" => v1'[v3[q].of] # NoFile
        BY <4>2, <4>3
      <4> QED
        BY <4>1, <4>4, HasRelease
    <3> QED
      BY <3>1, <3>2
  <2> QED
    BY <2>1 DEF Update!WorkHasFile
<1>6. Update!DownloadingIsAlive'
  BY <1>2 DEF Update!DownloadingIsAlive
<1>7. ASSUME ~v11 PROVE Update!OneDownloads'
  <2>1. \A s \in Threads : s # t => v3[s].of # e.of
    BY <1>7 DEF Update!OneDownloads
  <2>2. ASSUME NEW q \in Threads, q # t, v3[q].pc # "none"
        PROVE  v1'[v3[q].of] = v1[v3[q].of]
    <3>1. v3[q].of \in Releases /\ v3[q].of # e.of
      BY <2>1, <2>2, HasRelease
    <3> QED
      BY <3>1
  <2>3. ASSUME NEW r \in Threads, NEW q \in Threads, v3'[q].pc # "none",
               v3'[r].of = v3'[q].of
        PROVE  r = q
    BY <1>2, <1>7, <2>1, <2>3 DEF Update!OneDownloads
  <2>4. ASSUME NEW q \in Threads,
               v3'[q].pc = "read" \/ (v3'[q].pc = "connect" /\ v3'[q].total > 0)
        PROVE  Update!Matches(q)'
    <3>1. CASE q = t
      <4>1. v3'[q] = e
        BY <1>2, <3>1
      <4>2. ~(e.pc = "connect" /\ e.total = 0)
        BY <2>4, <4>1
      <4> QED
        BY <1>7, <3>1, <4>2
    <3>2. CASE q # t
      <4>1. v3'[q] = v3[q]
        BY <1>2, <3>2
      <4>2. v1'[v3[q].of] = v1[v3[q].of]
        BY <2>2, <2>4, <3>2, <4>1
      <4>3. Update!Matches(q)
        BY <1>7, <2>4, <4>1 DEF Update!OneDownloads
      <4> QED
        BY <4>1, <4>2, <4>3 DEF Update!Matches
    <3> QED
      BY <3>1, <3>2
  <2> QED
    BY <2>3, <2>4 DEF Update!OneDownloads
<1>8. ASSUME ~v11 PROVE Update!FetchedIsRight'
  <2>1. Update!Fetched' = Update!Fetched /\ v7' = v7 /\ v10' = v10
    BY DEF Update!Fetched
  <2>2. v10 \in Releases \cup {None} /\ v7 \in Releases \cup {None}
        /\ Update!Fetched \subseteq Releases
    BY DEF Update!UpdatesTypeOK, Update!Fetched
  <2>3. Update!FetchedIsRight
    BY <1>8
  <2>4. \A r \in Releases : \/ v2'[r] = v2[r]
                            \/ v2[r] # Update!Spoilt /\ ~Update!Exact(v2[r])
    OBVIOUS
  <2> QED
    BY <2>1, <2>2, <2>3, <2>4 DEF Update!FetchedIsRight, Update!Exact
<1> QED
  BY <1>4, <1>5, <1>6, <1>7, <1>8

LEMMA BeginInv ==
  ASSUME Update!UpdatesInv, NEW t \in Threads, Update!Begin(t)
  PROVE  Update!UpdatesInv'
<1> USE ReleasesAssumption DEF Update!UpdatesInv
<1> DEFINE r == v3[t].of
           kept == v1[r] # NoFile /\ v1[r].size <= Size
           e == [v3[t] EXCEPT !.pc = "connect",
                              !.total = IF kept THEN v1[r].size ELSE 0,
                              !.sound = IF kept THEN v1[r].right ELSE TRUE]
<1>1. v3[t].pc = "begin" /\ UNCHANGED <<v4, v5, v6, v7, v9, v10, v11>>
  BY DEF Update!Begin, Update!Window
<1>2. r \in Releases /\ r # None
  BY <1>1, HasRelease
<1>3. /\ v1 \in [Releases -> Update!Bytes \cup {NoFile}]
      /\ v2 \in [Releases -> Update!Bytes \cup {NoFile}]
  BY Typed
<1>4. CASE Update!Exact(v2[r])
  <2>1. Update!End(t, "ok") /\ v1' = v1 /\ v2' = v2
    BY <1>4 DEF Update!Begin, Update!Files
  <2>2. "ok" \in Update!Outcomes
    BY DEF Update!Outcomes
  <2>3. Update!Exact(v2'[v3[t].of])
    BY <1>4, <2>1
  <2> QED
    BY <1>1, <1>3, <2>1, <2>2, <2>3, ThreadEndsInv
<1>5. CASE ~Update!Exact(v2[r])
  <2> DEFINE spent == v2[r] # NoFile /\ v2[r].size = Size
  <2>1. v2' = IF spent THEN [v2 EXCEPT ![r] = NoFile] ELSE v2
    BY <1>5 DEF Update!Begin, Update!Delete
  <2>2. /\ v2' \in [Releases -> Update!Bytes \cup {NoFile}]
        /\ \A q \in Releases : q # r => v2'[q] = v2[q]
        /\ v2'[r] = v2[r] \/ v2[r] # Update!Spoilt
    BY <1>3, <2>1, SpoiltFields
  <2>3. CASE v1[r] # NoFile /\ ~kept /\ Update!OpenByOther(t)
    <3>1. Update!End(t, "error") /\ v1' = v1
      BY <1>5, <2>3 DEF Update!Begin
    <3>2. v11
      BY <1>1, <2>3 DEF Update!OpenByOther, Update!OneDownloads
    <3>3. "error" \in Update!Outcomes
      BY DEF Update!Outcomes
    <3> QED
      BY <1>1, <1>3, <2>2, <3>1, <3>2, <3>3, ThreadEndsInv
  <2>4. CASE ~(v1[r] # NoFile /\ ~kept /\ Update!OpenByOther(t))
    <3>1. /\ v1' = IF kept THEN v1 ELSE [v1 EXCEPT ![r] = NoFile]
          /\ v3' = [v3 EXCEPT ![t] = e] /\ v8' = v8
      BY <1>5, <2>4 DEF Update!Begin, Update!Delete
    <3>2. v3[t] \in Work /\ v1[r] \in Update!Bytes \cup {NoFile}
      BY <1>2, <1>3, Typed
    <3>3. /\ e \in Work /\ e.pc = "connect" /\ e.of = r
          /\ e.total = IF kept THEN v1[r].size ELSE 0
          /\ e.sound = IF kept THEN v1[r].right ELSE TRUE
      <4> DEFINE total == IF kept THEN v1[r].size ELSE 0
                 sound == IF kept THEN v1[r].right ELSE TRUE
      <4>1. total \in 0..Size /\ sound \in BOOLEAN
        <5>1. kept => v1[r].size \in 0..Size + 1 /\ v1[r].right \in BOOLEAN
          BY <3>2, BytesFields
        <5>2. kept => v1[r].size <= Size
          OBVIOUS
        <5> HIDE DEF kept
        <5>3. CASE kept
          BY <5>1, <5>2, <5>3
        <5>4. CASE ~kept
          BY <5>4
        <5> QED
          BY <5>3, <5>4
      <4> HIDE DEF total, sound, kept
      <4>2. e = [v3[t] EXCEPT !.pc = "connect", !.total = total, !.sound = sound]
        BY DEF total, sound
      <4>3. /\ e \in Work /\ e.pc = "connect" /\ e.of = r
            /\ e.total = total /\ e.sound = sound
        BY <3>2, <4>1, <4>2 DEF Work
      <4> QED
        BY <4>3 DEF total, sound
    <3> HIDE DEF e
    <3>4. /\ v1' \in [Releases -> Update!Bytes \cup {NoFile}]
          /\ \A q \in Releases : q # r => v1'[q] = v1[q]
          /\ kept => v1'[r] = v1[r]
      BY <1>3, <3>1
    <3>5. Update!OpenByOther(t) => kept
      <4>1. Update!OpenByOther(t) => v1[r] # NoFile
        BY HasRelease DEF Update!OpenByOther
      <4> QED
        BY <2>4, <4>1
    <3>6. (e.pc = "connect" /\ e.total = 0) \/ Update!Matches(t)'
      <4>1. v3'[t] = e
        BY <3>1, Typed
      <4> QED
        BY <3>3, <3>4, <4>1 DEF Update!Matches
    <3>7. e.pc = "read" \/ Update!OpenByOther(t) => v1'[e.of] # NoFile
      BY <3>3, <3>4, <3>5
    <3>8. \/ v2'[e.of] = v2[e.of]
          \/ v2[e.of] # Update!Spoilt /\ ~Update!Exact(v2[e.of])
      BY <1>5, <2>2, <3>3
    <3>9. \A q \in Releases : q # e.of => v1'[q] = v1[q] /\ v2'[q] = v2[q]
      BY <2>2, <3>3, <3>4
    <3> HIDE DEF r, kept
    <3>10. e.of = v3[t].of
      BY <3>3 DEF r
    <3> QED
      BY <1>1, <2>2, <3>1, <3>3, <3>4, <3>6, <3>7, <3>8, <3>9, <3>10, GoesOnInv
  <2> QED
    BY <2>3, <2>4
<1> QED
  BY <1>4, <1>5

\* A download that ends without an installer: its part stays, or is deleted.
LEMMA GivesUpInv ==
  ASSUME Update!UpdatesInv, NEW t \in Threads, v3[t].pc # "none",
         Update!End(t, "error") \/ Update!End(t, "cancelled"),
         v1' = v1 \/ v1' = Update!Unlinked(t),
         UNCHANGED <<v2, v4, v5, v6, v7, v9, v10, v11>>
  PROVE  Update!UpdatesInv'
<1> USE DEF Update!UpdatesInv
<1>1. /\ v1 \in [Releases -> Update!Bytes \cup {NoFile}]
      /\ v2 \in [Releases -> Update!Bytes \cup {NoFile}]
  BY Typed
<1>2. /\ v1' \in [Releases -> Update!Bytes \cup {NoFile}]
      /\ \A r \in Releases : r # v3[t].of => v1'[r] = v1[r]
      /\ Update!OpenByOther(t) => v1'[v3[t].of] = v1[v3[t].of]
  BY <1>1 DEF Update!Unlinked, Update!Delete
<1>3. "error" \in Update!Outcomes /\ "cancelled" \in Update!Outcomes
  BY DEF Update!Outcomes
<1>4. CASE Update!End(t, "error")
  BY <1>1, <1>2, <1>3, <1>4, ThreadEndsInv
<1>5. CASE Update!End(t, "cancelled")
  BY <1>1, <1>2, <1>3, <1>5, ThreadEndsInv
<1> QED
  BY <1>4, <1>5

LEMMA ConnectInv ==
  ASSUME Update!UpdatesInv, NEW t \in Threads, Update!Connect(t)
  PROVE  Update!UpdatesInv'
<1> USE ReleasesAssumption DEF Update!UpdatesInv
<1> DEFINE r == v3[t].of
           truncated == [v1 EXCEPT ![r] = [size |-> 0, right |-> TRUE]]
<1>1. v3[t].pc = "connect" /\ UNCHANGED <<v2, v4, v5, v6, v7, v9, v10, v11>>
  BY DEF Update!Connect, Update!Window
<1>2. r \in Releases /\ r # None /\ v3[t] \in Work
  BY <1>1, HasRelease, Typed
<1>3. /\ v1 \in [Releases -> Update!Bytes \cup {NoFile}]
      /\ v2 \in [Releases -> Update!Bytes \cup {NoFile}]
  BY Typed
<1> DEFINE empty == [size |-> 0, right |-> TRUE]
<1>4. empty \in Update!Bytes /\ empty # NoFile /\ empty.size = 0 /\ empty.right = TRUE
  <2>1. 0 \in 0..Size + 1 /\ TRUE \in BOOLEAN
    OBVIOUS
  <2> QED
    BY <2>1, BytesFields
<1>5. CASE /\ v3[t].total \in 1..Size - 1
           /\ v3' = [v3 EXCEPT ![t].pc = "read"]
           /\ v1' = IF v1[r] = NoFile THEN truncated ELSE v1
           /\ v8' = v8
  <2> DEFINE e == [v3[t] EXCEPT !.pc = "read"]
  <2>1. v3' = [v3 EXCEPT ![t] = e]
    BY <1>5
  <2>2. /\ e \in Work /\ e.pc = "read" /\ e.of = r
        /\ e.total = v3[t].total /\ e.sound = v3[t].sound
    BY <1>2 DEF Work
  <2> HIDE DEF e, empty
  <2>3. /\ v1' \in [Releases -> Update!Bytes \cup {NoFile}]
        /\ \A q \in Releases : q # r => v1'[q] = v1[q]
        /\ v1'[r] # NoFile
    BY <1>2, <1>3, <1>4, <1>5 DEF empty
  <2>4. v11 \/ Update!Matches(t)'
    <3>1. v3'[t] = e
      BY <2>1, Typed
    <3>2. v11 \/ Update!Matches(t)
      BY <1>1, <1>5 DEF Update!OneDownloads
    <3>3. Update!Matches(t) => v1' = v1
      BY <1>5 DEF Update!Matches
    <3> QED
      BY <2>2, <3>1, <3>2, <3>3 DEF Update!Matches
  <2> HIDE DEF r, truncated
  <2>5. e.of = v3[t].of /\ v1'[e.of] # NoFile /\ v2'[e.of] = v2[e.of]
    BY <1>1, <2>2, <2>3 DEF r
  <2>6. \A q \in Releases : q # e.of => v1'[q] = v1[q] /\ v2'[q] = v2[q]
    BY <1>1, <2>2, <2>3
  <2>7. UNCHANGED <<v4, v5, v6, v7, v8, v9, v10, v11>>
        /\ v2' \in [Releases -> Update!Bytes \cup {NoFile}]
    BY <1>1, <1>3, <1>5
  <2>8. v3[t].pc # "none"
    BY <1>1
  <2> QED
    BY <2>1, <2>2, <2>3, <2>4, <2>5, <2>6, <2>7, <2>8, GoesOnInv
<1>6. CASE /\ v3' = [v3 EXCEPT ![t].pc = "read", ![t].total = 0, ![t].sound = TRUE]
           /\ v1' = truncated /\ v8' = v8
  <2> DEFINE e == [v3[t] EXCEPT !.pc = "read", !.total = 0, !.sound = TRUE]
  <2>1. v3' = [v3 EXCEPT ![t] = e]
    BY <1>6
  <2>2. /\ e \in Work /\ e.pc = "read" /\ e.of = r /\ e.total = 0 /\ e.sound = TRUE
    <3>1. 0 \in 0..Size
      OBVIOUS
    <3> QED
      BY <1>2, <3>1 DEF Work
  <2> HIDE DEF e, empty
  <2>3. /\ v1' \in [Releases -> Update!Bytes \cup {NoFile}]
        /\ \A q \in Releases : q # r => v1'[q] = v1[q]
        /\ v1'[r] = empty
    BY <1>2, <1>3, <1>4, <1>6 DEF empty
  <2>4. Update!Matches(t)'
    <3>1. v3'[t] = e
      BY <2>1, Typed
    <3> QED
      BY <1>4, <2>2, <2>3, <3>1 DEF Update!Matches
  <2> HIDE DEF r, truncated
  <2>5. e.of = v3[t].of /\ v1'[e.of] # NoFile /\ v2'[e.of] = v2[e.of]
    BY <1>1, <1>4, <2>2, <2>3 DEF r
  <2>6. \A q \in Releases : q # e.of => v1'[q] = v1[q] /\ v2'[q] = v2[q]
    BY <1>1, <2>2, <2>3
  <2>7. UNCHANGED <<v4, v5, v6, v7, v8, v9, v10, v11>>
        /\ v2' \in [Releases -> Update!Bytes \cup {NoFile}]
    BY <1>1, <1>3, <1>6
  <2>8. v3[t].pc # "none"
    BY <1>1
  <2> QED
    BY <2>1, <2>2, <2>3, <2>4, <2>5, <2>6, <2>7, <2>8, GoesOnInv
<1>7. CASE Update!End(t, "error") /\ v1' = Update!Unlinked(t)
  BY <1>1, <1>7, GivesUpInv
<1> QED
  BY <1>5, <1>6, <1>7 DEF Update!Connect

LEMMA ReadInv ==
  ASSUME Update!UpdatesInv, NEW t \in Threads, Update!Read(t)
  PROVE  Update!UpdatesInv'
<1> USE ReleasesAssumption DEF Update!UpdatesInv
<1> DEFINE r == v3[t].of
           total == v3[t].total
<1>1. v3[t].pc = "read" /\ UNCHANGED <<v2, v4, v5, v6, v7, v9, v10, v11>>
  BY DEF Update!Read, Update!Window
<1>2. r \in Releases /\ r # None /\ v3[t] \in Work /\ total \in 0..Size
      /\ v3[t].sound \in BOOLEAN
  BY <1>1, HasRelease, Typed
<1>3. /\ v1 \in [Releases -> Update!Bytes \cup {NoFile}]
      /\ v2 \in [Releases -> Update!Bytes \cup {NoFile}]
  BY Typed
<1>4. CASE total = Size
  <2>1. Update!End(t, "error") /\ v1' = Update!Unlinked(t)
    BY <1>4 DEF Update!Read
  <2> QED
    BY <1>1, <2>1, GivesUpInv
<1>5. CASE total # Size
  <2> DEFINE old == v1[r]
             size == IF old.size > Size THEN old.size ELSE old.size + 1
             fine(right) == old.right /\ right /\ old.size = total
                              /\ ~Update!OpenByOther(t)
             file(right) == [size |-> size, right |-> fine(right)]
  <2>1. PICK right \in BOOLEAN :
           /\ v3' = [v3 EXCEPT ![t].total = total + 1, ![t].sound = @ /\ right]
           /\ v1' = [v1 EXCEPT ![r] = file(right)]
           /\ v8' = v8
    BY <1>5 DEF Update!Read
  <2> DEFINE e == [v3[t] EXCEPT !.total = total + 1, !.sound = v3[t].sound /\ right]
             f == file(right)
  <2>2. v3' = [v3 EXCEPT ![t] = e] /\ v1' = [v1 EXCEPT ![r] = f]
    BY <2>1
  <2>3. /\ e \in Work /\ e.pc = "read" /\ e.of = r /\ e.total = total + 1
        /\ e.sound = (v3[t].sound /\ right)
    <3>1. total + 1 \in 0..Size /\ (v3[t].sound /\ right) \in BOOLEAN
      BY <1>2, <1>5
    <3> HIDE DEF total
    <3> QED
      BY <1>1, <1>2, <3>1 DEF Work
  <2>4. /\ old # NoFile /\ old \in Update!Bytes
        /\ old.size \in 0..Size + 1 /\ old.right \in BOOLEAN
    <3>1. old # NoFile
      BY <1>1, HasRelease
    <3> QED
      BY <1>2, <1>3, <3>1, BytesFields
  <2>5. /\ f \in Update!Bytes /\ f # NoFile /\ f.size = size /\ f.right = fine(right)
    <3>1. size \in 0..Size + 1 /\ fine(right) \in BOOLEAN
      BY <2>4
    <3> HIDE DEF size, fine
    <3> QED
      BY <3>1, BytesFields
  <2> HIDE DEF e, f
  <2>6. /\ v1' \in [Releases -> Update!Bytes \cup {NoFile}]
        /\ \A q \in Releases : q # r => v1'[q] = v1[q]
        /\ v1'[r] = f
    BY <1>2, <1>3, <2>2, <2>5
  <2>7. v11 \/ Update!Matches(t)'
    <3> SUFFICES ASSUME ~v11 PROVE Update!Matches(t)'
      OBVIOUS
    <3>1. v3'[t] = e
      BY <2>2, Typed
    <3>2. Update!Matches(t) /\ ~Update!OpenByOther(t)
      BY <1>1 DEF Update!OneDownloads, Update!OpenByOther
    <3>3. f.size = total + 1 /\ f.right = (v3[t].sound /\ right)
      BY <1>2, <2>4, <2>5, <3>2 DEF Update!Matches
    <3> QED
      BY <2>3, <2>5, <2>6, <3>1, <3>3 DEF Update!Matches
  <2> HIDE DEF r, total
  <2>8. e.of = v3[t].of /\ v1'[e.of] # NoFile /\ v2'[e.of] = v2[e.of]
    BY <1>1, <2>3, <2>5, <2>6 DEF r
  <2>9. \A q \in Releases : q # e.of => v1'[q] = v1[q] /\ v2'[q] = v2[q]
    BY <1>1, <2>3, <2>6
  <2>10. UNCHANGED <<v4, v5, v6, v7, v8, v9, v10, v11>>
         /\ v2' \in [Releases -> Update!Bytes \cup {NoFile}]
    BY <1>1, <1>3, <2>1
  <2>11. v3[t].pc # "none" /\ v3' = [v3 EXCEPT ![t] = e]
    BY <1>1, <2>2
  <2> HIDE DEF old
  <2> QED
    BY <2>3, <2>6, <2>7, <2>8, <2>9, <2>10, <2>11, GoesOnInv
<1> QED
  BY <1>4, <1>5

LEMMA CompleteInv ==
  ASSUME Update!UpdatesInv, NEW t \in Threads, Update!Complete(t)
  PROVE  Update!UpdatesInv'
<1> USE ReleasesAssumption DEF Update!UpdatesInv
<1> DEFINE r == v3[t].of
<1>1. v3[t].pc = "read" /\ UNCHANGED <<v4, v5, v6, v7, v9, v10, v11>>
  BY DEF Update!Complete, Update!Window
<1>2. r \in Releases /\ r # None
  BY <1>1, HasRelease
<1>3. /\ v1 \in [Releases -> Update!Bytes \cup {NoFile}]
      /\ v2 \in [Releases -> Update!Bytes \cup {NoFile}]
  BY Typed
<1>4. CASE Update!End(t, "error") /\ v1' = v1 /\ v2' = v2
  BY <1>1, <1>4, GivesUpInv
<1>5. CASE Update!End(t, "error") /\ v1' = Update!Unlinked(t) /\ v2' = v2
  BY <1>1, <1>5, GivesUpInv
<1>6. CASE /\ v3[t].total = Size /\ v3[t].sound /\ ~Update!OpenByOther(t)
           /\ Update!End(t, "ok")
           /\ v2' = [v2 EXCEPT ![r] = v1[r]]
           /\ v1' = [v1 EXCEPT ![r] = NoFile]
  <2>1. v11 \/ Update!Exact(v1[r])
    <3>1. v11 \/ Update!Matches(t)
      BY <1>1 DEF Update!OneDownloads
    <3> QED
      BY <1>6, <3>1 DEF Update!Matches, Update!Exact
  <2>2. /\ v1' \in [Releases -> Update!Bytes \cup {NoFile}]
        /\ v2' \in [Releases -> Update!Bytes \cup {NoFile}]
        /\ \A q \in Releases : q # r => v1'[q] = v1[q] /\ v2'[q] = v2[q]
        /\ v2'[r] = v1[r]
    BY <1>2, <1>3, <1>6
  <2>3. "ok" \in Update!Outcomes
    BY DEF Update!Outcomes
  <2>4. v11 \/ Update!Exact(v2'[r])
    BY <2>1, <2>2
  <2> QED
    BY <1>1, <1>6, <2>2, <2>3, <2>4, ThreadEndsInv
<1> QED
  BY <1>4, <1>5, <1>6 DEF Update!Complete, Update!Files, Update!Delete

-------------------------------------------------------------------------------
(***************************************************************************)
(* The window                                                              *)
(***************************************************************************)
\* What the window does without a download or a file: a dialog is opened only for a
\* manifest, and what was fetched or is about to be started stays so.
LEMMA WindowInv ==
  ASSUME Update!UpdatesInv, UNCHANGED <<v1, v2, v3, v11>>,
         v4' \in BOOLEAN, v9' \in BOOLEAN, v5' \in Update!Phases,
         v6' \in Releases \cup {None}, v7' \in Releases \cup {None},
         v10' \in Releases \cup {None}, v8' \subseteq v8,
         v5' # "closed" => v6' # None,
         v5' = "downloading" => v5 = "downloading" /\ v8' = v8,
         v10' # None => v10' = v10 \/ Update!Exact(v2[v10']),
         v7' \in {v7, None} \cup Update!Fetched
  PROVE  Update!UpdatesInv'
<1> USE DEF Update!UpdatesInv
<1>1. Update!UpdatesTypeOK'
  BY DEF Update!UpdatesTypeOK
<1>2. Update!WorkHasFile'
  BY DEF Update!WorkHasFile
<1>3. Update!DownloadingIsAlive'
  BY DEF Update!DownloadingIsAlive
<1>4. Update!OneDownloads => Update!OneDownloads'
  BY DEF Update!OneDownloads, Update!Matches
<1>5. Update!Fetched' \subseteq Update!Fetched
  BY DEF Update!Fetched
<1>6. Update!FetchedIsRight => Update!FetchedIsRight'
  BY <1>5 DEF Update!FetchedIsRight, Update!Exact
<1> QED
  BY <1>1, <1>2, <1>3, <1>4, <1>6

LEMMA ClicksInv ==
  ASSUME Update!UpdatesInv,
         \/ \E r \in Releases : Update!Offered(r)
         \/ Update!OpenDialog \/ Update!Pause \/ Update!CloseDialog
         \/ Update!Install \/ Update!Refuse \/ Update!Gaming
  PROVE  Update!UpdatesInv'
<1> USE DEF Update!UpdatesInv
<1>1. /\ v4 \in BOOLEAN /\ v9 \in BOOLEAN /\ v5 \in Update!Phases
      /\ v6 \in Releases \cup {None} /\ v7 \in Releases \cup {None}
      /\ v10 \in Releases \cup {None}
      /\ v5 # "closed" => v6 # None
  BY DEF Update!UpdatesTypeOK, Update!WorkHasFile
<1> USE ReleasesAssumption DEF Update!Phases, Update!Files, Update!Window
<1>2. ASSUME NEW r \in Releases, Update!Offered(r) PROVE Update!UpdatesInv'
  BY <1>1, <1>2, WindowInv DEF Update!Offered
<1>3. CASE Update!OpenDialog
  BY <1>1, <1>3, WindowInv DEF Update!OpenDialog
<1>4. CASE Update!Pause
  BY <1>1, <1>4, WindowInv DEF Update!Pause
<1>5. CASE Update!CloseDialog
  <2>1. v4' \in BOOLEAN
    BY <1>1, <1>5 DEF Update!CloseDialog
  <2> QED
    BY <1>1, <1>5, <2>1, WindowInv DEF Update!CloseDialog
<1>6. CASE Update!Install
  <2>1. v10' # None => Update!Exact(v2[v10']) /\ v10' = v7
    BY <1>6 DEF Update!Install
  <2> QED
    BY <1>1, <1>6, <2>1, WindowInv DEF Update!Install
<1>7. CASE Update!Refuse
  BY <1>1, <1>7, WindowInv DEF Update!Refuse
<1>8. CASE Update!Gaming
  BY <1>1, <1>8, WindowInv DEF Update!Gaming
<1> QED
  BY <1>2, <1>3, <1>4, <1>5, <1>6, <1>7, <1>8

LEMMA OnReadyInv ==
  ASSUME Update!UpdatesInv, NEW q \in v8, Update!OnReady(q)
  PROVE  Update!UpdatesInv'
<1> USE DEF Update!UpdatesInv
<1>1. /\ UNCHANGED <<v1, v2, v3, v4, v6, v9, v10, v11>>
      /\ v8' = v8 \ {q}
      /\ v7' = IF q[2] = "ok" THEN q[3] ELSE v7
      /\ v5' = IF v5 = "closed" THEN "closed"
               ELSE IF q[2] = "ok" THEN "ready"
               ELSE IF q[2] = "cancelled" THEN "paused" ELSE "error"
  BY DEF Update!OnReady, Update!Files
<1>2. q[2] \in {"ok", "cancelled", "error"} /\ q[3] \in Releases
  BY DEF Update!UpdatesTypeOK, Update!Outcomes
<1>3. v5' \in {"closed", "ready", "paused", "error"} /\ (v5' # "closed" => v5 # "closed")
  <2>1. CASE v5 = "closed"
    BY <1>1, <2>1
  <2>2. CASE v5 # "closed"
    BY <1>1, <1>2, <2>2
  <2> QED
    BY <2>1, <2>2
<1>4. q[2] = "ok" => q[3] \in Update!Fetched
  BY DEF Update!Fetched
<1>5. /\ v4 \in BOOLEAN /\ v9 \in BOOLEAN
      /\ v6 \in Releases \cup {None} /\ v7 \in Releases \cup {None}
      /\ v10 \in Releases \cup {None}
      /\ v5 # "closed" => v6 # None
  BY DEF Update!UpdatesTypeOK, Update!WorkHasFile
<1>6. v7' \in {v7, None} \cup Update!Fetched /\ v7' \in Releases \cup {None}
  BY <1>1, <1>2, <1>4, <1>5
<1> QED
  BY <1>1, <1>3, <1>5, <1>6, WindowInv DEF Update!Phases

LEMMA DownloadInv ==
  ASSUME Update!UpdatesInv, NEW t \in Threads, Update!Download(t)
  PROVE  Update!UpdatesInv'
<1> USE ReleasesAssumption DEF Update!UpdatesInv
<1>1. /\ v5 \in {"available", "error", "paused"}
      /\ UNCHANGED <<v1, v2, v6, v7, v8, v9, v10>>
  BY DEF Update!Download, Update!Files
<1>2. /\ v6 \in Releases /\ v4 \in BOOLEAN /\ v9 \in BOOLEAN
      /\ v7 \in Releases \cup {None} /\ v10 \in Releases \cup {None}
  BY <1>1 DEF Update!UpdatesTypeOK, Update!WorkHasFile
<1>3. CASE v9
  <2>1. v5' = "error" /\ UNCHANGED <<v3, v4, v11>>
    BY <1>3 DEF Update!Download
  <2> QED
    BY <1>1, <1>2, <2>1, WindowInv DEF Update!Phases
<1>4. CASE ~v9
  <2> DEFINE e == [Update!Idle EXCEPT !.pc = "begin", !.of = v6]
  <2>1. /\ v3[t].pc = "none" /\ v5' = "downloading" /\ v4' = FALSE
        /\ v3' = [v3 EXCEPT ![t] = e]
        /\ v11' = (v11 \/ \E s \in Threads : v3[s].of = v6)
    BY <1>4 DEF Update!Download
  <2>2. e \in Work /\ e.pc = "begin" /\ e.of = v6
    BY <1>2, IdleFields DEF Work
  <2> HIDE DEF e
  <2>3. \A q \in Threads : v3'[q] = IF q = t THEN e ELSE v3[q]
    BY <2>1, Typed
  <2>4. v3' \in [Threads -> Work]
    BY <2>1, <2>2, Typed
  <2>5. Update!UpdatesTypeOK'
    BY <1>1, <2>1, <2>4 DEF Update!UpdatesTypeOK, Update!Phases, Work
  <2>6. Update!WorkHasFile'
    BY <1>1, <1>2, <2>2, <2>3 DEF Update!WorkHasFile
  <2>7. Update!DownloadingIsAlive'
    BY <2>2, <2>3 DEF Update!DownloadingIsAlive
  <2>8. ASSUME ~v11' PROVE Update!OneDownloads'
    <3>1. ~v11 /\ \A s \in Threads : v3[s].of # v6
      BY <2>1, <2>8
    <3>2. \A r, q \in Threads : v3'[q].pc # "none" /\ v3'[r].of = v3'[q].of => r = q
      BY <2>2, <2>3, <3>1 DEF Update!OneDownloads
    <3>3. \A q \in Threads :
             v3'[q].pc = "read" \/ (v3'[q].pc = "connect" /\ v3'[q].total > 0)
                => Update!Matches(q)'
      BY <1>1, <2>2, <2>3, <3>1 DEF Update!OneDownloads, Update!Matches
    <3> QED
      BY <3>2, <3>3 DEF Update!OneDownloads
  <2>9. ASSUME ~v11' PROVE Update!FetchedIsRight'
    <3>1. ~v11 /\ Update!Fetched' = Update!Fetched
      BY <1>1, <2>1, <2>9 DEF Update!Fetched
    <3> QED
      BY <1>1, <3>1 DEF Update!FetchedIsRight, Update!Exact
  <2> QED
    BY <2>5, <2>6, <2>7, <2>8, <2>9
<1> QED
  BY <1>3, <1>4

LEMMA SpoilInv ==
  ASSUME Update!UpdatesInv, Update!Spoil PROVE Update!UpdatesInv'
<1> USE ReleasesAssumption DEF Update!UpdatesInv
<1>1. /\ v10 = None /\ v7 # None
      /\ v2' = [v2 EXCEPT ![v7] = Update!Spoilt]
      /\ UNCHANGED <<v1, v3, v4, v5, v6, v7, v8, v9, v10, v11>>
  BY DEF Update!Spoil, Update!Free, Update!Window
<1>2. /\ v2' \in [Releases -> Update!Bytes \cup {NoFile}]
      /\ \A r \in Releases : v2'[r] = IF r = v7 THEN Update!Spoilt ELSE v2[r]
  BY <1>1, Typed, SpoiltFields
<1>3. Update!UpdatesTypeOK'
  BY <1>1, <1>2 DEF Update!UpdatesTypeOK, Update!File
<1>4. Update!WorkHasFile' /\ Update!DownloadingIsAlive'
  BY <1>1 DEF Update!WorkHasFile, Update!DownloadingIsAlive
<1>5. Update!OneDownloads => Update!OneDownloads'
  BY <1>1 DEF Update!OneDownloads, Update!Matches
<1>6. Update!FetchedIsRight => Update!FetchedIsRight'
  <2>1. Update!Fetched' = Update!Fetched /\ Update!Fetched \subseteq Releases
        /\ v7 \in Releases
    BY <1>1 DEF Update!Fetched, Update!UpdatesTypeOK
  <2> QED
    BY <1>1, <1>2, <2>1 DEF Update!FetchedIsRight, Update!Exact
<1> QED
  BY <1>1, <1>3, <1>4, <1>5, <1>6

\* The program starts: the files are what it left.
LEMMA AfreshInv ==
  ASSUME v1 \in [Releases -> Update!Bytes \cup {NoFile}],
         v2 \in [Releases -> Update!Bytes \cup {NoFile}],
         v3 = [t \in Threads |-> Update!Idle], v4 = FALSE, v5 = "closed",
         v6 = None, v7 = None, v8 = {}, v9 = FALSE, v10 = None, v11 = FALSE
  PROVE  Update!UpdatesInv
<1>1. \A t \in Threads : v3[t] = Update!Idle
  OBVIOUS
<1>2. Update!UpdatesTypeOK
  BY IdleFields DEF Update!UpdatesTypeOK, Update!File, Update!Phases, Work
<1>3. Update!WorkHasFile /\ Update!DownloadingIsAlive /\ Update!OneDownloads
  BY <1>1, IdleFields DEF Update!WorkHasFile, Update!DownloadingIsAlive,
     Update!OneDownloads
<1>4. Update!FetchedIsRight
  BY DEF Update!FetchedIsRight, Update!Fetched
<1> QED
  BY <1>2, <1>3, <1>4 DEF Update!UpdatesInv

LEMMA RestartInv ==
  ASSUME Update!UpdatesInv, Update!Restart \/ Update!Launch
  PROVE  Update!UpdatesInv'
<1>1. /\ v3' = [t \in Threads |-> Update!Idle] /\ v4' = FALSE /\ v5' = "closed"
      /\ v6' = None /\ v7' = None /\ v8' = {} /\ v9' = FALSE /\ v10' = None
      /\ v11' = FALSE /\ v1' = v1 /\ v2' = v2
  BY DEF Update!Restart, Update!Launch, Update!Files
<1>2. /\ v1 \in [Releases -> Update!Bytes \cup {NoFile}]
      /\ v2 \in [Releases -> Update!Bytes \cup {NoFile}]
  BY Typed DEF Update!UpdatesInv
<1>3. \A t \in Threads : v3'[t] = Update!Idle
  BY <1>1
<1>4. Update!UpdatesTypeOK'
  BY <1>1, <1>2, IdleFields DEF Update!UpdatesTypeOK, Update!File, Update!Phases, Work
<1>5. /\ Update!WorkHasFile' /\ Update!DownloadingIsAlive' /\ Update!OneDownloads'
  BY <1>1, <1>3, IdleFields DEF Update!WorkHasFile, Update!DownloadingIsAlive,
     Update!OneDownloads
<1>6. Update!FetchedIsRight'
  BY <1>1 DEF Update!FetchedIsRight, Update!Fetched
<1> QED
  BY <1>4, <1>5, <1>6 DEF Update!UpdatesInv

-------------------------------------------------------------------------------
(***************************************************************************)
(* The results                                                             *)
(***************************************************************************)
LEMMA UpdatesInvariance == Spec => [](part = "updates" => Update!UpdatesInv)
<1>1. Init => (part = "updates" => Update!UpdatesInv)
  <2> SUFFICES ASSUME Init, part = "updates" PROVE Update!UpdatesInv
    OBVIOUS
  <2>1. Update!UpdatesInit
    BY DEF Init
  <2> QED
    BY <2>1, AfreshInv DEF Update!UpdatesInit
<1>2. (part = "updates" => Update!UpdatesInv) /\ [Next]_vars
         => (part = "updates" => Update!UpdatesInv)'
  <2> SUFFICES ASSUME part = "updates", Update!UpdatesInv,
                      Update!UpdatesNext \/ UNCHANGED Update!updatesVars
               PROVE  Update!UpdatesInv'
    BY UpdateSteps
  <2>1. CASE UNCHANGED Update!updatesVars
    BY <2>1 DEF Update!updatesVars, Update!UpdatesInv, Update!UpdatesTypeOK,
       Update!WorkHasFile, Update!DownloadingIsAlive, Update!OneDownloads,
       Update!Matches, Update!FetchedIsRight, Update!Fetched, Update!Exact
  <2>2. ASSUME NEW t \in Threads,
               Update!NetworkFails(t) \/ Update!Cancelled(t)
        PROVE  Update!UpdatesInv'
    BY <2>2, GivesUpInv DEF Update!NetworkFails, Update!Cancelled, Update!Files,
       Update!Window
  <2> QED
    BY <2>1, <2>2, BeginInv, ConnectInv, ReadInv, CompleteInv, DownloadInv,
       ClicksInv, OnReadyInv, SpoilInv, RestartInv DEF Update!UpdatesNext
<1> QED
  BY <1>1, <1>2, PTL DEF Spec

\* An installer is started only as the file whose digest was checked, whatever the
\* downloads do meanwhile (update_service.py:262-321).
THEOREM LaunchRight == Spec => LaunchedIsRight
<1>1. (part = "updates" => Update!UpdatesInv)
         => (part = "updates" => Update!LaunchesRight)
  BY DEF Update!LaunchesRight, Update!UpdatesInv, Update!FetchedIsRight
<1> QED
  BY <1>1, UpdatesInvariance, PTL DEF LaunchedIsRight

\* What the window tells of an update is so: what it offers to install is a release
\* to the last block, and a download that it shows goes on (update_dialog.py).
THEOREM UpdateToldIsTrue ==
  Spec => [](part = "updates" => Update!ReadyIsRight /\ Update!DownloadingIsAlive)
<1>1. (part = "updates" => Update!UpdatesInv)
         => (part = "updates" => Update!ReadyIsRight /\ Update!DownloadingIsAlive)
  BY DEF Update!ReadyIsRight, Update!UpdatesInv, Update!FetchedIsRight
<1> QED
  BY <1>1, UpdatesInvariance, PTL

-------------------------------------------------------------------------------
(***************************************************************************)
(* Journey: v1 to v8 are flow, current, busy, held, worker, inbox, linked  *)
(* and odd                                                                 *)
(***************************************************************************)
LEMMA NoErrand == Flow!NoWorker \in Flow!Errands /\ Flow!NoWorker.pc = "none"
BY DEF Flow!NoWorker, Flow!Errands, Flow!Scopes, Flow!Ops

\* What Set, Advance and Cancel make of the snapshot
LEMMA SetFlow ==
  ASSUME NEW scope \in Flow!Scopes \cup {""}, NEW phase \in Flow!Phases,
         NEW yes \in BOOLEAN, Flow!Set(scope, phase, yes)
  PROVE  v1' \in Flow!Flows /\ v1'.scope = scope /\ v1'.phase = phase /\ v1'.cancellable = yes
BY DEF Flow!Set, Flow!Flows

LEMMA FlowFields ==
  ASSUME NEW f \in Flow!Flows
  PROVE  f.scope \in Flow!Scopes \cup {""} /\ f.phase \in Flow!Phases /\ f.cancellable \in BOOLEAN
BY DEF Flow!Flows

LEMMA Advanced ==
  ASSUME Flow!JourneyTyped, NEW phase \in Flow!Phases, Flow!Advance(phase)
  PROVE  /\ v1' \in Flow!Flows /\ v1'.scope = v1.scope
         /\ v1'.cancellable => v1'.phase \notin {"idle", "active", "failed"}
         /\ v2 => /\ v1'.phase = phase
                  /\ v1'.cancellable = (phase \notin {"active", "failed", "idle"})
         /\ ~v2 => v1' = v1
<1>1. v1 \in Flow!Flows
  BY DEF Flow!JourneyTyped
<1>2. CASE v2
  <2>1. Flow!Set(v1.scope, phase, phase \notin {"active", "failed", "idle"})
    BY <1>2 DEF Flow!Advance
  <2> QED
    BY <1>1, <1>2, <2>1, SetFlow, FlowFields
<1>3. CASE ~v2
  BY <1>1, <1>3 DEF Flow!Advance, Flow!JourneyTyped
<1> QED
  BY <1>2, <1>3

LEMMA CancelledFlow ==
  ASSUME Flow!JourneyTyped, Flow!Cancel
  PROVE  /\ v1' \in Flow!Flows /\ v1'.scope = v1.scope
         /\ IF v2 /\ v1.cancellable THEN v1'.phase = "restoring" /\ ~v1'.cancellable
            ELSE v1' = v1
         /\ v1'.cancellable => v1'.phase \notin {"idle", "active", "failed"}
<1>1. v1 \in Flow!Flows
  BY DEF Flow!JourneyTyped
<1>2. CASE v2 /\ v1.cancellable
  <2>1. Flow!Set(v1.scope, "restoring", FALSE) /\ "restoring" \in Flow!Phases
    BY <1>2 DEF Flow!Cancel, Flow!Phases
  <2> QED
    BY <1>1, <1>2, <2>1, SetFlow, FlowFields
<1>3. CASE ~(v2 /\ v1.cancellable)
  BY <1>1, <1>3 DEF Flow!Cancel, Flow!JourneyTyped
<1> QED
  BY <1>2, <1>3

\* What becomes of a worker that is told to stop
Told(s, yes) == [s EXCEPT !.cancelled = @ \/ yes]

LEMMA ToldFields ==
  ASSUME NEW s \in Flow!Errands, NEW yes \in BOOLEAN
  PROVE  /\ Told(s, yes) \in Flow!Errands /\ Told(s, yes).pc = s.pc
         /\ Told(s, yes).scope = s.scope /\ Told(s, yes).op = s.op
         /\ Told(s, yes).cancelled = (s.cancelled \/ yes)
BY DEF Told, Flow!Errands

LEMMA ToldAll ==
  ASSUME NEW f \in [Workers -> Flow!Errands], NEW g, NEW stop \in [Workers -> BOOLEAN],
         g = [x \in Workers |-> g[x]], \A x \in Workers : g[x] = Told(f[x], stop[x])
  PROVE  /\ g \in [Workers -> Flow!Errands]
         /\ \A x \in Workers : /\ g[x].pc = f[x].pc /\ g[x].scope = f[x].scope
                               /\ g[x].op = f[x].op
                               /\ g[x].cancelled = (f[x].cancelled \/ stop[x])
<1>1. \A x \in Workers :
         /\ g[x] \in Flow!Errands
         /\ g[x].pc = f[x].pc /\ g[x].scope = f[x].scope /\ g[x].op = f[x].op
         /\ g[x].cancelled = (f[x].cancelled \/ stop[x])
  BY ToldFields
<1> QED
  BY <1>1

LEMMA Clicked ==
  ASSUME Flow!JourneyTyped, Flow!CancelApp
  PROVE  /\ v5' \in [Workers -> Flow!Errands]
         /\ \A x \in Workers : /\ v5'[x].pc = v5[x].pc /\ v5'[x].scope = v5[x].scope
                               /\ v5'[x].op = v5[x].op
                               /\ v5'[x].cancelled = (v5[x].cancelled \/ v5[x].scope = "app")
<1> DEFINE stop == [x \in Workers |-> v5[x].scope = "app"]
<1>1. v5 \in [Workers -> Flow!Errands]
  BY DEF Flow!JourneyTyped
<1>2. /\ v5' = [x \in Workers |-> v5'[x]]
      /\ \A x \in Workers : v5'[x] = Told(v5[x], v5[x].scope = "app")
  BY DEF Flow!CancelApp, Told
<1>3. stop \in [Workers -> BOOLEAN] /\ \A x \in Workers : stop[x] = (v5[x].scope = "app")
  OBVIOUS
<1> HIDE DEF stop
<1> QED
  BY <1>1, <1>2, <1>3, ToldAll

LEMMA StopsTests ==
  ASSUME NEW f \in [Workers -> Flow!Errands], NEW g,
         g = [x \in Workers |-> Flow!Done(f[x])]
  PROVE  /\ g \in [Workers -> Flow!Errands]
         /\ \A x \in Workers : /\ g[x].pc = f[x].pc /\ g[x].scope = f[x].scope
                               /\ g[x].op = f[x].op
                               /\ g[x].cancelled =
                                  (f[x].cancelled
                                   \/ (f[x].scope = "warp" /\ f[x].op = "start"))
<1> DEFINE stop == [x \in Workers |-> f[x].scope = "warp" /\ f[x].op = "start"]
<1>2. /\ g = [x \in Workers |-> g[x]]
      /\ \A x \in Workers : g[x] = Told(f[x], f[x].scope = "warp" /\ f[x].op = "start")
  BY DEF Flow!Done, Told
<1>3. /\ stop \in [Workers -> BOOLEAN]
      /\ \A x \in Workers : stop[x] = (f[x].scope = "warp" /\ f[x].op = "start")
  OBVIOUS
<1> HIDE DEF stop
<1> QED
  BY <1>2, <1>3, ToldAll

\* The queue
LEMMA Queued ==
  ASSUME NEW q \in Seq(Flow!Messages), NEW m \in Flow!Messages
  PROVE  LET new == Append(q, m)
         IN  /\ new \in Seq(Flow!Messages) /\ new # <<>>
             /\ Len(q) \in Nat /\ Len(new) = Len(q) + 1 /\ new[Len(new)] = m
             /\ \A i \in 1..Len(q) : new[i] = q[i]
OBVIOUS

LEMMA Dequeued ==
  ASSUME NEW q \in Seq(Flow!Messages), q # <<>>
  PROVE  /\ Tail(q) \in Seq(Flow!Messages) /\ Head(q) \in Flow!Messages /\ Head(q) = q[1]
         /\ Len(q) \in Nat /\ Len(q) >= 1 /\ Len(Tail(q)) = Len(q) - 1
         /\ Tail(q) = <<>> <=> Len(q) = 1
         /\ \A i \in 1..Len(Tail(q)) : Tail(q)[i] = q[i + 1]
<1>1. /\ Head(q) \in Flow!Messages /\ Head(q) = q[1] /\ Tail(q) \in Seq(Flow!Messages)
      /\ Len(Tail(q)) = Len(q) - 1 /\ \A i \in 1..Len(Tail(q)) : Tail(q)[i] = q[i + 1]
  BY HeadTailProperties
<1>2. Len(q) \in Nat /\ Len(q) # 0
  BY EmptySeq, LenProperties
<1>3. Tail(q) = <<>> <=> Len(Tail(q)) = 0
  BY <1>1, EmptySeq
<1> QED
  BY <1>1, <1>2, <1>3

LEMMA MessageFields ==
  /\ \A kind \in {"testing", "verifying", "restoring", "done"}, scope \in Flow!Scopes,
        op \in Flow!Ops, outcome \in {"ok", "kept", "failed", "cancelled"} :
        LET m == [kind |-> kind, scope |-> scope, op |-> op, outcome |-> outcome]
        IN  /\ m \in Flow!Messages /\ m.kind = kind /\ m.scope = scope /\ m.op = op
            /\ m.outcome = outcome
  /\ \A m \in Flow!Messages :
        /\ m.kind \in {"testing", "verifying", "restoring", "done"}
        /\ m.scope \in Flow!Scopes /\ m.op \in Flow!Ops
        /\ m.outcome \in {"ok", "kept", "failed", "cancelled"}
BY DEF Flow!Messages

-------------------------------------------------------------------------------
(***************************************************************************)
(* The types                                                               *)
(***************************************************************************)
LEMMA BeginTyped ==
  ASSUME Flow!JourneyTyped, NEW w \in Workers, NEW scope \in Flow!Scopes,
         NEW op \in Flow!Ops, Flow!Begin(w, scope, op)
  PROVE  /\ Flow!JourneyTyped'
         /\ v1'.scope = scope /\ v1'.phase \notin {"idle", "active", "failed"}
         /\ scope # "dns" => v1'.cancellable
         /\ v5'[w] \in Flow!Errands /\ v5'[w].pc = IF op = "start" /\ scope # "app"
                                                   THEN "fresh" ELSE "work"
         /\ v5'[w].scope = scope /\ ~v5'[w].cancelled
         /\ \A x \in Workers \ {w} : v5'[x].pc = v5[x].pc
<1> DEFINE base == IF scope = "warp" /\ op = "start"
                   THEN [x \in Workers |-> Flow!Done(v5[x])] ELSE v5
           new == [pc |-> IF op = "start" /\ scope # "app" THEN "fresh" ELSE "work",
                   scope |-> scope, op |-> op, cancelled |-> FALSE]
<1>1. v5' = [base EXCEPT ![w] = new]
  BY DEF Flow!Begin
<1>2. /\ new \in Flow!Errands /\ new.scope = scope /\ ~new.cancelled
      /\ new.pc = IF op = "start" /\ scope # "app" THEN "fresh" ELSE "work"
  BY DEF Flow!Errands
<1>3. v5 \in [Workers -> Flow!Errands]
  BY DEF Flow!JourneyTyped
<1>4. base \in [Workers -> Flow!Errands] /\ \A x \in Workers : base[x].pc = v5[x].pc
  <2>1. CASE scope = "warp" /\ op = "start"
    BY <1>3, <2>1, StopsTests
  <2>2. CASE ~(scope = "warp" /\ op = "start")
    BY <1>3, <2>2
  <2> QED
    BY <2>1, <2>2
<1> HIDE DEF base, new
<1>5. /\ v5' \in [Workers -> Flow!Errands] /\ v5'[w] = new
      /\ \A x \in Workers \ {w} : v5'[x].pc = v5[x].pc
  BY <1>1, <1>2, <1>4
<1>6. /\ v1' \in Flow!Flows /\ v1'.scope = scope
      /\ v1'.phase \in {"preflight", "restoring"} /\ (scope # "dns" => v1'.cancellable)
  <2>1. CASE op = "start"
    <3>1. Flow!Set(scope, "preflight", scope # "dns") /\ "preflight" \in Flow!Phases
      BY <2>1 DEF Flow!Begin, Flow!Phases
    <3> QED
      BY <3>1, SetFlow
  <2>2. CASE op # "start"
    <3>1. Flow!Set(scope, "restoring", TRUE) /\ "restoring" \in Flow!Phases
      BY <2>2 DEF Flow!Begin, Flow!Phases
    <3> QED
      BY <3>1, SetFlow
  <2> QED
    BY <2>1, <2>2
<1>7. v2' = TRUE /\ v3' \in BOOLEAN /\ UNCHANGED <<v4, v6, v7>>
  BY DEF Flow!Begin
<1>8. Flow!JourneyTyped'
  BY <1>5, <1>6, <1>7 DEF Flow!JourneyTyped
<1> QED
  BY <1>2, <1>5, <1>6, <1>8

\* A step that gives a worker its next value
LEMMA WorkTyped ==
  ASSUME Flow!JourneyTyped, NEW w \in Workers, NEW e \in Flow!Errands,
         v5' = [v5 EXCEPT ![w] = e]
  PROVE  /\ v5' \in [Workers -> Flow!Errands] /\ v5'[w] = e
         /\ \A x \in Workers \ {w} : v5'[x] = v5[x]
BY DEF Flow!JourneyTyped

LEMMA TestingStep ==
  ASSUME Flow!JourneyTyped, NEW w \in Workers, Flow!Testing(w)
  PROVE  /\ Flow!JourneyTyped'
         /\ v5'[w].pc = "work" /\ v5'[w].scope = v5[w].scope /\ v5'[w].op = v5[w].op
         /\ v5'[w].cancelled = v5[w].cancelled
         /\ \A x \in Workers \ {w} : v5'[x] = v5[x]
<1> DEFINE e == [v5[w] EXCEPT !.pc = "work"]
<1>1. v5' = [v5 EXCEPT ![w] = e] /\ UNCHANGED <<v2, v3, v4, v6, v7>>
      /\ Flow!Advance("testing") /\ "testing" \in Flow!Phases
  BY DEF Flow!Testing, Flow!Phases
<1>2. v5[w] \in Flow!Errands
  BY DEF Flow!JourneyTyped
<1>3. /\ e \in Flow!Errands /\ e.pc = "work" /\ e.scope = v5[w].scope
      /\ e.op = v5[w].op /\ e.cancelled = v5[w].cancelled
  BY <1>2 DEF Flow!Errands
<1> HIDE DEF e
<1>4. /\ v5' \in [Workers -> Flow!Errands] /\ v5'[w] = e
      /\ \A x \in Workers \ {w} : v5'[x] = v5[x]
  BY <1>1, <1>3, WorkTyped
<1>5. v1' \in Flow!Flows /\ (v1'.cancellable => v1'.phase \notin {"idle", "active", "failed"})
  BY <1>1, Advanced
<1>6. Flow!JourneyTyped'
  BY <1>1, <1>4, <1>5 DEF Flow!JourneyTyped
<1> QED
  BY <1>3, <1>4, <1>6

LEMMA CancelTyped ==
  ASSUME Flow!JourneyTyped, Flow!CancelApp \/ Flow!CancelWarp
  PROVE  Flow!JourneyTyped'
<1>1. UNCHANGED <<v2, v3, v4, v6, v7>> /\ Flow!Cancel
  BY DEF Flow!CancelApp, Flow!CancelWarp
<1>2. v5' \in [Workers -> Flow!Errands]
  <2>1. CASE Flow!CancelApp
    BY <2>1, Clicked
  <2>2. CASE Flow!CancelWarp
    <3>1. v5 \in [Workers -> Flow!Errands] /\ v5' = [x \in Workers |-> Flow!Done(v5[x])]
      BY <2>2 DEF Flow!CancelWarp, Flow!JourneyTyped
    <3> QED
      BY <3>1, StopsTests
  <2> QED
    BY <2>1, <2>2
<1> QED
  BY <1>1, <1>2, CancelledFlow DEF Flow!JourneyTyped

LEMMA QueueTyped ==
  ASSUME Flow!JourneyTyped, NEW w \in Workers,
         \/ \E phase \in {"testing", "verifying", "restoring"} : Flow!Progress(w, phase)
         \/ \E outcome \in {"ok", "kept", "failed", "cancelled"} : Flow!Finish(w, outcome)
         \/ Flow!Lost(w)
  PROVE  Flow!JourneyTyped'
<1>0. v5 \in [Workers -> Flow!Errands] /\ v6 \in Seq(Flow!Messages) /\ v7 \subseteq Flow!Scopes
      /\ v5[w].scope \in Flow!Scopes /\ v5[w].op \in Flow!Ops
  BY DEF Flow!JourneyTyped, Flow!Errands
<1>1. ASSUME NEW phase \in {"testing", "verifying", "restoring"}, Flow!Progress(w, phase)
      PROVE  Flow!JourneyTyped'
  <2> DEFINE m == [kind |-> phase, scope |-> "app", op |-> "start", outcome |-> "ok"]
  <2>1. UNCHANGED <<v1, v2, v3, v4, v5, v7>> /\ v6' = Append(v6, m)
    BY <1>1 DEF Flow!Progress, Flow!Post
  <2>2. m \in Flow!Messages
    BY DEF Flow!Messages, Flow!Scopes, Flow!Ops
  <2> HIDE DEF m
  <2>3. v6' \in Seq(Flow!Messages)
    BY <1>0, <2>1, <2>2, Queued
  <2> QED
    BY <2>1, <2>3 DEF Flow!JourneyTyped
<1>2. ASSUME NEW outcome \in {"ok", "kept", "failed", "cancelled"}, Flow!Finish(w, outcome)
      PROVE  Flow!JourneyTyped'
  <2> DEFINE m == [kind |-> "done", scope |-> v5[w].scope, op |-> v5[w].op,
                   outcome |-> outcome]
  <2>1. /\ UNCHANGED <<v1, v2, v3, v4>> /\ v6' = Append(v6, m)
        /\ v5' = [v5 EXCEPT ![w] = Flow!NoWorker]
        /\ v7' \in {v7, v7 \cup {v5[w].scope}, v7 \ {v5[w].scope}}
    BY <1>2 DEF Flow!Finish, Flow!Post
  <2>2. m \in Flow!Messages
    BY <1>0 DEF Flow!Messages
  <2> HIDE DEF m
  <2>3. v6' \in Seq(Flow!Messages)
    BY <1>0, <2>1, <2>2, Queued
  <2>4. v5' \in [Workers -> Flow!Errands] /\ v7' \subseteq Flow!Scopes
    BY <1>0, <2>1, NoErrand, WorkTyped
  <2> QED
    BY <2>1, <2>3, <2>4 DEF Flow!JourneyTyped
<1>3. CASE Flow!Lost(w)
  <2>1. UNCHANGED <<v1, v2, v3, v4, v6, v7>> /\ v5' = [v5 EXCEPT ![w] = Flow!NoWorker]
    BY <1>3 DEF Flow!Lost
  <2>2. v5' \in [Workers -> Flow!Errands]
    BY <1>0, <2>1, NoErrand, WorkTyped
  <2> QED
    BY <2>1, <2>2 DEF Flow!JourneyTyped
<1> QED
  BY <1>1, <1>2, <1>3

LEMMA DoneTyped ==
  ASSUME Flow!JourneyTyped, NEW m \in Flow!Messages, Flow!OnDone(m)
  PROVE  /\ v1' \in Flow!Flows /\ v2' \in BOOLEAN /\ v3' = (v3 /\ m.scope = "warp")
         /\ v4' \subseteq {"dns", "app"}
         /\ v1'.cancellable => v1'.phase \notin {"idle", "active", "failed"}
<1>1. v3' = (v3 /\ m.scope = "warp") /\ v3 \in BOOLEAN
  BY DEF Flow!OnDone, Flow!JourneyTyped
<1>2. v4' \subseteq {"dns", "app"}
  <2>1. m.scope \in {"dns", "app", "warp"} /\ v4 \subseteq {"dns", "app"}
    BY MessageFields DEF Flow!Scopes, Flow!JourneyTyped
  <2>2. \/ v4' = v4 \/ v4' = v4 \ {m.scope}
        \/ m.scope # "warp" /\ v4' = v4 \cup {m.scope}
    BY DEF Flow!OnDone
  <2> QED
    BY <2>1, <2>2
<1>3. /\ v1' \in Flow!Flows /\ v2' \in BOOLEAN
      /\ v1'.cancellable => v1'.phase \notin {"idle", "active", "failed"}
  <2>1. CASE Flow!Reset
    <3>1. Flow!Set("", "idle", FALSE) /\ v2' = FALSE /\ "idle" \in Flow!Phases
      BY <2>1 DEF Flow!Reset, Flow!Phases
    <3> QED
      BY <3>1, SetFlow
  <2>2. ASSUME NEW phase \in {"active", "failed"}, Flow!Advance(phase), v2' = v2
        PROVE  /\ v1' \in Flow!Flows /\ v2' \in BOOLEAN
               /\ v1'.cancellable => v1'.phase \notin {"idle", "active", "failed"}
    <3>1. phase \in Flow!Phases
      BY DEF Flow!Phases
    <3> QED
      BY <2>2, <3>1, Advanced DEF Flow!JourneyTyped
  <2> QED
    BY <2>1, <2>2 DEF Flow!OnDone
<1> QED
  BY <1>1, <1>2, <1>3

LEMMA DeliverTyped ==
  ASSUME Flow!JourneyTyped, Flow!Deliver
  PROVE  Flow!JourneyTyped'
<1>0. /\ v6 \in Seq(Flow!Messages) /\ v6 # <<>> /\ v6' = Tail(v6) /\ UNCHANGED <<v5, v7>>
      /\ IF Head(v6).kind = "done" THEN Flow!OnDone(Head(v6))
         ELSE Flow!OnProgress(Head(v6).kind)
  BY DEF Flow!Deliver, Flow!JourneyTyped
<1>1. v6' \in Seq(Flow!Messages) /\ Head(v6) \in Flow!Messages
  BY <1>0, Dequeued
<1>2. CASE Head(v6).kind = "done"
  BY <1>0, <1>1, <1>2, DoneTyped DEF Flow!JourneyTyped
<1>3. CASE Head(v6).kind # "done"
  <2>1. Flow!OnProgress(Head(v6).kind) /\ Head(v6).kind \in {"testing", "verifying", "restoring"}
    BY <1>0, <1>1, <1>3, MessageFields
  <2>2. UNCHANGED <<v2, v3, v4>> /\ (v1' = v1 \/ Flow!Advance(Head(v6).kind))
        /\ Head(v6).kind \in Flow!Phases
    BY <2>1 DEF Flow!OnProgress, Flow!Phases
  <2>3. v1' \in Flow!Flows /\ (v1'.cancellable => v1'.phase \notin {"idle", "active", "failed"})
    BY <2>2, Advanced DEF Flow!JourneyTyped
  <2> QED
    BY <1>0, <1>1, <2>2, <2>3 DEF Flow!JourneyTyped
<1> QED
  BY <1>2, <1>3

LEMMA LinkTyped ==
  ASSUME Flow!JourneyTyped,
         Flow!UserConnects \/ \E scope \in Flow!Scopes : Flow!TakenBack(scope)
  PROVE  Flow!JourneyTyped'
BY DEF Flow!JourneyTyped, Flow!UserConnects, Flow!TakenBack, Flow!Scopes
-------------------------------------------------------------------------------
(***************************************************************************)
(* While nothing odd has happened                                          *)
(***************************************************************************)
\* A step that neither starts nor ends a worker and leaves the queue alone
LEMMA SameErrands ==
  ASSUME Flow!FlowSound, v1'.scope = v1.scope, UNCHANGED <<v2, v3, v6>>, v7 \subseteq v7',
         \A x \in Workers : v5'[x].scope = v5[x].scope
                            /\ (v5'[x].pc = "none" <=> v5[x].pc = "none"),
         \/ v1'.phase = v1.phase
         \/ Flow!Journeying /\ v1'.phase \notin {"idle", "active", "failed"},
         \A x \in Workers : Flow!AtWork(x) => Flow!Cancellable(v5[x])'
  PROVE  Flow!FlowSound'
<1>1. \A x \in Workers : Flow!AtWork(x)' <=> Flow!AtWork(x)
  BY DEF Flow!AtWork
<1>2. /\ Flow!Resting' <=> Flow!Resting
      /\ Flow!Journeying' <=> Flow!Journeying
  BY <1>1 DEF Flow!Resting, Flow!Journeying
<1>3. Flow!OneJourney'
  BY <1>1, <1>2 DEF Flow!FlowSound, Flow!OneJourney
<1>4. Flow!InboxInOrder'
  BY <1>2 DEF Flow!FlowSound, Flow!InboxInOrder, Flow!Honest
<1>5. Flow!BusyIsElsewhere'
  BY <1>2 DEF Flow!FlowSound, Flow!BusyIsElsewhere
<1>6. v1'.phase = "active" => v1'.scope \in v7'
  BY DEF Flow!FlowSound
<1>7. v1'.phase \notin {"idle", "active", "failed"} => Flow!Journeying'
  BY <1>2 DEF Flow!FlowSound
<1> QED
  BY <1>1, <1>3, <1>4, <1>5, <1>6, <1>7 DEF Flow!FlowSound

\* The worker that there is
LEMMA TheErrand ==
  ASSUME Flow!JourneyTyped, Flow!FlowSound, NEW w \in Workers, v5[w].pc # "none"
  PROVE  /\ Flow!AtWork(w) /\ Flow!Journeying /\ ~Flow!Resting
         /\ \A x \in Workers \ {w} : ~Flow!AtWork(x)
         /\ v2 = TRUE /\ v1.scope = v5[w].scope
         /\ v1.phase \notin {"idle", "active", "failed"}
         /\ Flow!Cancellable(v5[w])
         /\ \A i \in 1..Len(v6) : v6[i].kind # "done"
BY DEF Flow!FlowSound, Flow!OneJourney, Flow!InboxInOrder, Flow!AtWork, Flow!Resting,
   Flow!Journeying, Flow!JourneyTyped

LEMMA BeginSound ==
  ASSUME Flow!JourneyTyped, Flow!FlowSound, v8 = {}, v8' = {}, NEW w \in Workers,
         NEW scope \in Flow!Scopes, NEW op \in Flow!Ops, Flow!Begin(w, scope, op)
  PROVE  Flow!FlowSound'
<1>1. Flow!Quiet
  BY DEF Flow!Begin
<1>2. /\ v6 = <<>> /\ v6' = <<>> /\ v7' = v7 /\ v2' = TRUE
      /\ \A x \in Workers : v5[x].pc = "none"
      /\ v3' = (v3 \/ scope # "warp")
  BY <1>1 DEF Flow!Quiet, Flow!Begin
<1>3. ~v3
  BY <1>2 DEF Flow!FlowSound, Flow!BusyIsElsewhere, Flow!Journeying, Flow!Resting, Flow!AtWork
<1>4. /\ v1'.scope = scope /\ v1'.phase \notin {"idle", "active", "failed"}
      /\ scope # "dns" => v1'.cancellable
      /\ v5'[w].pc = IF op = "start" /\ scope # "app" THEN "fresh" ELSE "work"
      /\ v5'[w].scope = scope /\ ~v5'[w].cancelled
      /\ \A x \in Workers \ {w} : v5'[x].pc = "none"
  BY <1>2, BeginTyped
<1>5. /\ Flow!AtWork(w)' /\ \A x \in Workers \ {w} : ~Flow!AtWork(x)'
      /\ Flow!Journeying'
  BY <1>4 DEF Flow!AtWork, Flow!Journeying, Flow!Resting
<1>6. Flow!OneJourney'
  BY <1>2, <1>4, <1>5 DEF Flow!OneJourney
<1>7. Flow!InboxInOrder'
  <2>1. 1..Len(v6') = {}
    BY <1>2
  <2> QED
    BY <1>2, <2>1 DEF Flow!InboxInOrder
<1>8. Flow!BusyIsElsewhere'
  BY <1>2, <1>3, <1>4, <1>5 DEF Flow!BusyIsElsewhere
<1>9. Flow!Cancellable(v5[w])'
  BY <1>4 DEF Flow!Cancellable
<1> QED
  BY <1>4, <1>5, <1>6, <1>7, <1>8, <1>9 DEF Flow!FlowSound

LEMMA TestingSound ==
  ASSUME Flow!JourneyTyped, Flow!FlowSound, NEW w \in Workers, Flow!Testing(w)
  PROVE  Flow!FlowSound'
<1>1. /\ v5[w].pc = "fresh" /\ UNCHANGED <<v2, v3, v6, v7>> /\ Flow!Advance("testing")
      /\ "testing" \in Flow!Phases
  BY DEF Flow!Testing, Flow!Phases
<1>2. /\ v2 = TRUE /\ Flow!Cancellable(v5[w]) /\ Flow!Journeying
      /\ \A x \in Workers \ {w} : ~Flow!AtWork(x)
  BY <1>1, TheErrand
<1>3. v1'.scope = v1.scope /\ v1'.phase = "testing" /\ v1'.cancellable
  BY <1>1, <1>2, Advanced
<1>4. /\ v5'[w].pc = "work" /\ v5'[w].scope = v5[w].scope /\ v5'[w].op = v5[w].op
      /\ v5'[w].cancelled = v5[w].cancelled
      /\ \A x \in Workers \ {w} : v5'[x] = v5[x]
  BY TestingStep
<1>5. Flow!Cancellable(v5[w])'
  BY <1>1, <1>2, <1>3, <1>4 DEF Flow!Cancellable
<1>6. \A x \in Workers : v5'[x].scope = v5[x].scope
                         /\ (v5'[x].pc = "none" <=> v5[x].pc = "none")
  BY <1>1, <1>4
<1> QED
  BY <1>1, <1>2, <1>3, <1>5, <1>6, SameErrands

LEMMA CancelAppSound ==
  ASSUME Flow!JourneyTyped, Flow!FlowSound, Flow!CancelApp
  PROVE  Flow!FlowSound'
<1>1. v3 /\ UNCHANGED <<v2, v3, v6, v7>> /\ Flow!Cancel
  BY DEF Flow!CancelApp
<1>2. Flow!Journeying /\ v1.scope # "warp"
  BY <1>1 DEF Flow!FlowSound, Flow!BusyIsElsewhere
<1>3. v1'.scope = v1.scope /\ (v1'.phase = v1.phase \/ v1'.phase = "restoring")
  BY <1>1, CancelledFlow
<1>4. \A x \in Workers : /\ v5'[x].pc = v5[x].pc /\ v5'[x].scope = v5[x].scope
                         /\ v5'[x].op = v5[x].op
                         /\ v5'[x].cancelled = (v5[x].cancelled \/ v5[x].scope = "app")
  BY Clicked
<1>5. ASSUME NEW x \in Workers, Flow!AtWork(x)
      PROVE  Flow!Cancellable(v5[x])'
  <2>1. v1.scope = v5[x].scope /\ Flow!Cancellable(v5[x])
    BY <1>5, TheErrand DEF Flow!AtWork
  <2> QED
    BY <1>2, <1>4, <2>1 DEF Flow!Cancellable
<1> QED
  BY <1>1, <1>2, <1>3, <1>4, <1>5, SameErrands

LEMMA CancelWarpSound ==
  ASSUME Flow!JourneyTyped, Flow!FlowSound, v8 = {}, v8' = {}, Flow!CancelWarp
  PROVE  Flow!FlowSound'
<1>1. /\ v1.scope = "warp" /\ v1.cancellable /\ UNCHANGED <<v2, v3, v6, v7>> /\ Flow!Cancel
      /\ v5' = [x \in Workers |-> Flow!Done(v5[x])]
      /\ \A x \in Workers : v5[x].pc # "fresh"
  BY DEF Flow!CancelWarp
<1>2. Flow!Journeying /\ v2 = TRUE
  BY <1>1 DEF Flow!FlowSound, Flow!OneJourney, Flow!JourneyTyped
<1>3. v1'.scope = v1.scope /\ v1'.phase = "restoring"
  BY <1>1, <1>2, CancelledFlow
<1>4. \A x \in Workers : /\ v5'[x].pc = v5[x].pc /\ v5'[x].scope = v5[x].scope
                         /\ v5'[x].op = v5[x].op
                         /\ v5'[x].cancelled =
                               (v5[x].cancelled
                                \/ (v5[x].scope = "warp" /\ v5[x].op = "start"))
  BY <1>1, StopsTests DEF Flow!JourneyTyped
<1>5. \A x \in Workers : Flow!Cancellable(v5[x])'
  BY <1>1, <1>3, <1>4 DEF Flow!Cancellable
<1> QED
  BY <1>1, <1>2, <1>3, <1>4, <1>5, SameErrands

LEMMA ProgressSound ==
  ASSUME Flow!JourneyTyped, Flow!FlowSound, NEW w \in Workers,
         NEW phase \in {"testing", "verifying", "restoring"}, Flow!Progress(w, phase)
  PROVE  Flow!FlowSound'
<1> DEFINE m == [kind |-> phase, scope |-> "app", op |-> "start", outcome |-> "ok"]
<1>1. /\ v5[w].pc = "work" /\ v5[w].scope = "app" /\ v6' = Append(v6, m)
      /\ UNCHANGED <<v1, v2, v3, v4, v5, v7>>
  BY DEF Flow!Progress, Flow!Post
<1>2. m \in Flow!Messages /\ m.kind # "done" /\ m.scope = "app"
  BY DEF Flow!Messages, Flow!Scopes, Flow!Ops
<1> HIDE DEF m
<1>3. /\ v6 \in Seq(Flow!Messages) /\ Len(v6) \in Nat /\ Len(v6') = Len(v6) + 1
      /\ v6'[Len(v6')] = m /\ \A i \in 1..Len(v6) : v6'[i] = v6[i]
  BY <1>1, <1>2, Queued DEF Flow!JourneyTyped
<1>4. /\ Flow!Journeying /\ ~Flow!Resting /\ v1.scope = "app"
      /\ \A i \in 1..Len(v6) : v6[i].kind # "done"
  BY <1>1, TheErrand
<1>5. /\ ~Flow!Resting' /\ Flow!Journeying'
      /\ \A x \in Workers : Flow!AtWork(x)' <=> Flow!AtWork(x)
  BY <1>1, <1>4 DEF Flow!Resting, Flow!Journeying, Flow!AtWork
<1>6. \A i \in 1..Len(v6') : v6'[i].scope = "app" /\ v6'[i].kind # "done"
  BY <1>2, <1>3, <1>4 DEF Flow!FlowSound, Flow!InboxInOrder
<1>7. Flow!InboxInOrder'
  BY <1>1, <1>4, <1>5, <1>6 DEF Flow!InboxInOrder
<1>8. Flow!OneJourney' /\ Flow!BusyIsElsewhere'
  BY <1>1, <1>4, <1>5 DEF Flow!FlowSound, Flow!OneJourney, Flow!BusyIsElsewhere
<1>9. \A x \in Workers : Flow!AtWork(x)' => Flow!Cancellable(v5[x])'
  BY <1>1, <1>5 DEF Flow!FlowSound, Flow!Cancellable
<1> QED
  BY <1>1, <1>5, <1>7, <1>8, <1>9 DEF Flow!FlowSound

LEMMA FinishSound ==
  ASSUME Flow!JourneyTyped, Flow!FlowSound, NEW w \in Workers,
         NEW outcome \in {"ok", "kept", "failed", "cancelled"}, Flow!Finish(w, outcome)
  PROVE  Flow!FlowSound'
<1> DEFINE d == [kind |-> "done", scope |-> v5[w].scope, op |-> v5[w].op,
                 outcome |-> outcome]
<1>0. d \in Flow!Messages /\ v6' = Append(v6, d)
  BY DEF Flow!Finish, Flow!Post, Flow!Messages, Flow!JourneyTyped, Flow!Errands
<1>2. PICK m \in Flow!Messages :
         /\ v6' = Append(v6, m) /\ m.kind = "done" /\ m.scope = v5[w].scope
         /\ m.op = v5[w].op /\ m.outcome = outcome
  BY <1>0
<1> HIDE DEF d
<1>1. /\ v5[w].pc = "work" /\ UNCHANGED <<v1, v2, v3, v4>>
      /\ v5' = [v5 EXCEPT ![w] = Flow!NoWorker]
      /\ outcome = "kept" => v5[w].scope \in v7
      /\ v7' = IF outcome # "ok" THEN v7
               ELSE IF v5[w].op = "start" THEN v7 \cup {v5[w].scope} ELSE v7 \ {v5[w].scope}
  BY DEF Flow!Finish
<1>3. /\ v6 \in Seq(Flow!Messages) /\ Len(v6) \in Nat /\ Len(v6') = Len(v6) + 1
      /\ v6' # <<>> /\ v6'[Len(v6')] = m /\ \A i \in 1..Len(v6) : v6'[i] = v6[i]
  BY <1>1, <1>2, Queued DEF Flow!JourneyTyped
<1>4. /\ Flow!Journeying /\ v1.scope = v5[w].scope /\ v2 = TRUE
      /\ v1.phase \notin {"idle", "active", "failed"}
      /\ \A x \in Workers \ {w} : ~Flow!AtWork(x)
      /\ \A i \in 1..Len(v6) : v6[i].kind # "done"
  BY <1>1, TheErrand
<1>5. \A x \in Workers : ~Flow!AtWork(x)'
  BY <1>1, <1>4, NoErrand, WorkTyped DEF Flow!AtWork
<1>6. Flow!Resting' /\ Flow!Journeying'
  BY <1>3, <1>5 DEF Flow!Resting, Flow!Journeying
<1>7. Flow!Honest(m)'
  BY <1>1, <1>2 DEF Flow!Honest
<1>8. Flow!InboxInOrder'
  <2>1. ASSUME NEW i \in 1..Len(v6')
        PROVE  /\ v6'[i].scope = v1'.scope
               /\ v6'[i].kind = "done" => i = Len(v6') /\ v6'[i] = m
               /\ v6'[i].kind # "done" => v6'[i].scope = "app"
    <3>1. CASE i \in 1..Len(v6)
      BY <1>1, <1>3, <1>4, <3>1 DEF Flow!FlowSound, Flow!InboxInOrder
    <3>2. CASE i \notin 1..Len(v6)
      BY <1>1, <1>2, <1>3, <1>4, <3>2
    <3> QED
      BY <3>1, <3>2
  <2>2. \A i \in 1..Len(v6') : v6'[i] = m => Flow!Honest(v6[i])'
    BY <1>7 DEF Flow!Honest
  <2> QED
    BY <1>2, <1>3, <1>6, <2>1, <2>2 DEF Flow!InboxInOrder
<1>9. Flow!OneJourney' /\ Flow!BusyIsElsewhere'
  BY <1>1, <1>4, <1>5, <1>6 DEF Flow!FlowSound, Flow!OneJourney, Flow!BusyIsElsewhere
<1> QED
  BY <1>1, <1>4, <1>5, <1>6, <1>8, <1>9 DEF Flow!FlowSound

\* What the event loop makes of a result that is the journey's
LEMMA DoneStep ==
  ASSUME Flow!JourneyTyped, NEW m \in Flow!Messages, Flow!OnDone(m), v2 = TRUE,
         m.scope = v1.scope, Flow!Honest(m)
  PROVE  /\ v1'.phase \in {"idle", "active", "failed"}
         /\ v1'.phase = "active" => v1'.scope \in v7
<1>1. CASE Flow!Reset
  BY <1>1, SetFlow DEF Flow!Reset, Flow!Phases
<1>2. CASE ~Flow!Reset
  <2>1. /\ m.outcome # "cancelled" /\ (m.outcome = "ok" => m.op # "stop")
        /\ Flow!Advance(IF m.outcome \in {"ok", "kept"} THEN "active" ELSE "failed")
    BY <1>2 DEF Flow!OnDone
  <2>2. {"active", "failed"} \subseteq Flow!Phases /\ m.op \in {"start", "stop"}
    BY MessageFields DEF Flow!Phases, Flow!Ops
  <2>3. CASE m.outcome \in {"ok", "kept"}
    BY <2>1, <2>2, <2>3, Advanced DEF Flow!Honest
  <2>4. CASE m.outcome \notin {"ok", "kept"}
    BY <2>1, <2>2, <2>4, Advanced
  <2> QED
    BY <2>3, <2>4
<1> QED
  BY <1>1, <1>2

LEMMA DeliverSound ==
  ASSUME Flow!JourneyTyped, Flow!FlowSound, Flow!Deliver
  PROVE  Flow!FlowSound'
<1>0. /\ v6 \in Seq(Flow!Messages) /\ v6 # <<>> /\ v6' = Tail(v6) /\ UNCHANGED <<v5, v7>>
      /\ IF Head(v6).kind = "done" THEN Flow!OnDone(Head(v6))
         ELSE Flow!OnProgress(Head(v6).kind)
  BY DEF Flow!Deliver, Flow!JourneyTyped
<1>1. /\ Head(v6) \in Flow!Messages /\ Head(v6) = v6[1] /\ Len(v6) \in Nat /\ Len(v6) >= 1
      /\ Len(v6') = Len(v6) - 1 /\ (v6' = <<>> <=> Len(v6) = 1)
      /\ \A i \in 1..Len(v6') : v6'[i] = v6[i + 1]
  BY <1>0, Dequeued
<1>6. 1 \in 1..Len(v6)
  BY <1>1
<1>2. /\ Flow!Journeying /\ v2 = TRUE /\ v1.phase \notin {"idle", "active", "failed"}
      /\ Head(v6).scope = v1.scope
      /\ Head(v6).kind = "done" => Len(v6) = 1 /\ Flow!Resting /\ Flow!Honest(Head(v6))
      /\ Head(v6).kind # "done" => v1.scope = "app"
  <2>1. /\ Flow!Journeying /\ v2 = TRUE /\ v1.phase \notin {"idle", "active", "failed"}
    BY <1>0 DEF Flow!FlowSound, Flow!OneJourney, Flow!Journeying, Flow!JourneyTyped
  <2>2. /\ v6[1].scope = v1.scope
        /\ v6[1].kind = "done" => 1 = Len(v6) /\ Flow!Resting /\ Flow!Honest(v6[1])
        /\ v6[1].kind # "done" => v6[1].scope = "app"
    BY <1>6 DEF Flow!FlowSound, Flow!InboxInOrder
  <2> QED
    BY <1>1, <2>1, <2>2
<1>3. /\ \A x \in Workers : Flow!AtWork(x)' <=> Flow!AtWork(x)
      /\ Flow!Resting' <=> Flow!Resting
  BY <1>0 DEF Flow!AtWork, Flow!Resting
<1>4. CASE Head(v6).kind = "done"
  <2>1. Flow!OnDone(Head(v6)) /\ v6' = <<>> /\ Flow!Resting' /\ ~Flow!Journeying'
    BY <1>0, <1>1, <1>2, <1>3, <1>4 DEF Flow!Journeying
  <2>2. /\ v1'.phase \in {"idle", "active", "failed"}
        /\ v1'.phase = "active" => v1'.scope \in v7'
    BY <1>0, <1>1, <1>2, <1>4, <2>1, DoneStep
  <2>3. v3' = (v3 /\ v1.scope = "warp")
    BY <1>1, <1>2, <2>1, DoneTyped
  <2>4. ~v3'
    BY <2>3 DEF Flow!FlowSound, Flow!BusyIsElsewhere
  <2>5. \A x \in Workers : ~Flow!AtWork(x)'
    BY <2>1 DEF Flow!Resting
  <2>6. Flow!InboxInOrder'
    <3>1. 1..Len(v6') = {}
      BY <1>1, <1>2, <1>4
    <3> QED
      BY <2>1, <3>1 DEF Flow!InboxInOrder
  <2>7. Flow!OneJourney' /\ Flow!BusyIsElsewhere'
    BY <2>1, <2>4, <2>5 DEF Flow!OneJourney, Flow!BusyIsElsewhere
  <2> QED
    BY <2>2, <2>5, <2>6, <2>7 DEF Flow!FlowSound
<1>5. CASE Head(v6).kind # "done"
  <2>1. Flow!OnProgress(Head(v6).kind) /\ v1.scope = "app"
        /\ Head(v6).kind \in {"testing", "verifying", "restoring"}
    BY <1>0, <1>1, <1>2, <1>5, MessageFields
  <2>2. UNCHANGED <<v2, v3>> /\ (v1' = v1 \/ Flow!Advance(Head(v6).kind))
        /\ Head(v6).kind \in Flow!Phases
    BY <2>1 DEF Flow!OnProgress, Flow!Phases
  <2>3. v1'.scope = "app" /\ v1'.phase \notin {"idle", "active", "failed"}
    BY <1>2, <2>1, <2>2, Advanced
  <2>4. v6' # <<>> \/ ~Flow!Resting
    BY <1>0, <1>1, <1>5 DEF Flow!FlowSound, Flow!InboxInOrder
  <2>5. Flow!Journeying'
    BY <1>3, <2>4 DEF Flow!Journeying
  <2>6. Flow!InboxInOrder'
    <3>1. \A i \in 1..Len(v6') : i + 1 \in 1..Len(v6) /\ (i + 1 = Len(v6) => i = Len(v6'))
      BY <1>1
    <3>2. v6' # <<>> => v6'[Len(v6')] = v6[Len(v6)]
      <4>1. v6' # <<>> => Len(v6') \in 1..Len(v6') /\ Len(v6') + 1 = Len(v6)
        BY <1>1
      <4> QED
        BY <1>1, <4>1
    <3>3. \A i \in 1..Len(v6') :
             /\ v6'[i].scope = v1'.scope
             /\ v6'[i].kind = "done" => i = Len(v6') /\ Flow!Resting' /\ Flow!Honest(v6[i])'
             /\ v6'[i].kind # "done" => v6'[i].scope = "app"
      <4> TAKE i \in 1..Len(v6')
      <4>1. v6'[i] = v6[i + 1] /\ i + 1 \in 1..Len(v6) /\ (i + 1 = Len(v6) => i = Len(v6'))
        BY <1>1, <3>1
      <4>2. /\ v6[i + 1].scope = v1.scope
            /\ v6[i + 1].kind = "done" =>
                  i + 1 = Len(v6) /\ Flow!Resting /\ Flow!Honest(v6[i + 1])
            /\ v6[i + 1].kind # "done" => v6[i + 1].scope = "app"
        BY <4>1 DEF Flow!FlowSound, Flow!InboxInOrder
      <4>3. Flow!Honest(v6[i + 1]) => Flow!Honest(v6[i])'
        BY <1>0, <4>1 DEF Flow!Honest
      <4> QED
        BY <1>3, <2>1, <2>3, <4>1, <4>2, <4>3
    <3>4. v6' # <<>> /\ Flow!Resting' => v6'[Len(v6')].kind = "done"
      BY <1>0, <1>3, <3>2 DEF Flow!FlowSound, Flow!InboxInOrder
    <3> QED
      BY <3>3, <3>4 DEF Flow!InboxInOrder
  <2>7. Flow!OneJourney' /\ Flow!BusyIsElsewhere'
    BY <1>0, <1>2, <1>3, <2>1, <2>2, <2>3, <2>5
       DEF Flow!FlowSound, Flow!OneJourney, Flow!BusyIsElsewhere
  <2>8. ASSUME NEW x \in Workers, Flow!AtWork(x)'
        PROVE  Flow!Cancellable(v5[x])'
    <3>1. Flow!Cancellable(v5[x]) /\ v5[x].scope = "app"
      BY <1>3, <2>1, <2>8 DEF Flow!FlowSound, Flow!OneJourney
    <3> QED
      BY <1>0, <3>1 DEF Flow!Cancellable
  <2> QED
    BY <2>3, <2>5, <2>6, <2>7, <2>8 DEF Flow!FlowSound
<1> QED
  BY <1>4, <1>5

LEMMA UserSound ==
  ASSUME Flow!JourneyTyped, Flow!FlowSound, Flow!UserConnects
  PROVE  Flow!FlowSound'
<1>1. UNCHANGED <<v1, v2, v3, v5, v6>> /\ v7 \subseteq v7'
  BY DEF Flow!UserConnects
<1>2. \A x \in Workers : Flow!AtWork(x) => Flow!Cancellable(v5[x])'
  BY <1>1 DEF Flow!FlowSound, Flow!Cancellable
<1> QED
  BY <1>1, <1>2, SameErrands
\* What was odd stays noted.
LEMMA OddStays ==
  ASSUME Flow!JourneyNext
  PROVE  v8 \subseteq v8'
BY DEF Flow!JourneyNext, Flow!Begin, Flow!Testing, Flow!Lost, Flow!Progress, Flow!Finish,
   Flow!CancelApp, Flow!CancelWarp, Flow!Deliver, Flow!UserConnects, Flow!TakenBack

LEMMA JourneyNextInv ==
  ASSUME Flow!JourneyInv, Flow!JourneyNext
  PROVE  Flow!JourneyInv'
<1>0. Flow!JourneyTyped /\ (v8' = {} => v8 = {} /\ Flow!FlowSound)
  BY OddStays DEF Flow!JourneyInv
<1>1. ASSUME NEW w \in Workers, NEW scope \in Flow!Scopes, NEW op \in Flow!Ops,
             Flow!Begin(w, scope, op)
      PROVE  Flow!JourneyInv'
  <2>1. Flow!JourneyTyped'
    BY <1>0, <1>1, BeginTyped
  <2>2. v8' = {} => Flow!FlowSound'
    BY <1>0, <1>1, BeginSound
  <2> QED
    BY <2>1, <2>2 DEF Flow!JourneyInv
<1>2. ASSUME NEW w \in Workers, Flow!Testing(w)
      PROVE  Flow!JourneyInv'
  BY <1>0, <1>2, TestingStep, TestingSound DEF Flow!JourneyInv
<1>3. ASSUME NEW w \in Workers, Flow!Lost(w)
      PROVE  Flow!JourneyInv'
  <2>1. v8' # {}
    BY <1>3 DEF Flow!Lost
  <2> QED
    BY <1>0, <1>3, <2>1, QueueTyped DEF Flow!JourneyInv
<1>4. ASSUME NEW w \in Workers, NEW phase \in {"testing", "verifying", "restoring"},
             Flow!Progress(w, phase)
      PROVE  Flow!JourneyInv'
  BY <1>0, <1>4, QueueTyped, ProgressSound DEF Flow!JourneyInv
<1>5. ASSUME NEW w \in Workers, NEW outcome \in {"ok", "kept", "failed", "cancelled"},
             Flow!Finish(w, outcome)
      PROVE  Flow!JourneyInv'
  BY <1>0, <1>5, QueueTyped, FinishSound DEF Flow!JourneyInv
<1>6. CASE Flow!CancelApp
  BY <1>0, <1>6, CancelTyped, CancelAppSound DEF Flow!JourneyInv
<1>7. CASE Flow!CancelWarp
  BY <1>0, <1>7, CancelTyped, CancelWarpSound DEF Flow!JourneyInv
<1>8. CASE Flow!Deliver
  BY <1>0, <1>8, DeliverTyped, DeliverSound DEF Flow!JourneyInv
<1>9. CASE Flow!UserConnects
  BY <1>0, <1>9, LinkTyped, UserSound DEF Flow!JourneyInv
<1>10. ASSUME NEW scope \in Flow!Scopes, Flow!TakenBack(scope)
       PROVE  Flow!JourneyInv'
  <2>1. v8' # {}
    BY <1>10 DEF Flow!TakenBack
  <2> QED
    BY <1>0, <1>10, <2>1, LinkTyped DEF Flow!JourneyInv
<1> QED
  BY <1>1, <1>2, <1>3, <1>4, <1>5, <1>6, <1>7, <1>8, <1>9, <1>10 DEF Flow!JourneyNext

LEMMA JourneyInitInv ==
  ASSUME Flow!JourneyInit
  PROVE  Flow!JourneyInv
<1>1. /\ v1 = [scope |-> "", phase |-> "idle", cancellable |-> FALSE]
      /\ v2 = FALSE /\ v3 = FALSE /\ v4 = {} /\ v5 = [w \in Workers |-> Flow!NoWorker]
      /\ v6 = <<>> /\ v7 = {} /\ v8 = {}
  BY DEF Flow!JourneyInit
<1>2. v1 \in Flow!Flows /\ v1.phase = "idle" /\ ~v1.cancellable
  BY <1>1 DEF Flow!Flows, Flow!Phases
<1>3. v5 \in [Workers -> Flow!Errands] /\ \A w \in Workers : ~Flow!AtWork(w)
  BY <1>1, NoErrand DEF Flow!AtWork
<1>4. v6 \in Seq(Flow!Messages) /\ 1..Len(v6) = {}
  <2>1. v6 \in Seq(Flow!Messages)
    BY <1>1, EmptySeq
  <2>2. Len(v6) = 0
    BY <1>1, EmptySeq
  <2> QED
    BY <2>1, <2>2
<1>5. Flow!JourneyTyped
  BY <1>1, <1>2, <1>3, <1>4 DEF Flow!JourneyTyped
<1>6. ~Flow!Journeying
  BY <1>1, <1>3 DEF Flow!Journeying, Flow!Resting
<1>7. Flow!OneJourney /\ Flow!InboxInOrder /\ Flow!BusyIsElsewhere
  BY <1>1, <1>3, <1>4, <1>6 DEF Flow!OneJourney, Flow!InboxInOrder, Flow!BusyIsElsewhere
<1>8. Flow!FlowSound
  BY <1>2, <1>3, <1>6, <1>7 DEF Flow!FlowSound
<1> QED
  BY <1>5, <1>8 DEF Flow!JourneyInv

LEMMA JourneyStutters ==
  ASSUME Flow!JourneyInv, UNCHANGED Flow!journeyVars
  PROVE  Flow!JourneyInv'
<1>1. UNCHANGED <<v1, v2, v3, v4, v5, v6, v7, v8>>
  BY DEF Flow!journeyVars
<1> QED
  BY <1>1 DEF Flow!JourneyInv, Flow!JourneyTyped, Flow!FlowSound, Flow!OneJourney,
     Flow!InboxInOrder, Flow!BusyIsElsewhere, Flow!AtWork, Flow!Resting,
     Flow!Journeying, Flow!Honest, Flow!Cancellable

LEMMA JourneyInvariance == Spec => [](part = "journey" => Flow!JourneyInv)
<1>1. Init => (part = "journey" => Flow!JourneyInv)
  BY JourneyInitInv DEF Init
<1>2. (part = "journey" => Flow!JourneyInv) /\ [Next]_vars
         => (part = "journey" => Flow!JourneyInv)'
  BY PartSteps, JourneyNextInv, JourneyStutters
<1> QED
  BY <1>1, <1>2, PTL DEF Spec

(***************************************************************************)
(* What the program calls active is connected, a journey without a worker  *)
(* and a waiting result has ended, a test of WARP can be cancelled as long *)
(* as it runs, and a cancellation that was heard is shown until the result *)
(* arrives (connection_state_service.py, main_viewmodel.py): while nothing *)
(* odd happens, there is one worker and its result is the last message.    *)
(***************************************************************************)
THEOREM FlowTold == Spec => [](part = "journey" => Flow!FlowIsTrue)
<1>1. (part = "journey" => Flow!JourneyInv) => (part = "journey" => Flow!FlowIsTrue)
  <2> SUFFICES ASSUME Flow!JourneyInv, v8 = {}
               PROVE  /\ v1.phase = "active" => v1.scope \in v7
                      /\ Flow!Quiet => v1.phase \in {"idle", "active", "failed"}
                      /\ \A w \in Workers : v5[w].pc # "none" =>
                            /\ v2 /\ v1.scope = v5[w].scope
                            /\ v5[w].scope = "warp" /\ v5[w].op = "start" =>
                                  IF v5[w].cancelled THEN v1.phase = "restoring"
                                  ELSE v1.cancellable
    BY DEF Flow!FlowIsTrue
  <2>1. Flow!JourneyTyped /\ Flow!FlowSound
    BY DEF Flow!JourneyInv
  <2>2. Flow!Quiet => ~Flow!Journeying
    BY DEF Flow!Quiet, Flow!Journeying, Flow!Resting, Flow!AtWork
  <2>3. ASSUME NEW w \in Workers, v5[w].pc # "none"
        PROVE  /\ v2 /\ v1.scope = v5[w].scope
               /\ v5[w].scope = "warp" /\ v5[w].op = "start" =>
                     IF v5[w].cancelled THEN v1.phase = "restoring"
                     ELSE v1.cancellable
    BY <2>1, <2>3, TheErrand DEF Flow!Cancellable
  <2> QED
    BY <2>1, <2>2, <2>3 DEF Flow!FlowSound
<1> QED
  BY <1>1, JourneyInvariance, PTL

-------------------------------------------------------------------------------
(***************************************************************************)
(* The types of Journey                                                    *)
(***************************************************************************)
\* What JourneyFits says of the snapshot, and of who makes the program busy
Named == /\ v1.scope = "" <=> v1.phase = "idle"
         /\ v2 => v1.scope # ""
OneBusy ==
    /\ v3 <=> (\E w \in Workers : Flow!Busying(w)) \/ (\E i \in DOMAIN v6 : Flow!Ending(i))
    /\ \A v, w \in Workers : Flow!Busying(v) /\ Flow!Busying(w) => v = w
    /\ \A i, j \in DOMAIN v6 : Flow!Ending(i) /\ Flow!Ending(j) => i = j
    /\ \A w \in Workers, i \in DOMAIN v6 : ~(Flow!Busying(w) /\ Flow!Ending(i))

LEMMA FitsWhole ==
  Flow!JourneyFits <=> Named /\ Len(v6) <= MaxQueue /\ ("lost" \notin v8 => OneBusy)
BY DEF Flow!JourneyFits, Named, OneBusy

LEMMA AdvancedNamed ==
  ASSUME Flow!JourneyTyped, Named, NEW phase \in Flow!Phases, phase # "idle",
         Flow!Advance(phase), v2' = v2
  PROVE  Named'
<1>1. v1'.scope = v1.scope /\ (v2 => v1'.phase = phase) /\ (~v2 => v1' = v1)
  BY Advanced
<1> QED
  BY <1>1 DEF Named

LEMMA CancelledNamed ==
  ASSUME Flow!JourneyTyped, Named, Flow!Cancel, v2' = v2
  PROVE  Named'
<1>1. /\ v1'.scope = v1.scope
      /\ IF v2 /\ v1.cancellable THEN v1'.phase = "restoring" ELSE v1' = v1
  BY CancelledFlow
<1> QED
  BY <1>1 DEF Named

\* Nobody else has become busy.
LEMMA BusyStays ==
  ASSUME OneBusy, UNCHANGED <<v3, v6>>,
         \A x \in Workers : (v5'[x].pc # "none" <=> v5[x].pc # "none") /\ v5'[x].scope = v5[x].scope
  PROVE  OneBusy'
<1>1. \A x \in Workers : Flow!Busying(x)' <=> Flow!Busying(x)
  BY DEF Flow!Busying
<1>2. \A i \in DOMAIN v6 : Flow!Ending(i)' <=> Flow!Ending(i)
  BY DEF Flow!Ending
<1> QED
  BY <1>1, <1>2 DEF OneBusy

LEMMA BeginFits ==
  ASSUME Flow!JourneyTyped, Flow!JourneyFits, NEW w \in Workers, NEW scope \in Flow!Scopes,
         NEW op \in Flow!Ops, Flow!Begin(w, scope, op)
  PROVE  Flow!JourneyFits'
<1> DEFINE base == IF scope = "warp" /\ op = "start"
                   THEN [x \in Workers |-> Flow!Done(v5[x])] ELSE v5
           new == [pc |-> IF op = "start" /\ scope # "app" THEN "fresh" ELSE "work",
                   scope |-> scope, op |-> op, cancelled |-> FALSE]
<1>1. /\ v5[w].pc = "none" /\ (scope # "warp" => ~v3)
      /\ v3' = (v3 \/ scope # "warp") /\ v2' = TRUE /\ v6' = v6
      /\ v5' = [base EXCEPT ![w] = new]
      /\ "lost" \in v8 => "lost" \in v8'
      /\ "lost" \in v8' => "lost" \in v8
  BY DEF Flow!Begin
<1>2. v1'.scope = scope /\ v1'.phase \notin {"idle", "active", "failed"}
      /\ v5'[w].pc # "none" /\ v5'[w].scope = scope
  BY BeginTyped
<1>3. v5 \in [Workers -> Flow!Errands] /\ v3 \in BOOLEAN
  BY DEF Flow!JourneyTyped
<1>4. /\ base \in [Workers -> Flow!Errands]
      /\ \A x \in Workers : base[x].pc = v5[x].pc /\ base[x].scope = v5[x].scope
  <2>1. CASE scope = "warp" /\ op = "start"
    BY <1>3, <2>1, StopsTests
  <2>2. CASE ~(scope = "warp" /\ op = "start")
    BY <1>3, <2>2
  <2> QED
    BY <2>1, <2>2
<1> HIDE DEF base, new
<1>5. \A x \in Workers \ {w} : v5'[x].pc = v5[x].pc /\ v5'[x].scope = v5[x].scope
  BY <1>1, <1>4
<1>6. scope # ""
  BY DEF Flow!Scopes
<1>7. Named'
  BY <1>2, <1>6 DEF Named
<1>8. ASSUME OneBusy PROVE OneBusy'
  <2>1. /\ \A x \in Workers \ {w} : Flow!Busying(x)' <=> Flow!Busying(x)
        /\ ~Flow!Busying(w) /\ (Flow!Busying(w)' <=> scope # "warp")
    BY <1>1, <1>2, <1>5 DEF Flow!Busying
  <2>2. \A i \in DOMAIN v6 : Flow!Ending(i)' <=> Flow!Ending(i)
    BY <1>1 DEF Flow!Ending
  <2>3. CASE scope = "warp"
    <3>1. \A x \in Workers : Flow!Busying(x)' <=> Flow!Busying(x)
      BY <2>1, <2>3
    <3>2. v3' = v3
      BY <1>1, <1>3, <2>3
    <3> QED
      BY <1>1, <1>8, <2>2, <3>1, <3>2 DEF OneBusy
  <2>4. CASE scope # "warp"
    <3>1. /\ \A x \in Workers : ~Flow!Busying(x)
          /\ \A i \in DOMAIN v6 : ~Flow!Ending(i)
      BY <1>1, <1>8, <2>4 DEF OneBusy
    <3>2. /\ \A x \in Workers : Flow!Busying(x)' <=> x = w
          /\ \A i \in DOMAIN v6' : ~Flow!Ending(i)' /\ v3'
      BY <1>1, <2>1, <2>2, <2>4, <3>1
    <3>3. v3' = TRUE
      BY <1>1, <2>4
    <3> QED
      BY <3>2, <3>3 DEF OneBusy
  <2> QED
    BY <2>3, <2>4
<1> QED
  BY <1>1, <1>7, <1>8, FitsWhole DEF Flow!JourneyFits, Named, OneBusy

LEMMA AsideFits ==
  ASSUME Flow!JourneyTyped, Flow!JourneyFits,
         \/ \E w \in Workers : Flow!Testing(w)
         \/ Flow!CancelApp \/ Flow!CancelWarp \/ Flow!UserConnects
         \/ \E scope \in Flow!Scopes : Flow!TakenBack(scope)
         \/ UNCHANGED Flow!journeyVars
  PROVE  Flow!JourneyFits'
<1>1. /\ UNCHANGED <<v2, v3, v6>> /\ ("lost" \in v8' <=> "lost" \in v8)
  BY DEF Flow!Testing, Flow!CancelApp, Flow!CancelWarp, Flow!UserConnects, Flow!TakenBack,
     Flow!journeyVars
<1>2. Named /\ Len(v6) <= MaxQueue /\ ("lost" \notin v8 => OneBusy)
  BY FitsWhole
<1>3. Named' /\ \A x \in Workers : /\ v5'[x].pc # "none" <=> v5[x].pc # "none"
                                   /\ v5'[x].scope = v5[x].scope
  <2>1. ASSUME NEW w \in Workers, Flow!Testing(w)
        PROVE  Named' /\ \A x \in Workers : /\ v5'[x].pc # "none" <=> v5[x].pc # "none"
                                            /\ v5'[x].scope = v5[x].scope
    <3>1. Flow!Advance("testing") /\ v5[w].pc = "fresh" /\ "testing" \in Flow!Phases
      BY <2>1 DEF Flow!Testing, Flow!Phases
    <3>2. Named'
      BY <1>1, <1>2, <3>1, AdvancedNamed
    <3>3. /\ v5'[w].pc = "work" /\ v5'[w].scope = v5[w].scope
          /\ \A x \in Workers \ {w} : v5'[x] = v5[x]
      BY <2>1, TestingStep
    <3> QED
      BY <3>1, <3>2, <3>3
  <2>2. CASE Flow!CancelApp
    <3>1. Flow!Cancel
      BY <2>2 DEF Flow!CancelApp
    <3> QED
      BY <1>1, <1>2, <2>2, <3>1, CancelledNamed, Clicked
  <2>3. CASE Flow!CancelWarp
    <3>1. /\ Flow!Cancel /\ v5 \in [Workers -> Flow!Errands]
          /\ v5' = [x \in Workers |-> Flow!Done(v5[x])]
      BY <2>3 DEF Flow!CancelWarp, Flow!JourneyTyped
    <3> QED
      BY <1>1, <1>2, <3>1, CancelledNamed, StopsTests
  <2>4. CASE UNCHANGED <<v1, v5>>
    BY <1>1, <1>2, <2>4 DEF Named
  <2> QED
    BY <2>1, <2>2, <2>3, <2>4 DEF Flow!UserConnects, Flow!TakenBack, Flow!journeyVars
<1>4. OneBusy => OneBusy'
  BY <1>1, <1>3, BusyStays
<1> QED
  BY <1>1, <1>2, <1>3, <1>4, FitsWhole DEF Flow!JourneyFits, Named, OneBusy

\* A message more in the queue
LEMMA PostedFits ==
  ASSUME v6 \in Seq(Flow!Messages), NEW m \in Flow!Messages, Flow!Post(m)
  PROVE  /\ Len(v6') = Len(v6) + 1 /\ Len(v6) \in Nat /\ Len(v6') <= MaxQueue
         /\ DOMAIN v6 = 1..Len(v6) /\ DOMAIN v6' = 1..(Len(v6) + 1)
         /\ \A i \in DOMAIN v6 : Flow!Ending(i)' <=> Flow!Ending(i)
         /\ Flow!Ending(Len(v6))' <=> m.kind = "done" /\ m.scope # "warp"
<1>1. Len(v6) < MaxQueue /\ v6' = Append(v6, m)
  BY DEF Flow!Post
<1>2. /\ v6' \in Seq(Flow!Messages) /\ Len(v6) \in Nat /\ Len(v6') = Len(v6) + 1
      /\ v6'[Len(v6')] = m /\ \A i \in 1..Len(v6) : v6'[i] = v6[i]
  BY <1>1, Queued
<1>3. DOMAIN v6 = 1..Len(v6) /\ DOMAIN v6' = 1..(Len(v6) + 1)
  BY <1>2, LenProperties
<1>4. \A i \in DOMAIN v6 : Flow!Ending(i)' <=> Flow!Ending(i)
  BY <1>2, <1>3 DEF Flow!Ending
<1>5. Flow!Ending(Len(v6))' <=> m.kind = "done" /\ m.scope # "warp"
  BY <1>2 DEF Flow!Ending
<1>6. Len(v6') <= MaxQueue
  BY <1>1, <1>2, BoundsAssumption
<1> QED
  BY <1>2, <1>3, <1>4, <1>5, <1>6

\* An index of the longer queue is one of the old queue or the new one.
LEMMA OneMore ==
  ASSUME NEW n \in Nat, NEW i \in 1..(n + 1)
  PROVE  i = n + 1 \/ (i # n + 1 /\ i \in 1..n)
OBVIOUS

LEMMA ProgressFits ==
  ASSUME Flow!JourneyTyped, Flow!JourneyFits, NEW w \in Workers,
         NEW phase \in {"testing", "verifying", "restoring"}, Flow!Progress(w, phase)
  PROVE  Flow!JourneyFits'
<1> DEFINE m == [kind |-> phase, scope |-> "app", op |-> "start", outcome |-> "ok"]
<1>1. UNCHANGED <<v1, v2, v3, v5, v8>> /\ Flow!Post(m) /\ v6 \in Seq(Flow!Messages)
  BY DEF Flow!Progress, Flow!JourneyTyped
<1>2. m \in Flow!Messages /\ m.kind # "done"
  BY DEF Flow!Messages, Flow!Scopes, Flow!Ops
<1> HIDE DEF m
<1>3. /\ Len(v6') = Len(v6) + 1 /\ Len(v6) \in Nat /\ Len(v6') <= MaxQueue
      /\ DOMAIN v6 = 1..Len(v6) /\ DOMAIN v6' = 1..(Len(v6) + 1)
      /\ \A i \in DOMAIN v6 : Flow!Ending(i)' <=> Flow!Ending(i)
      /\ ~Flow!Ending(Len(v6))'
  BY <1>1, <1>2, PostedFits
<1>4. Named /\ ("lost" \notin v8 => OneBusy)
  BY FitsWhole
<1>5. ASSUME OneBusy PROVE OneBusy'
  <2>1. \A x \in Workers : Flow!Busying(x)' <=> Flow!Busying(x)
    BY <1>1 DEF Flow!Busying
  <2>2. \A i \in DOMAIN v6' : Flow!Ending(i)' => i \in DOMAIN v6 /\ Flow!Ending(i)
    BY <1>3, OneMore
  <2>3. \A i \in DOMAIN v6 : i \in DOMAIN v6' /\ (Flow!Ending(i) => Flow!Ending(i)')
    BY <1>3
  <2> QED
    BY <1>1, <1>5, <2>1, <2>2, <2>3 DEF OneBusy
<1> QED
  BY <1>1, <1>3, <1>4, <1>5 DEF Flow!JourneyFits, Named, OneBusy

LEMMA FinishFits ==
  ASSUME Flow!JourneyTyped, Flow!JourneyFits, NEW w \in Workers,
         NEW outcome \in {"ok", "kept", "failed", "cancelled"}, Flow!Finish(w, outcome)
  PROVE  Flow!JourneyFits'
<1> DEFINE m == [kind |-> "done", scope |-> v5[w].scope, op |-> v5[w].op, outcome |-> outcome]
<1>1. /\ UNCHANGED <<v1, v2, v3, v8>> /\ Flow!Post(m) /\ v6 \in Seq(Flow!Messages)
      /\ v5[w].pc = "work" /\ v5' = [v5 EXCEPT ![w] = Flow!NoWorker]
  BY DEF Flow!Finish, Flow!JourneyTyped
<1>2. m \in Flow!Messages /\ m.kind = "done" /\ m.scope = v5[w].scope
  <2>1. v5[w].scope \in Flow!Scopes /\ v5[w].op \in Flow!Ops
    BY DEF Flow!JourneyTyped, Flow!Errands
  <2> QED
    BY <2>1 DEF Flow!Messages
<1> HIDE DEF m
<1>3. /\ Len(v6') = Len(v6) + 1 /\ Len(v6) \in Nat /\ Len(v6') <= MaxQueue
      /\ DOMAIN v6 = 1..Len(v6) /\ DOMAIN v6' = 1..(Len(v6) + 1)
      /\ \A i \in DOMAIN v6 : Flow!Ending(i)' <=> Flow!Ending(i)
      /\ Flow!Ending(Len(v6))' <=> v5[w].scope # "warp"
  BY <1>1, <1>2, PostedFits
<1>4. Named /\ ("lost" \notin v8 => OneBusy)
  BY FitsWhole
<1>5. /\ v5'[w].pc = "none" /\ \A x \in Workers \ {w} : v5'[x] = v5[x]
  BY <1>1, NoErrand, WorkTyped
<1>6. ASSUME OneBusy PROVE OneBusy'
  <2>1. /\ \A x \in Workers \ {w} : Flow!Busying(x)' <=> Flow!Busying(x)
        /\ ~Flow!Busying(w)' /\ (Flow!Busying(w) <=> v5[w].scope # "warp")
    BY <1>1, <1>5 DEF Flow!Busying
  <2>2. CASE v5[w].scope = "warp"
    <3>1. \A x \in Workers : Flow!Busying(x)' <=> Flow!Busying(x)
      BY <2>1, <2>2
    <3>2. \A i \in DOMAIN v6' : Flow!Ending(i)' => i \in DOMAIN v6 /\ Flow!Ending(i)
      BY <1>3, <2>2, OneMore
    <3>3. \A i \in DOMAIN v6 : i \in DOMAIN v6' /\ (Flow!Ending(i) => Flow!Ending(i)')
      BY <1>3
    <3> QED
      BY <1>1, <1>6, <3>1, <3>2, <3>3 DEF OneBusy
  <2>3. CASE v5[w].scope # "warp"
    <3>1. v3 /\ \A i \in DOMAIN v6 : ~Flow!Ending(i)
      BY <1>6, <2>1, <2>3 DEF OneBusy
    <3>2. \A x \in Workers : ~Flow!Busying(x)'
      BY <1>6, <2>1, <2>3 DEF OneBusy
    <3>3. \A i \in DOMAIN v6' : Flow!Ending(i)' <=> i = Len(v6) + 1
      BY <1>3, <2>3, <3>1, OneMore
    <3>4. v3' /\ Len(v6) + 1 \in DOMAIN v6'
      BY <1>1, <1>3, <3>1
    <3> QED
      BY <3>2, <3>3, <3>4 DEF OneBusy
  <2> QED
    BY <2>2, <2>3
<1> QED
  BY <1>1, <1>3, <1>4, <1>6 DEF Flow!JourneyFits, Named, OneBusy

LEMMA LostFits ==
  ASSUME Flow!JourneyFits, NEW w \in Workers, Flow!Lost(w)
  PROVE  Flow!JourneyFits'
BY DEF Flow!Lost, Flow!JourneyFits

\* The results that wait, without the first message
LEMMA TakenFits ==
  ASSUME v6 \in Seq(Flow!Messages), v6 # <<>>, v6' = Tail(v6)
  PROVE  /\ Len(v6') = Len(v6) - 1 /\ Len(v6) \in Nat
         /\ DOMAIN v6 = 1..Len(v6) /\ DOMAIN v6' = 1..(Len(v6) - 1) /\ 1 \in DOMAIN v6
         /\ \A i \in DOMAIN v6' : i + 1 \in DOMAIN v6 /\ (Flow!Ending(i)' <=> Flow!Ending(i + 1))
         /\ Flow!Ending(1) <=> Head(v6).kind = "done" /\ Head(v6).scope # "warp"
<1>1. /\ v6' \in Seq(Flow!Messages) /\ Head(v6) = v6[1] /\ Len(v6) \in Nat /\ Len(v6) >= 1
      /\ Len(v6') = Len(v6) - 1 /\ \A i \in 1..Len(v6') : v6'[i] = v6[i + 1]
  BY Dequeued
<1>2. DOMAIN v6 = 1..Len(v6) /\ DOMAIN v6' = 1..(Len(v6) - 1)
  BY <1>1, LenProperties
<1> QED
  BY <1>1, <1>2 DEF Flow!Ending

LEMMA DeliverFits ==
  ASSUME Flow!JourneyTyped, Flow!JourneyFits, Flow!Deliver
  PROVE  Flow!JourneyFits'
<1> DEFINE m == Head(v6)
<1>1. /\ v6 \in Seq(Flow!Messages) /\ v6 # <<>> /\ v6' = Tail(v6) /\ UNCHANGED <<v5, v8>>
      /\ IF m.kind = "done" THEN Flow!OnDone(m) ELSE Flow!OnProgress(m.kind)
  BY DEF Flow!Deliver, Flow!JourneyTyped
<1>2. /\ Len(v6') = Len(v6) - 1 /\ Len(v6) \in Nat
      /\ DOMAIN v6 = 1..Len(v6) /\ DOMAIN v6' = 1..(Len(v6) - 1) /\ 1 \in DOMAIN v6
      /\ \A i \in DOMAIN v6' : i + 1 \in DOMAIN v6 /\ (Flow!Ending(i)' <=> Flow!Ending(i + 1))
      /\ Flow!Ending(1) <=> m.kind = "done" /\ m.scope # "warp"
  BY <1>1, TakenFits
<1>3. m \in Flow!Messages
  BY <1>1, Dequeued
<1> HIDE DEF m
<1>4. Named /\ Len(v6) <= MaxQueue /\ ("lost" \notin v8 => OneBusy)
  BY FitsWhole
<1>5. Named'
  <2>1. CASE m.kind = "done"
    <3>1. CASE Flow!Reset
      <4>1. Flow!Set("", "idle", FALSE) /\ v2' = FALSE /\ "idle" \in Flow!Phases
        BY <3>1 DEF Flow!Reset, Flow!Phases
      <4> QED
        BY <4>1, SetFlow DEF Named
    <3>2. ASSUME NEW phase \in {"active", "failed"}, Flow!Advance(phase), v2' = v2
          PROVE  Named'
      <4>1. phase \in Flow!Phases /\ phase # "idle"
        BY DEF Flow!Phases
      <4> QED
        BY <1>4, <3>2, <4>1, AdvancedNamed
    <3> QED
      BY <1>1, <2>1, <3>1, <3>2 DEF Flow!OnDone
  <2>2. CASE m.kind # "done"
    <3>1. Flow!OnProgress(m.kind) /\ m.kind \in {"testing", "verifying", "restoring"}
      BY <1>1, <1>3, <2>2, MessageFields
    <3>2. /\ v2' = v2 /\ (v1' = v1 \/ Flow!Advance(m.kind))
          /\ m.kind \in Flow!Phases /\ m.kind # "idle"
      BY <3>1 DEF Flow!OnProgress, Flow!Phases
    <3> QED
      BY <1>4, <3>2, AdvancedNamed DEF Named
  <2> QED
    BY <2>1, <2>2
<1>6. v3' = (v3 /\ ~Flow!Ending(1))
  <2>1. CASE m.kind = "done"
    BY <1>1, <1>2, <1>3, <2>1, DoneTyped
  <2>2. CASE m.kind # "done"
    BY <1>1, <1>2, <2>2 DEF Flow!OnProgress, Flow!JourneyTyped
  <2> QED
    BY <2>1, <2>2
<1>7. \A x \in Workers : Flow!Busying(x)' <=> Flow!Busying(x)
  BY <1>1 DEF Flow!Busying
<1>8. ASSUME OneBusy PROVE OneBusy'
  <2>1. \A i, j \in DOMAIN v6' : Flow!Ending(i)' /\ Flow!Ending(j)' => i = j
    BY <1>2, <1>8 DEF OneBusy
  <2>2. CASE Flow!Ending(1)
    <3>1. /\ \A x \in Workers : ~Flow!Busying(x)'
          /\ \A i \in DOMAIN v6' : ~Flow!Ending(i)'
      BY <1>2, <1>7, <1>8, <2>2 DEF OneBusy
    <3> QED
      BY <1>6, <2>2, <3>1 DEF OneBusy
  <2>3. CASE ~Flow!Ending(1)
    <3>1. (\E i \in DOMAIN v6' : Flow!Ending(i)') <=> \E i \in DOMAIN v6 : Flow!Ending(i)
      <4>1. ASSUME NEW i \in DOMAIN v6, Flow!Ending(i) PROVE \E j \in DOMAIN v6' : Flow!Ending(j)'
        <5>1. i \in 1..Len(v6) /\ i # 1
          BY <1>2, <2>3, <4>1
        <5>2. i - 1 \in DOMAIN v6' /\ (i - 1) + 1 = i
          BY <1>2, <5>1
        <5> QED
          BY <1>2, <4>1, <5>2
      <4> QED
        BY <1>2, <4>1
    <3>2. v3' = v3
      BY <1>6, <2>3 DEF Flow!JourneyTyped
    <3>3. \A x \in Workers, i \in DOMAIN v6' : ~(Flow!Busying(x)' /\ Flow!Ending(i)')
      BY <1>2, <1>7, <1>8 DEF OneBusy
    <3> QED
      BY <1>7, <1>8, <2>1, <3>1, <3>2, <3>3 DEF OneBusy
  <2> QED
    BY <2>2, <2>3
<1>9. Len(v6') <= MaxQueue
  BY <1>2, <1>4, BoundsAssumption
<1> QED
  BY <1>1, <1>4, <1>5, <1>8, <1>9 DEF Flow!JourneyFits, Named, OneBusy

LEMMA JourneyNextFits ==
  ASSUME Flow!JourneyInv, Flow!JourneyFits, Flow!JourneyNext \/ UNCHANGED Flow!journeyVars
  PROVE  Flow!JourneyFits'
<1>1. Flow!JourneyTyped
  BY DEF Flow!JourneyInv
<1>2. ASSUME NEW w \in Workers, NEW scope \in Flow!Scopes, NEW op \in Flow!Ops,
             Flow!Begin(w, scope, op)
      PROVE  Flow!JourneyFits'
  BY <1>1, <1>2, BeginFits
<1>3. ASSUME NEW w \in Workers, NEW phase \in {"testing", "verifying", "restoring"},
             Flow!Progress(w, phase)
      PROVE  Flow!JourneyFits'
  BY <1>1, <1>3, ProgressFits
<1>4. ASSUME NEW w \in Workers, NEW outcome \in {"ok", "kept", "failed", "cancelled"},
             Flow!Finish(w, outcome)
      PROVE  Flow!JourneyFits'
  BY <1>1, <1>4, FinishFits
<1> QED
  BY <1>1, <1>2, <1>3, <1>4, AsideFits, LostFits, DeliverFits DEF Flow!JourneyNext

LEMMA JourneyInitFits == Flow!JourneyInit => Flow!JourneyFits
<1> SUFFICES ASSUME Flow!JourneyInit PROVE Flow!JourneyFits
  OBVIOUS
<1>1. /\ v1.scope = "" /\ v1.phase = "idle" /\ v2 = FALSE /\ v3 = FALSE
      /\ \A w \in Workers : v5[w] = Flow!NoWorker
  BY DEF Flow!JourneyInit
<1>2. DOMAIN v6 = {} /\ Len(v6) = 0
  <2>1. v6 = <<>>
    BY DEF Flow!JourneyInit
  <2>2. DOMAIN <<>> = {} /\ Len(<<>>) = 0
    OBVIOUS
  <2> QED
    BY <2>1, <2>2
<1>3. \A w \in Workers : ~Flow!Busying(w)
  BY <1>1, NoErrand DEF Flow!Busying
<1>4. "lost" \notin v8 => Len(v6) <= MaxQueue
  BY <1>2, BoundsAssumption
<1>5. v8 = {}
  BY DEF Flow!JourneyInit
<1> QED
  BY <1>1, <1>2, <1>3, <1>4, <1>5 DEF Flow!JourneyFits

LEMMA JourneyTypes == Flow!JourneyInv /\ Flow!JourneyFits => Flow!JourneyTypeOK
BY DEF Flow!JourneyInv, Flow!JourneyFits, Flow!JourneyTypeOK, Flow!Busying, Flow!Ending

\* The types of Journey follow from an invariant that also says who makes the
\* program busy.
LEMMA JourneyFitting == Spec => [](part = "journey" => Flow!JourneyInv /\ Flow!JourneyFits)
<1>1. Init => (part = "journey" => Flow!JourneyFits)
  BY JourneyInitFits DEF Init
<1>2. /\ part = "journey" => Flow!JourneyInv
      /\ part = "journey" => Flow!JourneyFits
      /\ [Next]_vars
      => (part = "journey" => Flow!JourneyFits)'
  BY PartSteps, JourneyNextFits
<1> QED
  BY <1>1, <1>2, JourneyInvariance, PTL DEF Spec

-------------------------------------------------------------------------------
(***************************************************************************)
(* What the window tells is so: the outcome of a journey, a warning about  *)
(* the route, an update that can be installed and a download that goes on  *)
(* (connection_state_service.py, main_viewmodel.py:440-490,                *)
(* update_dialog.py).                                                      *)
(***************************************************************************)
THEOREM TheWindowIsRight == Spec => []ToldIsTrue
  BY FlowTold, WarnedRight, UpdateToldIsTrue, PTL DEF ToldIsTrue

-------------------------------------------------------------------------------
(***************************************************************************)
(* Tariff: v1 to v6 are cache, tunnel, view, check, inbox and links        *)
(***************************************************************************)
Detections == {"manual", "detected", "unavailable", "tunnel-active"}
Tunnels == {"none", "warp", "vpn"}
Excuses == {"trace", "unsaid", "moved"}
Confidences == {"high", "medium", "low", "limited", "unknown"}

LEMMA RestingCheck ==
  /\ Traffic!Resting \in Traffic!Checks /\ Traffic!Resting.pc = "none"
  /\ Traffic!Resting.listed = {} /\ Traffic!Resting.steps = <<>>
  /\ Traffic!Resting.result = NoResult
<1>1. <<>> \in Seq(Traffic!Steps)
  BY EmptySeq
<1> QED
  BY <1>1 DEF Traffic!Resting, Traffic!Checks

LEMMA CheckFields ==
  ASSUME NEW c \in Traffic!Checks
  PROVE  /\ c.link \in Hosts \cup {NoResult} /\ c.through \in Tunnels
         /\ c.misled \in SUBSET Excuses /\ c.seen \in BOOLEAN
         /\ c.operator \in Detections /\ c.steps \in Seq(Traffic!Steps)
         /\ c.result \in Traffic!Results \cup {NoResult}
         /\ c.pc \in {"none", "look", "walk", "ask", "emit"}
BY DEF Traffic!Checks, Tunnels, Excuses, Detections

LEMMA RestsHonestly == Traffic!CheckIsHonest(Traffic!Resting)
<1>1. DOMAIN <<>> = {}
  OBVIOUS
<1> QED
  BY <1>1, RestingCheck DEF Traffic!CheckIsHonest

\* The worker goes on to pc, and nothing else changes.
LEMMA OnTo ==
  ASSUME NEW c \in Traffic!Checks, NEW pc \in {"look", "emit"}
  PROVE  LET e == [c EXCEPT !.pc = pc]
         IN  /\ e \in Traffic!Checks /\ e.pc = pc /\ e.listed = c.listed
             /\ e.steps = c.steps /\ e.result = c.result
BY DEF Traffic!Checks

LEMMA Begun ==
  ASSUME NEW c \in Traffic!Checks, NEW host \in Hosts
  PROVE  LET e == [c EXCEPT !.pc = "look", !.link = host]
         IN  /\ e \in Traffic!Checks /\ e.pc = "look" /\ e.listed = c.listed
             /\ e.steps = c.steps /\ e.result = c.result
BY DEF Traffic!Checks

LEMMA Excused ==
  ASSUME NEW c \in Traffic!Checks, NEW misled \in SUBSET Excuses
  PROVE  LET e == [c EXCEPT !.misled = misled]
         IN  /\ e \in Traffic!Checks /\ e.pc = c.pc /\ e.listed = c.listed
             /\ e.steps = c.steps /\ e.result = c.result /\ e.misled = misled
             /\ e.through = c.through /\ e.seen = c.seen /\ e.operator = c.operator
BY DEF Traffic!Checks, Excuses

LEMMA Concluded ==
  ASSUME NEW c \in Traffic!Checks, NEW result \in Traffic!Results \cup {NoResult}
  PROVE  LET e == [c EXCEPT !.pc = "emit", !.result = result]
         IN  /\ e \in Traffic!Checks /\ e.pc = "emit" /\ e.listed = c.listed
             /\ e.steps = c.steps /\ e.result = result
BY DEF Traffic!Checks

-------------------------------------------------------------------------------
(***************************************************************************)
(* What a worker may conclude                                              *)
(***************************************************************************)
LEMMA TrustedIsPublished ==
  ASSUME NEW bundle
  PROVE  Traffic!Trusted(bundle) \subseteq Published
BY DEF Traffic!Trusted, Traffic!Verified, Traffic!Listed

LEMMA OperatorIsSafe ==
  ASSUME NEW auto \in BOOLEAN, NEW seen \in BOOLEAN, NEW detected \in BOOLEAN
  PROVE  /\ Traffic!Operator(auto, seen, detected) \in Detections
         /\ seen => Traffic!Operator(auto, seen, detected) # "detected"
BY DEF Traffic!Operator, Detections

\* A hop that the list held is one that the publisher lists.
LEMMA HopIsListed ==
  ASSUME NEW list \in SUBSET Published, NEW host \in Hosts, NEW addresses \in SUBSET Blocks
  PROVE  LET step == [host |-> host, addresses |-> addresses,
                      registered |-> Traffic!Matches(list, host, addresses)]
         IN  /\ step \in Traffic!Steps
             /\ step.registered => Traffic!Matches(Published, step.host, step.addresses)
BY DEF Traffic!Steps, Traffic!Matches

LEMMA HopsAreListed ==
  ASSUME NEW steps \in Seq(Traffic!Steps), NEW step \in Traffic!Steps,
         \A i \in DOMAIN steps : steps[i].registered =>
            Traffic!Matches(Published, steps[i].host, steps[i].addresses),
         step.registered => Traffic!Matches(Published, step.host, step.addresses)
  PROVE  LET new == Append(steps, step)
         IN  /\ new \in Seq(Traffic!Steps) /\ Len(new) \in DOMAIN new
             /\ \A i \in DOMAIN new : new[i].registered =>
                   Traffic!Matches(Published, new[i].host, new[i].addresses)
<1> DEFINE new == Append(steps, step)
<1>1. /\ new \in Seq(Traffic!Steps) /\ Len(new) = Len(steps) + 1 /\ new[Len(steps) + 1] = step
      /\ \A i \in 1..Len(steps) : new[i] = steps[i]
  BY AppendProperties
<1>2. /\ DOMAIN new = 1..Len(new) /\ DOMAIN steps = 1..Len(steps) /\ Len(steps) \in Nat
  BY <1>1, LenProperties
<1> HIDE DEF new
<1>3. ASSUME NEW i \in DOMAIN new, new[i].registered
      PROVE  Traffic!Matches(Published, new[i].host, new[i].addresses)
  <2>1. CASE i = Len(steps) + 1
    BY <1>1, <1>3, <2>1
  <2>2. CASE i # Len(steps) + 1
    <3>1. i \in DOMAIN steps /\ new[i] = steps[i]
      BY <1>1, <1>2, <2>2
    <3> QED
      BY <1>3, <3>1
  <2> QED
    BY <2>1, <2>2
<1> QED
  BY <1>1, <1>2, <1>3 DEF new

\* The verdict on the hops is honest, when the worker knows what it may know.
LEMMA ClassifiedHonestly ==
  ASSUME NEW steps \in Seq(Traffic!Steps), Len(steps) \in DOMAIN steps,
         \A i \in DOMAIN steps : steps[i].registered =>
            Traffic!Matches(Published, steps[i].host, steps[i].addresses),
         v4 \in Traffic!Checks, v4.misled = {} /\ v4.through # "none" => v4.seen,
         v4.seen => v4.operator # "detected"
  PROVE  /\ Traffic!Classified(steps, v4.seen) \in Traffic!Results
         /\ Traffic!Honest(Traffic!Classified(steps, v4.seen))
<1> DEFINE final == steps[Len(steps)]
           matches == {i \in DOMAIN steps : steps[i].registered}
           where == Traffic!Location(final.addresses)
           class == IF final.registered THEN "domestic"
                    ELSE IF matches # {} THEN "mixed"
                    ELSE IF where = "iran" THEN "likely_domestic"
                    ELSE IF where = "foreign" THEN "likely_full" ELSE "unknown"
           open == IF matches = DOMAIN steps THEN "high"
                   ELSE IF matches # {} THEN "medium" ELSE "low"
           confidence == IF class = "unknown" THEN "unknown"
                         ELSE IF v4.seen THEN "limited" ELSE open
           result == Traffic!Classified(steps, v4.seen)
<1>1. /\ result.steps = steps /\ result.class = class /\ result.confidence = confidence
      /\ result.warned = v4.seen /\ result.operator = v4.operator
      /\ result.external = FALSE /\ result.through = v4.through
      /\ result.misled = v4.misled
  BY DEF Traffic!Classified
<1>2. /\ class \in Traffic!Classes /\ confidence \in Confidences
      /\ class = "domestic" => final.registered
      /\ class = "likely_full" => where = "foreign"
      /\ confidence = "high" => ~v4.seen /\ matches = DOMAIN steps
  BY DEF Traffic!Classes, Confidences
<1>3. result = [steps |-> steps, class |-> class, confidence |-> confidence,
                warned |-> v4.seen, operator |-> v4.operator, external |-> FALSE,
                through |-> v4.through, misled |-> v4.misled]
  BY DEF Traffic!Classified
<1>4. /\ v4.through \in Tunnels /\ v4.misled \in SUBSET Excuses /\ v4.seen \in BOOLEAN
      /\ v4.operator \in Detections
  BY CheckFields
<1>5. matches = DOMAIN steps => \A i \in DOMAIN steps : steps[i].registered
  OBVIOUS
<1> HIDE DEF class, confidence, matches, where
<1>6. result \in Traffic!Results
  BY <1>2, <1>3, <1>4 DEF Traffic!Results, Tunnels, Excuses, Detections, Confidences
<1> HIDE DEF result
<1>7. result.class = "domestic" =>
         Traffic!Matches(Published, final.host, final.addresses)
  BY <1>1, <1>2
<1>8. result.confidence = "high" =>
         \A i \in DOMAIN steps : Traffic!Matches(Published, steps[i].host, steps[i].addresses)
  BY <1>1, <1>2, <1>5
<1>9. result.class = "likely_full" => Traffic!Location(final.addresses) = "foreign"
  BY <1>1, <1>2 DEF where
<1>10. result.misled = {} /\ result.through # "none" =>
          result.confidence # "high" /\ result.warned /\ result.operator # "detected"
  BY <1>1, <1>2
<1>11. Traffic!Honest(result)
  BY <1>1, <1>7, <1>8, <1>9, <1>10 DEF Traffic!Honest
<1> QED
  BY <1>6, <1>11 DEF result

\* A third party does not change that.
LEMMA MergedFields ==
  ASSUME NEW r \in Traffic!Results, NEW registered \in BOOLEAN
  PROVE  LET e == Traffic!Merged(r, registered)
         IN  /\ e \in Traffic!Results /\ e.steps = r.steps /\ e.misled = r.misled
             /\ e.through = r.through /\ e.operator = r.operator
             /\ e.class = r.class \/ e.class = "likely_domestic"
             /\ e.confidence = r.confidence \/ e.confidence = "medium"
             /\ r.warned => e.warned
<1>1. CASE registered /\ r.class \in {"unknown", "likely_domestic", "likely_full"}
  <2> DEFINE e == [r EXCEPT !.class = "likely_domestic", !.confidence = "medium",
                            !.external = TRUE]
  <2>1. Traffic!Merged(r, registered) = e
    BY <1>1 DEF Traffic!Merged
  <2>2. /\ e \in Traffic!Results /\ e.steps = r.steps /\ e.misled = r.misled
        /\ e.through = r.through /\ e.operator = r.operator
        /\ e.class = "likely_domestic" /\ e.confidence = "medium" /\ e.warned = r.warned
    BY DEF Traffic!Results, Traffic!Classes
  <2> QED
    BY <2>1, <2>2
<1>2. CASE ~(registered /\ r.class \in {"unknown", "likely_domestic", "likely_full"})
  <2> DEFINE warned == r.warned \/ (r.class = "domestic" /\ ~registered)
             e == [r EXCEPT !.external = TRUE, !.warned = warned]
  <2>1. Traffic!Merged(r, registered) = e
    BY <1>2 DEF Traffic!Merged
  <2>2. warned \in BOOLEAN
    OBVIOUS
  <2>3. r.warned => warned
    OBVIOUS
  <2> HIDE DEF warned
  <2>4. /\ e \in Traffic!Results /\ e.steps = r.steps /\ e.misled = r.misled
        /\ e.through = r.through /\ e.operator = r.operator
        /\ e.class = r.class /\ e.confidence = r.confidence /\ e.warned = warned
    BY <2>2 DEF Traffic!Results
  <2> QED
    BY <2>1, <2>3, <2>4
<1> QED
  BY <1>1, <1>2

LEMMA MergedHonestly ==
  ASSUME NEW r \in Traffic!Results, NEW registered \in BOOLEAN, Traffic!Honest(r)
  PROVE  Traffic!Honest(Traffic!Merged(r, registered))
<1> DEFINE e == Traffic!Merged(r, registered)
<1>1. /\ e.steps = r.steps /\ e.misled = r.misled
      /\ e.through = r.through /\ e.operator = r.operator
      /\ e.class = r.class \/ e.class = "likely_domestic"
      /\ e.confidence = r.confidence \/ e.confidence = "medium"
      /\ r.warned => e.warned
  BY MergedFields
<1> HIDE DEF e
<1>2. Traffic!Honest(e)
  BY <1>1 DEF Traffic!Honest
<1> QED
  BY <1>2 DEF e

-------------------------------------------------------------------------------
(***************************************************************************)
(* The steps                                                               *)
(***************************************************************************)
\* A step of the worker that leaves the widget and its result alone
LEMMA CheckStep ==
  ASSUME Traffic!TariffInv, NEW c \in Traffic!Checks, v4' = c, Traffic!CheckIsHonest(c),
         v2' \in Tunnels, UNCHANGED <<v3, v5>>
  PROVE  Traffic!TariffInv'
<1>1. Traffic!CheckIsHonest(v4)'
  BY DEF Traffic!CheckIsHonest
<1> QED
  BY <1>1 DEF Traffic!TariffInv, Traffic!VerdictIsHonest, Tunnels

LEMMA ListInv ==
  ASSUME Traffic!TariffInv,
         \/ \E document \in Traffic!Documents :
               Traffic!RefreshCatalog(document) \/ Traffic!CacheChanges(document)
         \/ Traffic!ClearHistory
  PROVE  Traffic!TariffInv'
<1>1. UNCHANGED <<v2, v3, v4, v5>>
  BY DEF Traffic!RefreshCatalog, Traffic!CacheChanges, Traffic!ClearHistory
<1>2. v4 \in Traffic!Checks /\ Traffic!CheckIsHonest(v4) /\ v2 \in Tunnels
  BY DEF Traffic!TariffInv, Tunnels
<1> QED
  BY <1>1, <1>2, CheckStep

LEMMA MovesInv ==
  ASSUME Traffic!TariffInv, NEW to \in Tunnels, Traffic!TunnelMoves(to)
  PROVE  Traffic!TariffInv'
<1>1. /\ v2' = to /\ UNCHANGED <<v3, v5>>
      /\ v4' = IF v4.pc = "walk" THEN [v4 EXCEPT !.misled = @ \cup {"moved"}] ELSE v4
  BY DEF Traffic!TunnelMoves
<1>2. v4 \in Traffic!Checks /\ Traffic!CheckIsHonest(v4)
  BY DEF Traffic!TariffInv
<1>3. CASE v4.pc = "walk"
  <2> DEFINE misled == v4.misled \cup {"moved"}
             c == [v4 EXCEPT !.misled = misled]
  <2>1. v4' = c
    BY <1>1, <1>3
  <2>2. misled \in SUBSET Excuses /\ misled # {}
    BY <1>2, CheckFields DEF Excuses
  <2> HIDE DEF misled
  <2>3. /\ c \in Traffic!Checks /\ c.pc = v4.pc /\ c.listed = v4.listed
        /\ c.steps = v4.steps /\ c.result = v4.result /\ c.misled = misled
        /\ c.through = v4.through /\ c.seen = v4.seen /\ c.operator = v4.operator
    BY <1>2, <2>2, Excused
  <2> HIDE DEF c
  <2>4. Traffic!CheckIsHonest(c)
    BY <1>2, <2>2, <2>3 DEF Traffic!CheckIsHonest
  <2> QED
    BY <1>1, <2>1, <2>3, <2>4, CheckStep
<1>4. CASE v4.pc # "walk"
  BY <1>1, <1>2, <1>4, CheckStep
<1> QED
  BY <1>3, <1>4

LEMMA StartInv ==
  ASSUME Traffic!TariffInv, NEW link \in Hosts, Traffic!Start(link)
  PROVE  Traffic!TariffInv'
<1> DEFINE c == [Traffic!Resting EXCEPT !.pc = "look", !.link = link]
<1>1. /\ v4' = c /\ v3' = [busy |-> TRUE, shown |-> NoResult] /\ UNCHANGED <<v2, v5>>
  BY DEF Traffic!Start
<1>2. /\ c \in Traffic!Checks /\ c.pc = "look" /\ c.listed = {}
      /\ c.steps = <<>> /\ c.result = NoResult
  BY RestingCheck, Begun
<1> HIDE DEF c
<1>3. DOMAIN <<>> = {}
  OBVIOUS
<1>4. Traffic!CheckIsHonest(v4)'
  BY <1>1, <1>2, <1>3 DEF Traffic!CheckIsHonest
<1>5. v3'.shown = NoResult
  BY <1>1
<1> QED
  BY <1>1, <1>2, <1>4, <1>5 DEF Traffic!TariffInv, Traffic!VerdictIsHonest

LEMMA LookInv ==
  ASSUME Traffic!TariffInv, NEW said \in BOOLEAN, NEW auto \in BOOLEAN,
         NEW traced \in BOOLEAN, NEW detected \in BOOLEAN, NEW bundle,
         Traffic!LookAround(said, auto, traced, detected, bundle)
  PROVE  Traffic!TariffInv'
<1> DEFINE seen == (v2 = "warp" /\ traced) \/ said
           listed == Traffic!Trusted(bundle)
           operator == Traffic!Operator(auto, seen, detected)
           misled == (IF v2 = "warp" /\ ~seen THEN {"trace"} ELSE {})
                     \cup (IF v2 = "vpn" /\ ~seen THEN {"unsaid"} ELSE {})
           c == [v4 EXCEPT !.pc = "walk", !.through = v2, !.seen = seen,
                           !.listed = listed, !.operator = operator, !.misled = misled]
<1>1. v4' = c /\ UNCHANGED <<v2, v3, v5>>
  BY DEF Traffic!LookAround
<1>2. v4 \in Traffic!Checks /\ Traffic!CheckIsHonest(v4) /\ v2 \in Tunnels
  BY DEF Traffic!TariffInv, Tunnels
<1>3. seen \in BOOLEAN
  OBVIOUS
<1>4. misled \in SUBSET Excuses /\ (misled = {} /\ v2 # "none" => seen)
  BY <1>2 DEF Excuses, Tunnels
<1> HIDE DEF seen, misled
<1>5. operator \in Detections /\ (seen => operator # "detected")
  BY <1>3, OperatorIsSafe
<1>6. listed \subseteq Published /\ listed \in SUBSET (Hosts \cup Blocks \cup Published)
  BY TrustedIsPublished
<1> HIDE DEF operator, listed
<1>9. v4 \in Traffic!Checks /\ v2 \in Tunnels
  BY <1>2
<1>10. misled \in SUBSET Excuses
  BY <1>4
<1>7. /\ c \in Traffic!Checks /\ c.pc = "walk" /\ c.listed = listed
      /\ c.steps = v4.steps /\ c.result = v4.result /\ c.misled = misled
      /\ c.through = v2 /\ c.seen = seen /\ c.operator = operator
  BY <1>3, <1>5, <1>6, <1>9, <1>10 DEF Traffic!Checks, Tunnels, Detections, Excuses
<1> HIDE DEF c
<1>8. Traffic!CheckIsHonest(c)
  BY <1>2, <1>4, <1>5, <1>6, <1>7 DEF Traffic!CheckIsHonest
<1> QED
  BY <1>1, <1>2, <1>7, <1>8, CheckStep

LEMMA VisitInv ==
  ASSUME Traffic!TariffInv, NEW host \in Hosts, NEW addresses \in (SUBSET Blocks) \ {{}},
         Traffic!Visit(host, addresses)
  PROVE  Traffic!TariffInv'
<1> DEFINE step == [host |-> host, addresses |-> addresses,
                    registered |-> Traffic!Matches(v4.listed, host, addresses)]
           steps == Append(v4.steps, step)
           result == Traffic!Classified(steps, v4.seen)
<1>1. /\ v4.pc = "walk" /\ UNCHANGED <<v2, v3, v5>>
      /\ \/ \E target \in Hosts : v4' = [v4 EXCEPT !.steps = steps, !.link = target]
         \/ v4' = [v4 EXCEPT !.pc = "ask", !.listed = {}, !.steps = <<>>, !.result = result]
  BY DEF Traffic!Visit
<1>2. v4 \in Traffic!Checks /\ Traffic!CheckIsHonest(v4) /\ v2 \in Tunnels
  BY DEF Traffic!TariffInv, Tunnels
<1>3. /\ step \in Traffic!Steps
      /\ step.registered => Traffic!Matches(Published, step.host, step.addresses)
  BY <1>2, HopIsListed DEF Traffic!CheckIsHonest
<1> HIDE DEF step
<1>4. /\ steps \in Seq(Traffic!Steps) /\ Len(steps) \in DOMAIN steps
      /\ \A i \in DOMAIN steps : steps[i].registered =>
            Traffic!Matches(Published, steps[i].host, steps[i].addresses)
  BY <1>2, <1>3, CheckFields, HopsAreListed DEF Traffic!CheckIsHonest
<1> HIDE DEF steps
<1>5. CASE \E target \in Hosts : v4' = [v4 EXCEPT !.steps = steps, !.link = target]
  <2>1. PICK target \in Hosts : v4' = [v4 EXCEPT !.steps = steps, !.link = target]
    BY <1>5
  <2> DEFINE c == [v4 EXCEPT !.steps = steps, !.link = target]
  <2>3. v4' = c
    BY <2>1
  <2>5. v4 \in Traffic!Checks
    BY <1>2
  <2>2. /\ c \in Traffic!Checks /\ c.pc = v4.pc /\ c.listed = v4.listed
        /\ c.steps = steps /\ c.result = v4.result /\ c.misled = v4.misled
        /\ c.through = v4.through /\ c.seen = v4.seen /\ c.operator = v4.operator
    BY <1>4, <2>1, <2>5 DEF Traffic!Checks
  <2> HIDE DEF c
  <2>4. Traffic!CheckIsHonest(c)
    BY <1>2, <1>4, <2>2 DEF Traffic!CheckIsHonest
  <2> QED
    BY <1>1, <1>2, <2>2, <2>3, <2>4, CheckStep
<1>6. CASE v4' = [v4 EXCEPT !.pc = "ask", !.listed = {}, !.steps = <<>>, !.result = result]
  <2> DEFINE c == [v4 EXCEPT !.pc = "ask", !.listed = {}, !.steps = <<>>, !.result = result]
  <2>1. v4.misled = {} /\ v4.through # "none" => v4.seen
    BY <1>1, <1>2 DEF Traffic!CheckIsHonest
  <2>2. v4.seen => v4.operator # "detected"
    BY <1>1, <1>2 DEF Traffic!CheckIsHonest
  <2>3. result \in Traffic!Results /\ Traffic!Honest(result)
    BY <1>2, <1>4, <2>1, <2>2, ClassifiedHonestly
  <2> HIDE DEF result
  <2>5. v4' = c
    BY <1>6
  <2>8. v4 \in Traffic!Checks /\ result \in Traffic!Results
    BY <1>2, <2>3
  <2>9. <<>> \in Seq(Traffic!Steps)
    BY EmptySeq
  <2>4. /\ c \in Traffic!Checks /\ c.pc = "ask" /\ c.listed = {} /\ c.steps = <<>>
        /\ c.result = result
    BY <2>8, <2>9 DEF Traffic!Checks
  <2> HIDE DEF c
  <2>6. DOMAIN <<>> = {}
    OBVIOUS
  <2>7. Traffic!CheckIsHonest(c)
    BY <2>3, <2>4, <2>6 DEF Traffic!CheckIsHonest
  <2> QED
    BY <1>1, <1>2, <2>4, <2>5, <2>7, CheckStep
<1> QED
  BY <1>1, <1>5, <1>6

LEMMA ThirdPartyInv ==
  ASSUME Traffic!TariffInv, NEW available \in BOOLEAN, NEW registered \in BOOLEAN,
         Traffic!ThirdParty(available, registered)
  PROVE  Traffic!TariffInv'
<1> DEFINE result == IF available THEN Traffic!Merged(v4.result, registered) ELSE v4.result
           c == [v4 EXCEPT !.pc = "emit", !.result = result]
<1>1. v4.pc = "ask" /\ v4' = c /\ UNCHANGED <<v2, v3, v5>>
  BY DEF Traffic!ThirdParty
<1>2. v4 \in Traffic!Checks /\ Traffic!CheckIsHonest(v4) /\ v2 \in Tunnels
  BY DEF Traffic!TariffInv, Tunnels
<1>3. v4.result \in Traffic!Results
  BY <1>1, <1>2 DEF Traffic!CheckIsHonest
<1>4. result \in Traffic!Results
  BY <1>3, MergedFields
<1>5. Traffic!Honest(result)
  BY <1>1, <1>2, <1>3, MergedHonestly DEF Traffic!CheckIsHonest
<1> HIDE DEF result
<1>6. /\ c \in Traffic!Checks /\ c.pc = "emit" /\ c.listed = v4.listed
      /\ c.steps = v4.steps /\ c.result = result
  BY <1>2, <1>4, Concluded
<1> HIDE DEF c
<1>7. Traffic!CheckIsHonest(c)
  BY <1>2, <1>5, <1>6 DEF Traffic!CheckIsHonest
<1> QED
  BY <1>1, <1>2, <1>6, <1>7, CheckStep

LEMMA EndsInv ==
  ASSUME Traffic!TariffInv, Traffic!WalkFails \/ Traffic!Emit
  PROVE  Traffic!TariffInv'
<1>1. \E r \in {NoResult, v4.result} : v5' = <<r>>
  BY DEF Traffic!WalkFails, Traffic!Fail, Traffic!Emit
<1>2. PICK r \in {NoResult, v4.result} : v5' = <<r>>
  BY <1>1
<1>3. v4' = Traffic!Resting /\ UNCHANGED <<v2, v3>>
  BY DEF Traffic!WalkFails, Traffic!Fail, Traffic!Emit
<1>4. r # NoResult => Traffic!Honest(r)
  BY <1>2 DEF Traffic!TariffInv, Traffic!CheckIsHonest
<1>5. v5'[1] = r
  BY <1>2
<1>6. Traffic!CheckIsHonest(v4)'
  BY <1>3, RestsHonestly DEF Traffic!CheckIsHonest
<1> QED
  BY <1>3, <1>4, <1>5, <1>6, RestingCheck DEF Traffic!TariffInv, Traffic!VerdictIsHonest

LEMMA ShowInv ==
  ASSUME Traffic!TariffInv, NEW remember \in BOOLEAN, Traffic!Show(remember)
  PROVE  Traffic!TariffInv'
<1>1. /\ v5 # <<>> /\ v5' = <<>> /\ v3' = [busy |-> FALSE, shown |-> v5[1]]
      /\ UNCHANGED <<v2, v4>>
  BY DEF Traffic!Show
<1>2. v3'.shown = v5[1]
  BY <1>1
<1>3. Traffic!VerdictIsHonest'
  BY <1>1, <1>2 DEF Traffic!TariffInv, Traffic!VerdictIsHonest
<1>4. Traffic!CheckIsHonest(v4)'
  BY <1>1 DEF Traffic!TariffInv, Traffic!CheckIsHonest
<1> QED
  BY <1>1, <1>3, <1>4 DEF Traffic!TariffInv

LEMMA TariffStutters ==
  ASSUME Traffic!TariffInv, UNCHANGED Traffic!tariffVars
  PROVE  Traffic!TariffInv'
<1>1. UNCHANGED <<v2, v3, v4, v5>>
  BY DEF Traffic!tariffVars
<1>2. v4 \in Traffic!Checks /\ Traffic!CheckIsHonest(v4) /\ v2 \in Tunnels
  BY DEF Traffic!TariffInv, Tunnels
<1> QED
  BY <1>1, <1>2, CheckStep

LEMMA TariffNextInv ==
  ASSUME Traffic!TariffInv, Traffic!TariffNext
  PROVE  Traffic!TariffInv'
<1>1. ASSUME NEW said \in BOOLEAN, NEW auto \in BOOLEAN, NEW traced \in BOOLEAN,
             NEW detected \in BOOLEAN, NEW bundle \in Traffic!Documents,
             Traffic!LookAround(said, auto, traced, detected, bundle)
      PROVE  Traffic!TariffInv'
  BY <1>1, LookInv
<1>2. ASSUME NEW available \in BOOLEAN, NEW registered \in BOOLEAN,
             Traffic!ThirdParty(available, registered)
      PROVE  Traffic!TariffInv'
  BY <1>2, ThirdPartyInv
<1>3. ASSUME NEW remember \in BOOLEAN, Traffic!Show(remember)
      PROVE  Traffic!TariffInv'
  BY <1>3, ShowInv
<1>4. CASE \E document \in Traffic!Documents :
              Traffic!RefreshCatalog(document) \/ Traffic!CacheChanges(document)
  BY <1>4, ListInv
<1>5. CASE \E to \in {"none", "warp", "vpn"} : Traffic!TunnelMoves(to)
  BY <1>5, MovesInv DEF Tunnels
<1>6. CASE \E host \in Hosts : Traffic!Start(host)
  BY <1>6, StartInv
<1>7. CASE \E host \in Hosts, addresses \in (SUBSET Blocks) \ {{}} :
              Traffic!Visit(host, addresses)
  BY <1>7, VisitInv
<1>8. CASE Traffic!WalkFails \/ Traffic!Emit \/ Traffic!ClearHistory
  BY <1>8, EndsInv, ListInv
<1> QED
  BY <1>1, <1>2, <1>3, <1>4, <1>5, <1>6, <1>7, <1>8 DEF Traffic!TariffNext

LEMMA TariffInitInv ==
  ASSUME Traffic!TariffInit
  PROVE  Traffic!TariffInv
<1>1. /\ v2 = "none" /\ v3 = [busy |-> FALSE, shown |-> NoResult]
      /\ v4 = Traffic!Resting /\ v5 = <<>>
  BY DEF Traffic!TariffInit
<1>2. v3.shown = NoResult
  BY <1>1
<1> QED
  BY <1>1, <1>2, RestingCheck, RestsHonestly DEF Traffic!TariffInv, Traffic!VerdictIsHonest

LEMMA TariffInvariance == Spec => [](part = "tariff" => Traffic!TariffInv)
<1>1. Init => (part = "tariff" => Traffic!TariffInv)
  BY TariffInitInv DEF Init
<1>2. (part = "tariff" => Traffic!TariffInv) /\ [Next]_vars
         => (part = "tariff" => Traffic!TariffInv)'
  BY PartSteps, TariffNextInv, TariffStutters
<1> QED
  BY <1>1, <1>2, PTL DEF Spec

(***************************************************************************)
(* Only the signed list makes a link domestic, whatever lay in the cache,  *)
(* was redirected or a third party said, and no verdict behind a tunnel    *)
(* that could be known is sure, unwarned or names the tunnel's operator    *)
(* (traffic_tariff_service.py, linkirani_service.py): for any number of    *)
(* hosts and hops, and also when the build has no publisher's key.         *)
(***************************************************************************)
THEOREM VerdictHonest == Spec => []VerdictIsHonest
<1>1. (part = "tariff" => Traffic!TariffInv) => VerdictIsHonest
  BY DEF VerdictIsHonest, Traffic!TariffInv
<1> QED
  BY <1>1, TariffInvariance, PTL
===============================================================================
