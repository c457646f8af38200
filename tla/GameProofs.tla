------------------------------- MODULE GameProofs -------------------------------
(***************************************************************************)
(* Proofs about the session of a game (GameSession) and about the official *)
(* WARP client (OfficialWarp), as parts of Desktop, and about what both    *)
(* spare of the user's.  v1, v2, ... are the variables of GameSession and, *)
(* further below, those of OfficialWarp, in the order in which Desktop's   *)
(* INSTANCE gives them.                                                    *)
(***************************************************************************)
EXTENDS Desktop, SequenceTheorems, TLAPS

Session == [detected : Games \cup {None}, optimizing : Games \cup {None},
            preflight : Games \cup {None}, locked : BOOLEAN, airOn : BOOLEAN,
            started : SUBSET Game!Channels, pending : SUBSET Game!Channels]
Link == [op : {"none", "connect", "disconnect"}, by : {"none", "user", "game"},
         connected : BOOLEAN, owner : {"none", "user", "game"}]
Links == [Game!Channels -> Link]
AirThread == [game : Games \cup {None}, pc : {"none", "look", "lock"}, fresh : BOOLEAN]

\* LinksFit, of links that are not yet the state's
Fit(links) ==
    \A c \in Game!Channels : /\ links[c].op = "disconnect" => links[c].connected
                             /\ links[c].owner # "none" => links[c].connected

\* The promises about steps, with neither a failover nor the user at work
LockKept == v1.locked /\ v1'.detected = v1.detected =>
               \A c \in Game!Channels : v2'[c].op = "connect" => v2[c].op = "connect"
UserKept == v6' = {} =>
               \A c \in Game!Channels :
                  v2[c].op # "disconnect" /\ v2'[c].op = "disconnect"
                     => v2'[c].owner # "user"

LEMMA GameSteps ==
  ASSUME [Next]_vars
  PROVE  /\ part' = part
         /\ part = "game" => Game!Next \/ UNCHANGED Game!vars
BY DEF Next, vars, GameStep, WarpStep, UpdateStep, RecoveryStep, BudgetStep,
   MemoryStep, TrafficStep, LearningStep, GateStep, BoxStep, LookupStep,
   StoreStep, FlowStep, WatchStep, RankStep, Game!vars

-------------------------------------------------------------------------------
(***************************************************************************)
(* Records and links                                                       *)
(***************************************************************************)
LEMMA SessionTyped ==
  Game!TypeOK <=> /\ v1 \in Session /\ v2 \in Links
                  /\ v3 \subseteq Games /\ v4 \subseteq Games
                  /\ v5 \in AirThread /\ v6 \subseteq Game!Reasons
BY DEF Game!TypeOK, Session, Link, Links, AirThread

LEMMA FitNow == (Game!LinksFit <=> Fit(v2)) /\ (Game!LinksFit' <=> Fit(v2'))
BY DEF Game!LinksFit, Fit

LEMMA NoLinkFields ==
  /\ Game!NoLink \in Link /\ Game!NoLink.op = "none" /\ Game!NoLink.by = "none"
  /\ Game!NoLink.connected = FALSE /\ Game!NoLink.owner = "none"
BY DEF Game!NoLink, Link

LEMMA NoSessionFields ==
  /\ Game!NoSession \in Session /\ Game!NoSession.detected = None
  /\ Game!NoSession.optimizing = None /\ Game!NoSession.locked = FALSE
  /\ Game!NoSession.started = {} /\ Game!NoSession.pending = {}
BY DEF Game!NoSession, Session

LEMMA NoAirFields ==
  Game!NoAir \in AirThread /\ Game!NoAir.pc = "none" /\ Game!NoAir.fresh = FALSE
BY DEF Game!NoAir, AirThread

LEMMA ConnectLinks ==
  ASSUME NEW links \in Links, NEW c \in Game!Channels, NEW who \in {"user", "game"},
         NEW locked \in BOOLEAN
  PROVE  LET new == Game!Connect(links, c, who, locked)
         IN  /\ new \in Links /\ (Fit(links) => Fit(new))
             /\ \A d \in Game!Channels \ {c} : new[d] = links[d]
             /\ Game!Refused(links, c, locked) => new = links
             /\ ~Game!Refused(links, c, locked) =>
                   /\ new[c].op = "connect" /\ new[c].by = who
                   /\ new[c].connected = links[c].connected
                   /\ new[c].owner = links[c].owner
<1> DEFINE new == Game!Connect(links, c, who, locked)
           l == [links[c] EXCEPT !.op = "connect", !.by = who]
<1>1. links[c] \in Link
  BY DEF Links
<1>2. /\ l \in Link /\ l.op = "connect" /\ l.by = who
      /\ l.connected = links[c].connected /\ l.owner = links[c].owner
  BY <1>1 DEF Link
<1>3. CASE Game!Refused(links, c, locked)
  BY <1>3 DEF Game!Connect
<1>4. CASE ~Game!Refused(links, c, locked)
  <2>1. new = [links EXCEPT ![c] = l]
    BY <1>4 DEF Game!Connect
  <2>2. Fit(links) => (l.owner # "none" => l.connected)
    BY <1>2 DEF Fit
  <2> HIDE DEF l, new
  <2>3. /\ new \in Links /\ new[c] = l
        /\ \A d \in Game!Channels \ {c} : new[d] = links[d]
        /\ Fit(links) /\ (l.op = "disconnect" => l.connected)
             /\ (l.owner # "none" => l.connected) => Fit(new)
    BY <1>2, <2>1 DEF Links, Fit
  <2>4. QED
    BY <1>2, <1>4, <2>2, <2>3 DEF new
<1> QED
  BY <1>3, <1>4

LEMMA DisconnectLinks ==
  ASSUME NEW links \in Links, NEW c \in Game!Channels
  PROVE  LET new == Game!Disconnect(links, c)
         IN  /\ new \in Links /\ (Fit(links) => Fit(new))
             /\ \A d \in Game!Channels \ {c} : new[d] = links[d]
             /\ Game!Busy(links, c) \/ ~links[c].connected => new = links
             /\ ~Game!Busy(links, c) /\ links[c].connected =>
                   /\ new[c].op = "disconnect" /\ new[c].by = links[c].by
                   /\ new[c].connected = TRUE /\ new[c].owner = links[c].owner
<1> DEFINE new == Game!Disconnect(links, c)
           l == [links[c] EXCEPT !.op = "disconnect"]
<1>1. links[c] \in Link
  BY DEF Links
<1>2. /\ l \in Link /\ l.op = "disconnect" /\ l.by = links[c].by
      /\ l.connected = links[c].connected /\ l.owner = links[c].owner
  BY <1>1 DEF Link
<1>3. CASE Game!Busy(links, c) \/ ~links[c].connected
  BY <1>3 DEF Game!Disconnect
<1>4. CASE ~Game!Busy(links, c) /\ links[c].connected
  <2>1. new = [links EXCEPT ![c] = l]
    BY <1>4 DEF Game!Disconnect
  <2>2. l.connected = TRUE
    BY <1>1, <1>2, <1>4 DEF Link
  <2> HIDE DEF l, new
  <2>3. /\ new \in Links /\ new[c] = l
        /\ \A d \in Game!Channels \ {c} : new[d] = links[d]
        /\ Fit(links) /\ (l.op = "disconnect" => l.connected)
             /\ (l.owner # "none" => l.connected) => Fit(new)
    BY <1>2, <2>1 DEF Links, Fit
  <2>4. QED
    BY <1>2, <1>4, <2>2, <2>3 DEF new
<1> QED
  BY <1>3, <1>4

LEMMA EndedLinks ==
  ASSUME v2 \in Links, NEW c \in Game!Channels, NEW ok \in BOOLEAN
  PROVE  LET new == Game!Ended(c, ok)
         IN  /\ new \in Links /\ (Fit(v2) => Fit(new))
             /\ \A d \in Game!Channels \ {c} : new[d] = v2[d]
             /\ new[c].op = "none" /\ new[c].by = "none"
             /\ new[c].connected = (ok \/ v2[c].connected)
             /\ new[c].owner = IF ok THEN v2[c].by
                               ELSE IF c = "tunnel" THEN "none" ELSE v2[c].owner
<1> DEFINE new == Game!Ended(c, ok)
           up == ok \/ v2[c].connected
           owner == IF ok THEN v2[c].by ELSE IF c = "tunnel" THEN "none" ELSE v2[c].owner
           l == [v2[c] EXCEPT !.op = "none", !.by = "none", !.connected = up,
                              !.owner = owner]
<1>1. v2[c] \in Link
  BY DEF Links
<1>2. up \in BOOLEAN /\ owner \in {"none", "user", "game"}
  BY <1>1 DEF Link
<1>3. new = [v2 EXCEPT ![c] = l]
  BY DEF Game!Ended
<1>4. Fit(v2) => (owner # "none" => up)
  BY DEF Fit
<1> HIDE DEF up, owner
<1>5. /\ l \in Link /\ l.op = "none" /\ l.by = "none"
      /\ l.connected = up /\ l.owner = owner
  BY <1>1, <1>2 DEF Link
<1> HIDE DEF l, new
<1>6. /\ new \in Links /\ new[c] = l
      /\ \A d \in Game!Channels \ {c} : new[d] = v2[d]
      /\ Fit(v2) /\ (l.op = "disconnect" => l.connected)
           /\ (l.owner # "none" => l.connected) => Fit(new)
  BY <1>3, <1>5 DEF Links, Fit
<1> QED
  BY <1>4, <1>5, <1>6 DEF new, up, owner

\* What is noted: the properties are about behaviours without any of it.
LEMMA MissNoted ==
  ASSUME v6 \subseteq Game!Reasons, NEW reasons \in SUBSET Game!Reasons,
         Game!Note(reasons)
  PROVE  v6' \subseteq Game!Reasons /\ (v6' = {} => v6 = {} /\ reasons = {})
BY DEF Game!Note

\* What there is to show of a step
LEMMA Closes ==
  ASSUME v1' \in Session, v2' \in Links, v3' \subseteq Games, v4' \subseteq Games,
         v5' \in AirThread, v6' \subseteq Game!Reasons, Fit(v2'),
         Game!LockFits', Game!LockEndsWithGame', v6' = {} => Game!NotesFit'
  PROVE  Game!GameInv'
BY DEF Game!GameInv, Game!TypeOK, Game!LinksFit, Fit, Session, Links, Link, AirThread

LEMMA InvTyped ==
  ASSUME Game!GameInv
  PROVE  /\ v1 \in Session /\ v2 \in Links /\ Fit(v2)
         /\ v3 \subseteq Games /\ v4 \subseteq Games
         /\ v5 \in AirThread /\ v6 \subseteq Game!Reasons
         /\ v1.detected \in Games \cup {None} /\ v1.optimizing \in Games \cup {None}
         /\ v1.locked \in BOOLEAN
         /\ v1.started \subseteq Game!Channels /\ v1.pending \subseteq Game!Channels
BY SessionTyped, FitNow DEF Game!GameInv, Session

-------------------------------------------------------------------------------
(***************************************************************************)
(* The session                                                             *)
(***************************************************************************)
\* An optimisation by a preflight, which only the session tells, or by preferred
\* links, which are noted in the history.
LEMMA PreferredStep ==
  ASSUME v2 \in Links, Fit(v2), v6 \subseteq Game!Reasons, NEW s \in Session,
         NEW g \in Games, NEW reasons \in SUBSET Game!Reasons,
         Game!ApplyPreferred(s, g, reasons)
  PROVE  /\ v1' \in Session /\ v1'.detected = s.detected
         /\ v1'.optimizing = s.optimizing /\ v1'.locked = s.locked
         /\ v1'.started = s.started /\ v1'.pending = s.pending
         /\ v2' \in Links /\ Fit(v2')
         /\ v6' \subseteq Game!Reasons
         /\ v6' = {} => v6 = {} /\ reasons = {} /\ v2' = v2
         /\ \A c \in Game!Channels :
               /\ v2'[c].op = "disconnect" => v2[c].op = "disconnect"
               /\ s.locked /\ v2'[c].op = "connect" => v2[c].op = "connect"
<1>1. CASE v1' = Game!Optimize(s, g) /\ v2' = v2 /\ Game!Note(reasons)
  <2>1. /\ v1' \in Session /\ v1'.detected = s.detected
        /\ v1'.optimizing = s.optimizing /\ v1'.locked = s.locked
        /\ v1'.started = s.started /\ v1'.pending = s.pending
    BY <1>1 DEF Game!Optimize, Session
  <2> QED
    BY <1>1, <2>1, MissNoted
<1>2. ASSUME NEW wanted \in SUBSET Game!Channels, v1' = s,
             v2' = [c \in Game!Channels |->
                      IF c \in wanted THEN Game!Connect(v2, c, "game", s.locked)[c]
                      ELSE v2[c]],
             Game!Note(reasons \cup IF v2' = v2 THEN {} ELSE {"unmarked"})
      PROVE  /\ v2' \in Links /\ Fit(v2')
             /\ v6' \subseteq Game!Reasons
             /\ v6' = {} => v6 = {} /\ reasons = {} /\ v2' = v2
             /\ \A c \in Game!Channels :
                   /\ v2'[c].op = "disconnect" => v2[c].op = "disconnect"
                   /\ s.locked /\ v2'[c].op = "connect" => v2[c].op = "connect"
  <2>1. s.locked \in BOOLEAN
    BY DEF Session
  <2>2. ASSUME NEW c \in Game!Channels
        PROVE  LET l == Game!Connect(v2, c, "game", s.locked)[c]
               IN  /\ l \in Link /\ (l.op = "disconnect" => l.connected)
                   /\ l.owner # "none" => l.connected
                   /\ l.op = "disconnect" => v2[c].op = "disconnect"
                   /\ s.locked /\ l.op = "connect" => v2[c].op = "connect"
    <3> DEFINE new == Game!Connect(v2, c, "game", s.locked)
    <3>1. /\ new \in Links /\ Fit(new)
          /\ Game!Refused(v2, c, s.locked) => new = v2
          /\ ~Game!Refused(v2, c, s.locked) => new[c].op = "connect"
      BY <2>1, ConnectLinks
    <3> HIDE DEF new
    <3>2. new[c] \in Link /\ (new[c].op = "disconnect" => new[c].connected)
          /\ (new[c].owner # "none" => new[c].connected)
      BY <3>1 DEF Links, Fit
    <3>3. s.locked => Game!Refused(v2, c, s.locked)
      BY DEF Game!Refused
    <3> QED
      BY <3>1, <3>2, <3>3 DEF new
  <2>3. \A c \in Game!Channels : v2[c] \in Link
    BY DEF Links
  <2>4. v2' \in Links /\ Fit(v2')
    BY <1>2, <2>2, <2>3 DEF Links, Fit
  <2>5. "unmarked" \in Game!Reasons
    BY DEF Game!Reasons
  <2>6. /\ v6' \subseteq Game!Reasons
        /\ v6' = {} => v6 = {} /\ reasons = {} /\ v2' = v2
    <3> DEFINE all == reasons \cup IF v2' = v2 THEN {} ELSE {"unmarked"}
    <3>1. all \in SUBSET Game!Reasons /\ (all = {} => reasons = {} /\ v2' = v2)
      BY <2>5
    <3>2. Game!Note(all)
      BY <1>2
    <3> HIDE DEF all
    <3> QED
      BY <3>1, <3>2, MissNoted
  <2> QED
    BY <1>2, <2>2, <2>4, <2>6
<1> QED
  BY <1>1, <1>2 DEF Game!ApplyPreferred

LEMMA HandoverReasons ==
  ASSUME NEW g \in Games
  PROVE  /\ Game!Handover(g) \in SUBSET Game!Reasons
         /\ Game!Handover(g) = {} => v1.optimizing \in {None, g}
BY DEF Game!Handover, Game!Reasons

LEMMA OptimizeByHandInv ==
  ASSUME Game!GameInv, NEW g \in Games, Game!OptimizeByHand(g)
  PROVE  Game!GameInv' /\ LockKept /\ UserKept
<1> DEFINE reasons == IF g = v1.detected THEN {} ELSE {"absent"}
<1>1. Game!ApplyPreferred(v1, g, reasons) /\ UNCHANGED <<v3, v4, v5>>
  BY DEF Game!OptimizeByHand
<1>2. reasons \in SUBSET Game!Reasons
  BY DEF Game!Reasons
<1> HIDE DEF reasons
<1>3. /\ v1' \in Session /\ v1'.detected = v1.detected
      /\ v1'.optimizing = v1.optimizing /\ v1'.locked = v1.locked
      /\ v1'.started = v1.started /\ v1'.pending = v1.pending
      /\ v2' \in Links /\ Fit(v2')
      /\ v6' \subseteq Game!Reasons
      /\ v6' = {} => v6 = {} /\ v2' = v2
  BY <1>1, <1>2, InvTyped, PreferredStep
<1>4. Game!LockFits' /\ Game!LockEndsWithGame'
  BY <1>1, <1>3 DEF Game!GameInv, Game!LockFits, Game!LockEndsWithGame
<1>5. v6' = {} => Game!NotesFit'
  BY <1>1, <1>3 DEF Game!GameInv, Game!NotesFit
<1>6. LockKept /\ UserKept
  BY <1>1, <1>2, InvTyped, PreferredStep DEF LockKept, UserKept
<1> QED
  BY <1>1, <1>3, <1>4, <1>5, <1>6, InvTyped, Closes

LEMMA GameDetectedInv ==
  ASSUME Game!GameInv, NEW g \in Games, Game!GameDetected(g)
  PROVE  Game!GameInv' /\ LockKept /\ UserKept
<1> DEFINE s == [v1 EXCEPT !.detected = g, !.locked = FALSE]
<1>1. /\ \/ Game!ApplyPreferred(s, g, Game!Handover(g))
         \/ v1' = s /\ v2' = v2 /\ Game!Note(Game!Handover(g))
      /\ v5' = [v5 EXCEPT !.fresh = FALSE] /\ UNCHANGED <<v3, v4>>
      /\ g # v1.detected
  BY DEF Game!GameDetected, Game!NewGeneration
<1>2. /\ s \in Session /\ s.detected = g /\ s.optimizing = v1.optimizing
      /\ s.locked = FALSE /\ s.started = v1.started /\ s.pending = v1.pending
  BY InvTyped DEF Session
<1>3. v5' \in AirThread /\ v5'.fresh = FALSE /\ v5'.game = v5.game /\ v5'.pc = v5.pc
  BY <1>1, InvTyped DEF AirThread
<1> HIDE DEF s
<1>4. /\ v1' \in Session /\ v1'.detected = g
      /\ v1'.optimizing = v1.optimizing /\ v1'.locked = FALSE
      /\ v1'.started = v1.started /\ v1'.pending = v1.pending
      /\ v2' \in Links /\ Fit(v2')
      /\ v6' \subseteq Game!Reasons
      /\ v6' = {} => v6 = {} /\ Game!Handover(g) = {} /\ v2' = v2
  <2>1. CASE Game!ApplyPreferred(s, g, Game!Handover(g))
    BY <1>2, <2>1, InvTyped, PreferredStep, HandoverReasons
  <2>2. CASE v1' = s /\ v2' = v2 /\ Game!Note(Game!Handover(g))
    BY <1>2, <2>2, InvTyped, MissNoted, HandoverReasons
  <2> QED
    BY <1>1, <2>1, <2>2
<1>5. Game!LockFits' /\ Game!LockEndsWithGame'
  BY <1>3, <1>4, NoGameAssumption DEF Game!GameInv, Game!LockFits, Game!LockEndsWithGame
<1>6. v6' = {} => Game!NotesFit'
  BY <1>1, <1>4, HandoverReasons DEF Game!GameInv, Game!NotesFit
<1>7. LockKept /\ UserKept
  BY <1>1, <1>4, HandoverReasons DEF LockKept, UserKept
<1> QED
  BY <1>1, <1>3, <1>4, <1>5, <1>6, <1>7, InvTyped, Closes

LEMMA AcceptCandidateInv ==
  ASSUME Game!GameInv, NEW g \in Games, Game!AcceptCandidate(g)
  PROVE  Game!GameInv' /\ LockKept /\ UserKept
<1> DEFINE s == [v1 EXCEPT !.detected = g]
<1>1. /\ v1' = Game!Optimize(s, g) /\ Game!Note(Game!Handover(g))
      /\ UNCHANGED <<v2, v3, v4, v5>> /\ g # v1.detected
  BY DEF Game!AcceptCandidate
<1>2. /\ s \in Session /\ s.detected = g /\ s.optimizing = v1.optimizing
      /\ s.locked = v1.locked /\ s.started = v1.started /\ s.pending = v1.pending
  BY InvTyped DEF Session
<1> HIDE DEF s
<1>3. /\ v1' \in Session /\ v1'.detected = g /\ v1'.optimizing = v1.optimizing
      /\ v1'.locked = v1.locked /\ v1'.started = v1.started
      /\ v1'.pending = v1.pending
  BY <1>1, <1>2 DEF Game!Optimize, Session
<1>4. /\ v6' \subseteq Game!Reasons
      /\ v6' = {} => v6 = {} /\ Game!Handover(g) = {}
  BY <1>1, InvTyped, MissNoted, HandoverReasons
<1>5. Game!LockFits' /\ Game!LockEndsWithGame'
  BY <1>1, <1>3, NoGameAssumption DEF Game!GameInv, Game!LockFits, Game!LockEndsWithGame
<1>6. v6' = {} => Game!NotesFit'
  BY <1>1, <1>3, <1>4, HandoverReasons DEF Game!GameInv, Game!NotesFit
<1>7. LockKept /\ UserKept
  BY <1>1, <1>3 DEF LockKept, UserKept
<1> QED
  BY <1>1, <1>3, <1>4, <1>5, <1>6, <1>7, InvTyped, Closes

LEMMA QosWorkerEndsInv ==
  ASSUME Game!GameInv, NEW g \in Games, Game!QosWorkerEnds(g)
  PROVE  Game!GameInv' /\ LockKept /\ UserKept
<1> DEFINE reasons == IF v1.optimizing = g THEN {} ELSE {"marked"}
<1>1. /\ Game!Note(reasons) /\ UNCHANGED <<v1, v2, v5>>
      /\ v3' \in {v3, v3 \cup {g}} /\ v4' = v4 \ {g}
  BY DEF Game!QosWorkerEnds
<1>2. reasons \in SUBSET Game!Reasons
  BY DEF Game!Reasons
<1>3. v6' \subseteq Game!Reasons /\ (v6' = {} => v6 = {} /\ reasons = {})
  BY <1>1, <1>2, InvTyped, MissNoted
<1>4. Game!LockFits' /\ Game!LockEndsWithGame'
  BY <1>1, <1>3 DEF Game!GameInv, Game!LockFits, Game!LockEndsWithGame
<1>5. v6' = {} => Game!NotesFit'
  BY <1>1, <1>3 DEF Game!GameInv, Game!NotesFit
<1>6. LockKept /\ UserKept
  BY <1>1, <1>3 DEF LockKept, UserKept
<1> QED
  BY <1>1, <1>3, <1>4, <1>5, <1>6, InvTyped, Closes

LEMMA TearDownInv ==
  ASSUME Game!GameInv, v1.detected # None, v1.optimizing = v1.detected,
         Game!TearDown([v1 EXCEPT !.detected = None, !.locked = FALSE, !.airOn = FALSE],
                       v2),
         v5' = [v5 EXCEPT !.fresh = FALSE], v4' = v4
  PROVE  Game!GameInv' /\ LockKept /\ UserKept
<1> DEFINE connected == {c \in v1.started : v2[c].connected}
           waiting == {c \in v1.started \ connected : Game!Busy(v2, c)}
           reasons == IF \E c \in connected : v2[c].op = "connect" THEN {"refused"} ELSE {}
           s == [v1 EXCEPT !.detected = None, !.locked = FALSE, !.airOn = FALSE]
           t == [s EXCEPT !.optimizing = None, !.started = {}, !.pending = @ \cup waiting]
<1>1. /\ s \in Session /\ s.started = v1.started /\ s.optimizing = v1.optimizing
      /\ s.pending = v1.pending /\ s.detected = None /\ s.locked = FALSE
  BY InvTyped DEF Session
<1> HIDE DEF s
<1>2. /\ v1' = t
      /\ v2' = [c \in Game!Channels |-> IF c \in connected THEN Game!Disconnect(v2, c)[c]
                                       ELSE v2[c]]
      /\ v3' = v3 \ {v1.optimizing} /\ Game!Note(reasons)
  BY <1>1 DEF Game!TearDown, s
<1>3. waiting \subseteq Game!Channels
  BY InvTyped
<1>4. /\ t \in Session /\ t.detected = None /\ t.optimizing = None /\ t.locked = FALSE
      /\ t.started = {} /\ t.pending = v1.pending \cup waiting
  <2> HIDE DEF waiting
  <2> QED
    BY <1>1, <1>3 DEF Session
<1>5. v5' \in AirThread /\ v5'.fresh = FALSE /\ v5'.game = v5.game /\ v5'.pc = v5.pc
  BY InvTyped DEF AirThread
<1>6. reasons \in SUBSET Game!Reasons
  BY DEF Game!Reasons
<1>7. v6' \subseteq Game!Reasons /\ (v6' = {} => v6 = {} /\ reasons = {})
  BY <1>2, <1>6, InvTyped, MissNoted
<1>8. ASSUME NEW c \in Game!Channels
      PROVE  /\ v2'[c] \in Link /\ v2[c] \in Link
             /\ v2'[c].op = "disconnect" => v2'[c].connected
             /\ v2'[c].owner # "none" => v2'[c].connected
             /\ v2'[c] # v2[c] => /\ c \in connected /\ v2[c].op = "none"
                                  /\ v2'[c].op = "disconnect"
                                  /\ v2'[c].owner = v2[c].owner
             /\ c \in connected /\ v2[c].op = "none" => v2'[c].op = "disconnect"
  <2> DEFINE new == Game!Disconnect(v2, c)
  <2>1. /\ new \in Links /\ Fit(new)
        /\ Game!Busy(v2, c) \/ ~v2[c].connected => new = v2
        /\ ~Game!Busy(v2, c) /\ v2[c].connected =>
              new[c].op = "disconnect" /\ new[c].owner = v2[c].owner
    BY InvTyped, DisconnectLinks
  <2>2. v2'[c] = IF c \in connected THEN new[c] ELSE v2[c]
    BY <1>2
  <2>3. v2 \in Links /\ Fit(v2)
    BY InvTyped
  <2> HIDE DEF new
  <2> QED
    BY <2>1, <2>2, <2>3 DEF Links, Fit, Game!Busy
<1>9. v2' \in Links /\ Fit(v2')
  BY <1>2, <1>8 DEF Links, Fit
<1>10. Game!LockFits' /\ Game!LockEndsWithGame'
  BY <1>2, <1>4, <1>5 DEF Game!GameInv, Game!LockFits, Game!LockEndsWithGame
<1>11. ASSUME v6' = {} PROVE Game!NotesFit'
  <2>1. Game!NotesFit /\ \A c \in connected : v2[c].op # "connect"
    BY <1>7, <1>11 DEF Game!GameInv
  <2>2. v1'.optimizing = None /\ v1'.started = {} /\ v3' = {}
    BY <1>2, <1>4, <2>1 DEF Game!NotesFit
  <2>3. ASSUME NEW c \in Game!Channels
        PROVE  Game!NoteFits(v2'[c], FALSE, c \in v1.pending \cup waiting)
    <3>1. Game!NoteFits(v2[c], c \in v1.started, c \in v1.pending)
      BY <2>1 DEF Game!NotesFit
    <3>2. v2[c].op \in {"none", "connect", "disconnect"}
      BY <1>8 DEF Link
    <3>3. /\ v2[c].op = "disconnect" => v2[c].connected
          /\ v2[c].owner # "none" => v2[c].connected
      BY InvTyped DEF Fit
    <3>4. CASE c \in connected
      BY <1>8, <2>1, <3>1, <3>2, <3>4 DEF Game!NoteFits
    <3>5. CASE c \notin connected /\ c \in v1.started
      <4>1. v2'[c] = v2[c] /\ ~v2[c].connected
        BY <1>8, <3>5
      <4>2. c \in waiting <=> v2[c].op = "connect"
        BY <3>2, <3>3, <3>5, <4>1 DEF Game!Busy
      <4> HIDE DEF waiting
      <4> QED
        BY <3>1, <3>2, <3>3, <3>5, <4>1, <4>2 DEF Game!NoteFits
    <3>6. CASE c \notin v1.started
      <4>1. v2'[c] = v2[c] /\ c \notin waiting
        BY <1>8, <3>6
      <4> QED
        BY <3>1, <3>6, <4>1 DEF Game!NoteFits
    <3> QED
      BY <3>4, <3>5, <3>6
  <2>4. v1' \in Session /\ v1'.detected = None /\ v1'.pending = v1.pending \cup waiting
    BY <1>2, <1>4
  <2> HIDE DEF t, waiting
  <2>5. \A c \in Game!Channels :
           Game!NoteFits(v2'[c], c \in v1'.started, c \in v1'.pending)
    BY <2>2, <2>3, <2>4 DEF Game!NoteFits
  <2> QED
    BY <2>2, <2>4, <2>5 DEF Game!NotesFit
<1>12. Game!GameInv'
  <2>1. v3' \subseteq Games /\ v4' \subseteq Games
    BY <1>2, InvTyped
  <2> QED
    BY <1>2, <1>4, <1>5, <1>7, <1>9, <1>10, <1>11, <2>1, Closes
<1>13. LockKept
  BY <1>8 DEF LockKept
<1>14. ASSUME v6' = {}, NEW c \in Game!Channels,
              v2[c].op # "disconnect", v2'[c].op = "disconnect"
       PROVE  v2'[c].owner # "user"
  <2>1. Game!NoteFits(v2[c], c \in v1.started, c \in v1.pending)
    BY <1>7, <1>14 DEF Game!GameInv, Game!NotesFit
  <2>2. c \in v1.started /\ v2[c].op = "none" /\ v2'[c].owner = v2[c].owner
    BY <1>8, <1>14
  <2> QED
    BY <2>1, <2>2 DEF Game!NoteFits
<1> QED
  BY <1>12, <1>13, <1>14 DEF UserKept

LEMMA GameGoneInv ==
  ASSUME Game!GameInv, Game!GameGone PROVE Game!GameInv' /\ LockKept /\ UserKept
<1>1. CASE v1.optimizing = v1.detected
  BY <1>1, TearDownInv DEF Game!GameGone, Game!NewGeneration
<1>2. CASE v1.optimizing # v1.detected
  <2> DEFINE s == [v1 EXCEPT !.detected = None, !.locked = FALSE, !.airOn = FALSE]
  <2>1. v1' = s /\ v5' = [v5 EXCEPT !.fresh = FALSE] /\ UNCHANGED <<v2, v3, v4, v6>>
    BY <1>2 DEF Game!GameGone, Game!NewGeneration
  <2>2. /\ s \in Session /\ s.started = v1.started /\ s.optimizing = v1.optimizing
        /\ s.pending = v1.pending /\ s.detected = None /\ s.locked = FALSE
    BY InvTyped DEF Session
  <2>3. v5' \in AirThread /\ v5'.fresh = FALSE /\ v5'.game = v5.game /\ v5'.pc = v5.pc
    BY <2>1, InvTyped DEF AirThread
  <2> HIDE DEF s
  <2>4. Game!LockFits' /\ Game!LockEndsWithGame'
    BY <2>1, <2>2, <2>3 DEF Game!GameInv, Game!LockFits, Game!LockEndsWithGame
  <2>5. v6' = {} => Game!NotesFit'
    BY <1>2, <2>1, <2>2 DEF Game!GameInv, Game!NotesFit
  <2>6. LockKept /\ UserKept
    BY <2>1 DEF LockKept, UserKept
  <2> QED
    BY <2>1, <2>2, <2>3, <2>4, <2>5, <2>6, InvTyped, Closes
<1> QED
  BY <1>1, <1>2

LEMMA PreflightCompletedInv ==
  ASSUME Game!GameInv, Game!PreflightCompleted PROVE Game!GameInv' /\ UserKept
<1> DEFINE g == v1.preflight
           idle == [v1 EXCEPT !.preflight = None]
<1>1. g \in Games /\ UNCHANGED <<v3, v5>>
  BY InvTyped DEF Game!PreflightCompleted, Session
<1>2. /\ idle \in Session /\ idle.detected = v1.detected
      /\ idle.optimizing = v1.optimizing /\ idle.locked = v1.locked
      /\ idle.started = v1.started /\ idle.pending = v1.pending
      /\ idle.airOn \in BOOLEAN
  BY InvTyped DEF Session
<1> HIDE DEF idle
<1>3. CASE v1' = idle /\ UNCHANGED <<v2, v4, v6>>
  <2>1. Game!LockFits' /\ Game!LockEndsWithGame'
    BY <1>1, <1>2, <1>3 DEF Game!GameInv, Game!LockFits, Game!LockEndsWithGame
  <2>2. v6' = {} => Game!NotesFit'
    BY <1>1, <1>2, <1>3 DEF Game!GameInv, Game!NotesFit
  <2>3. UserKept
    BY <1>3 DEF UserKept
  <2> QED
    BY <1>1, <1>2, <1>3, <2>1, <2>2, <2>3, InvTyped, Closes
<1>4. ASSUME NEW c \in Game!Channels, NEW mark \in BOOLEAN, NEW air_lite \in BOOLEAN,
             v1' = [idle EXCEPT !.optimizing = g, !.locked = FALSE, !.pending = {},
                                !.airOn = air_lite \/ @, !.started = {c}],
             v2' = Game!Connect(v2, c, "game", FALSE),
             v4' = IF mark THEN v4 \cup {g} ELSE v4,
             Game!Note((IF v1.detected # g THEN {"late"} ELSE {})
                       \cup (IF Game!Busy(v2, c) THEN {"joined"} ELSE {})
                       \cup Game!Handover(g)
                       \cup (IF \E d \in Game!Channels \ {c} :
                                  "game" \in {v2[d].by, v2[d].owner}
                             THEN {"forgotten"} ELSE {}))
      PROVE  Game!GameInv' /\ UserKept
  <2> DEFINE reasons == (IF v1.detected # g THEN {"late"} ELSE {})
                        \cup (IF Game!Busy(v2, c) THEN {"joined"} ELSE {})
                        \cup Game!Handover(g)
                        \cup (IF \E d \in Game!Channels \ {c} :
                                   "game" \in {v2[d].by, v2[d].owner}
                              THEN {"forgotten"} ELSE {})
             airOn == air_lite \/ idle.airOn
             e == [idle EXCEPT !.optimizing = g, !.locked = FALSE, !.pending = {},
                               !.airOn = airOn, !.started = {c}]
  <2>1. v1' = e /\ Game!Note(reasons)
    BY <1>4
  <2>2. /\ e \in Session /\ e.detected = v1.detected /\ e.optimizing = g
        /\ e.locked = FALSE /\ e.started = {c} /\ e.pending = {}
    <3>1. airOn \in BOOLEAN /\ {c} \in SUBSET Game!Channels
      BY <1>2
    <3> HIDE DEF airOn, g
    <3> QED
      BY <1>1, <1>2, <3>1 DEF Session
  <2>3. reasons \in SUBSET Game!Reasons
    BY <1>1, HandoverReasons DEF Game!Reasons
  <2>4. reasons = {} => /\ v1.detected = g /\ ~Game!Busy(v2, c)
                        /\ Game!Handover(g) = {}
                        /\ \A d \in Game!Channels \ {c} :
                              v2[d].by # "game" /\ v2[d].owner # "game"
    OBVIOUS
  <2> HIDE DEF reasons, e, airOn
  <2>5. v6' \subseteq Game!Reasons /\ (v6' = {} => v6 = {} /\ reasons = {})
    BY <2>1, <2>3, InvTyped, MissNoted
  <2>6. /\ v2' \in Links /\ Fit(v2')
        /\ \A d \in Game!Channels \ {c} : v2'[d] = v2[d]
        /\ ~Game!Busy(v2, c) => /\ v2'[c].op = "connect" /\ v2'[c].by = "game"
                                /\ v2'[c].owner = v2[c].owner
        /\ Game!Busy(v2, c) => v2' = v2
    <3> DEFINE new == Game!Connect(v2, c, "game", FALSE)
    <3>1. /\ new \in Links /\ (Fit(v2) => Fit(new))
          /\ \A d \in Game!Channels \ {c} : new[d] = v2[d]
          /\ ~Game!Refused(v2, c, FALSE) => /\ new[c].op = "connect"
                                           /\ new[c].by = "game"
                                           /\ new[c].owner = v2[c].owner
          /\ Game!Refused(v2, c, FALSE) => new = v2
      BY InvTyped, ConnectLinks
    <3>2. v2' = new /\ Fit(v2)
      BY <1>4, InvTyped
    <3> HIDE DEF new
    <3> QED
      BY <3>1, <3>2 DEF Game!Refused
  <2>7. Game!LockFits' /\ Game!LockEndsWithGame'
    BY <1>1, <2>1, <2>2 DEF Game!GameInv, Game!LockFits, Game!LockEndsWithGame
  <2>8. ASSUME v6' = {} PROVE Game!NotesFit'
    <3>1. Game!NotesFit /\ reasons = {}
      BY <2>5, <2>8 DEF Game!GameInv
    <3>2. v3' \subseteq {g}
      <4>1. v3 \subseteq {v1.optimizing} /\ v3 \subseteq Games
        BY <3>1, InvTyped DEF Game!NotesFit
      <4>2. v1.optimizing \in {None, g}
        BY <1>1, <2>4, <3>1, HandoverReasons
      <4> HIDE DEF g
      <4> QED
        BY <1>1, <4>1, <4>2, NoGameAssumption
    <3>3. ASSUME NEW d \in Game!Channels
          PROVE  Game!NoteFits(v2'[d], d \in {c}, d \in {})
      <4>1. Game!NoteFits(v2[d], d \in v1.started, d \in v1.pending)
        BY <3>1 DEF Game!NotesFit
      <4>2. CASE d = c
        BY <2>4, <2>6, <3>1, <4>2 DEF Game!NoteFits
      <4>3. CASE d # c
        BY <2>4, <2>6, <3>1, <4>1, <4>3 DEF Game!NoteFits
      <4> QED
        BY <4>2, <4>3
    <3> HIDE DEF g
    <3>4. v1'.optimizing = g /\ v1'.detected = g /\ v1'.started = {c} /\ v1'.pending = {}
      BY <2>1, <2>2, <2>4, <3>1
    <3> QED
      BY <1>1, <3>2, <3>3, <3>4, NoGameAssumption DEF Game!NotesFit
  <2>9. v4' \subseteq Games
    BY <1>1, <1>4, InvTyped
  <2>10. UserKept
    BY <2>6 DEF UserKept
  <2> QED
    BY <1>1, <2>1, <2>2, <2>5, <2>6, <2>7, <2>8, <2>9, <2>10, InvTyped, Closes
<1> QED
  BY <1>3, <1>4 DEF Game!PreflightCompleted, idle

LEMMA AirInv ==
  ASSUME Game!GameInv, Game!AirTick \/ Game!AirLooks \/ Game!AirLocks
  PROVE  Game!GameInv' /\ LockKept /\ UserKept
<1>1. ASSUME Game!AirTick PROVE Game!GameInv'
  <2>1. v1' \in Session /\ UNCHANGED <<v2, v3, v4, v6>>
        /\ v1'.detected = v1.detected /\ v1'.optimizing = v1.optimizing
        /\ v1'.locked = v1.locked /\ v1'.started = v1.started
        /\ v1'.pending = v1.pending
    BY <1>1, InvTyped DEF Game!AirTick, Session
  <2>2. v5' \in AirThread /\ Game!LockFits'
    <3>1. CASE v1.optimizing = None
      BY <1>1, <2>1, <3>1, InvTyped DEF Game!AirTick, Game!GameInv, Game!LockFits
    <3>2. CASE v1.optimizing # None
      <4>1. v5' = [game |-> v1.optimizing, pc |-> "look", fresh |-> TRUE]
        BY <1>1, <3>2 DEF Game!AirTick
      <4>2. v5' \in AirThread /\ v5'.game = v1.optimizing /\ v5'.pc = "look"
        BY <4>1, InvTyped DEF AirThread
      <4> QED
        BY <3>2, <4>2 DEF Game!LockFits
    <3> QED
      BY <3>1, <3>2
  <2>3. Game!LockEndsWithGame' /\ (v6' = {} => Game!NotesFit')
    BY <2>1 DEF Game!GameInv, Game!LockEndsWithGame, Game!NotesFit
  <2> QED
    BY <2>1, <2>2, <2>3, InvTyped, Closes
<1>2. ASSUME Game!AirLooks PROVE Game!GameInv'
  <2>1. UNCHANGED <<v1, v2, v3, v4, v6>>
    BY <1>2 DEF Game!AirLooks
  <2>2. v5' \in AirThread /\ Game!LockFits'
    BY <1>2, <2>1, NoAirFields, InvTyped DEF Game!AirLooks, Game!GameInv, Game!LockFits,
       AirThread
  <2>3. Game!LockEndsWithGame' /\ (v6' = {} => Game!NotesFit')
    BY <2>1 DEF Game!GameInv, Game!LockEndsWithGame, Game!NotesFit
  <2> QED
    BY <2>1, <2>2, <2>3, InvTyped, Closes
<1>3. ASSUME Game!AirLocks PROVE Game!GameInv'
  <2> DEFINE reasons == IF v5.fresh THEN {} ELSE {"raced"}
  <2>1. v1' \in Session /\ UNCHANGED <<v2, v3, v4>>
        /\ v1'.detected = v1.detected /\ v1'.optimizing = v1.optimizing
        /\ v1'.started = v1.started /\ v1'.pending = v1.pending
    BY <1>3, InvTyped DEF Game!AirLocks, Session
  <2>2. v5' = Game!NoAir /\ Game!Note(reasons) /\ v5.pc = "lock"
    BY <1>3 DEF Game!AirLocks
  <2>3. reasons \in SUBSET Game!Reasons
    BY DEF Game!Reasons
  <2>4. v6' \subseteq Game!Reasons /\ (v6' = {} => v6 = {} /\ reasons = {})
    BY <2>2, <2>3, InvTyped, MissNoted
  <2>5. Game!LockFits' /\ Game!LockEndsWithGame'
    BY <2>1, <2>2, <2>4, NoAirFields DEF Game!GameInv, Game!LockFits,
       Game!LockEndsWithGame
  <2>6. v6' = {} => Game!NotesFit'
    BY <2>1, <2>4 DEF Game!GameInv, Game!NotesFit
  <2> QED
    BY <2>1, <2>2, <2>4, <2>5, <2>6, InvTyped, NoAirFields, Closes
<1>4. LockKept /\ UserKept
  BY DEF Game!AirTick, Game!AirLooks, Game!AirLocks, LockKept, UserKept
<1> QED
  BY <1>1, <1>2, <1>3, <1>4

-------------------------------------------------------------------------------
(***************************************************************************)
(* The links                                                               *)
(***************************************************************************)
\* A step that changes neither what is detected nor the lock
LEMMA LockUntouched ==
  ASSUME Game!GameInv, v1'.detected = v1.detected, v1'.locked = v1.locked, v5' = v5,
         v6' = {} => v6 = {}
  PROVE  Game!LockFits' /\ Game!LockEndsWithGame'
BY DEF Game!GameInv, Game!LockFits, Game!LockEndsWithGame

\* One link becomes another one, and its notes with it
LEMMA LinkStep ==
  ASSUME Game!GameInv, NEW c \in Game!Channels, v1' \in Session, v2' \in Links, Fit(v2'),
         v6' \subseteq Game!Reasons, v6' = {} => v6 = {},
         v1'.detected = v1.detected, v1'.locked = v1.locked,
         v1'.optimizing = v1.optimizing, UNCHANGED <<v3, v4, v5>>,
         \A d \in Game!Channels \ {c} :
            /\ v2'[d] = v2[d]
            /\ d \in v1'.started <=> d \in v1.started
            /\ d \in v1'.pending <=> d \in v1.pending,
         v1.started = {} => v1'.started = {},
         v6' = {} /\ Game!NoteFits(v2[c], c \in v1.started, c \in v1.pending)
            => Game!NoteFits(v2'[c], c \in v1'.started, c \in v1'.pending)
  PROVE  Game!GameInv'
<1>1. Game!LockFits' /\ Game!LockEndsWithGame'
  BY LockUntouched
<1>2. ASSUME v6' = {} PROVE Game!NotesFit'
  <2>1. Game!NotesFit
    BY <1>2 DEF Game!GameInv
  <2>2. ASSUME NEW d \in Game!Channels
        PROVE  Game!NoteFits(v2'[d], d \in v1'.started, d \in v1'.pending)
    <3>1. Game!NoteFits(v2[d], d \in v1.started, d \in v1.pending)
      BY <2>1 DEF Game!NotesFit
    <3>2. CASE d = c
      BY <1>2, <3>1, <3>2
    <3>3. CASE d # c
      <4>1. v2'[d] = v2[d] /\ (d \in v1'.started <=> d \in v1.started)
            /\ (d \in v1'.pending <=> d \in v1.pending)
        BY <3>3
      <4> QED
        BY <3>1, <4>1 DEF Game!NoteFits
    <3> QED
      BY <3>2, <3>3
  <2> QED
    BY <2>1, <2>2 DEF Game!NotesFit
<1> QED
  BY <1>1, <1>2, InvTyped, Closes

LEMMA SettleStep ==
  ASSUME NEW s \in Session, NEW links \in Links, Fit(links), NEW c \in Game!Channels,
         NEW ok \in BOOLEAN, Game!Settle(s, links, c, ok)
  PROVE  /\ v1' \in Session /\ v1'.detected = s.detected
         /\ v1'.optimizing = s.optimizing /\ v1'.locked = s.locked
         /\ v1'.started = s.started /\ v1'.pending = s.pending \ {c}
         /\ v2' \in Links /\ Fit(v2')
         /\ \A d \in Game!Channels \ {c} : v2'[d] = links[d]
         /\ v2'[c].by = links[c].by /\ v2'[c].owner = links[c].owner
         /\ v2'[c].op = IF c \in s.pending /\ ok /\ links[c].op = "none"
                           /\ links[c].connected
                        THEN "disconnect" ELSE links[c].op
<1> DEFINE due == s.pending \ {c}
           e == [s EXCEPT !.pending = due]
           new == Game!Disconnect(links, c)
<1>1. v1' = e /\ v2' = IF c \in s.pending /\ ok THEN new ELSE links
  BY DEF Game!Settle
<1>2. due \in SUBSET Game!Channels
  BY DEF Session
<1> HIDE DEF due
<1>3. /\ e \in Session /\ e.detected = s.detected /\ e.optimizing = s.optimizing
      /\ e.locked = s.locked /\ e.started = s.started /\ e.pending = due
  BY <1>2 DEF Session
<1>4. /\ new \in Links /\ Fit(new)
      /\ \A d \in Game!Channels \ {c} : new[d] = links[d]
      /\ Game!Busy(links, c) \/ ~links[c].connected => new = links
      /\ ~Game!Busy(links, c) /\ links[c].connected =>
            /\ new[c].op = "disconnect" /\ new[c].by = links[c].by
            /\ new[c].owner = links[c].owner
  BY DisconnectLinks
<1> HIDE DEF e, new
<1> QED
  BY <1>1, <1>3, <1>4 DEF due, Game!Busy

LEMMA DnsConnectedInv ==
  ASSUME Game!GameInv, NEW ok \in BOOLEAN, Game!DnsConnected(ok)
  PROVE  Game!GameInv' /\ LockKept /\ UserKept
<1> DEFINE links == Game!Ended("dns", ok)
           reasons == IF ~ok /\ "dns" \in v1.started /\ v2["dns"].owner = "user"
                      THEN {"kept"} ELSE {}
<1>1. /\ v2["dns"].op = "connect" /\ Game!Settle(v1, links, "dns", ok)
      /\ Game!Note(reasons) /\ UNCHANGED <<v3, v4, v5>>
  BY DEF Game!DnsConnected
<1>2. "dns" \in Game!Channels /\ reasons \in SUBSET Game!Reasons
  BY DEF Game!Channels, Game!Reasons
<1>3. v6' \subseteq Game!Reasons /\ (v6' = {} => v6 = {} /\ reasons = {})
  BY <1>1, <1>2, InvTyped, MissNoted
<1>4. /\ links \in Links /\ Fit(links)
      /\ \A d \in Game!Channels \ {"dns"} : links[d] = v2[d]
      /\ links["dns"].op = "none" /\ links["dns"].by = "none"
      /\ links["dns"].connected = (ok \/ v2["dns"].connected)
      /\ links["dns"].owner = IF ok THEN v2["dns"].by ELSE v2["dns"].owner
  BY <1>2, InvTyped, EndedLinks
<1> HIDE DEF links
<1>5. /\ v1' \in Session /\ v1'.detected = v1.detected
      /\ v1'.optimizing = v1.optimizing /\ v1'.locked = v1.locked
      /\ v1'.started = v1.started /\ v1'.pending = v1.pending \ {"dns"}
      /\ v2' \in Links /\ Fit(v2')
      /\ \A d \in Game!Channels \ {"dns"} : v2'[d] = v2[d]
      /\ v2'["dns"].owner = links["dns"].owner
      /\ v2'["dns"].op = IF "dns" \in v1.pending /\ ok THEN "disconnect" ELSE "none"
  BY <1>1, <1>2, <1>4, InvTyped, SettleStep
<1>6. v2["dns"] \in Link
  BY <1>2, InvTyped DEF Links
<1>7. ASSUME v6' = {},
             Game!NoteFits(v2["dns"], "dns" \in v1.started, "dns" \in v1.pending)
      PROVE  /\ Game!NoteFits(v2'["dns"], "dns" \in v1.started, FALSE)
             /\ v2'["dns"].op = "disconnect" => v2'["dns"].owner # "user"
  <2> DEFINE old == v2["dns"]
             new == v2'["dns"]
  <2>1. ok \/ "dns" \notin v1.started \/ old.owner # "user"
    BY <1>3, <1>7
  <2>2. /\ old.op = "connect" /\ old \in Link
        /\ new.op = IF "dns" \in v1.pending /\ ok THEN "disconnect" ELSE "none"
        /\ new.owner = IF ok THEN old.by ELSE old.owner
        /\ Game!NoteFits(old, "dns" \in v1.started, "dns" \in v1.pending)
    BY <1>1, <1>4, <1>5, <1>6, <1>7
  <2> HIDE DEF old, new
  <2>3. /\ Game!NoteFits(new, "dns" \in v1.started, FALSE)
        /\ new.op = "disconnect" => new.owner # "user"
    BY <2>1, <2>2 DEF Game!NoteFits
  <2> QED
    BY <2>3 DEF new
<1>8. Game!GameInv'
  <2>1. v6' = {} /\ Game!NoteFits(v2["dns"], "dns" \in v1.started, "dns" \in v1.pending)
           => Game!NoteFits(v2'["dns"], "dns" \in v1'.started, "dns" \in v1'.pending)
    BY <1>5, <1>7 DEF Game!NoteFits
  <2> QED
    BY <1>1, <1>2, <1>3, <1>5, <2>1, LinkStep
<1>9. LockKept
  BY <1>1, <1>5 DEF LockKept
<1>10. UserKept
  <2>1. v6' = {} => Game!NoteFits(v2["dns"], "dns" \in v1.started, "dns" \in v1.pending)
    BY <1>2, <1>3 DEF Game!GameInv, Game!NotesFit
  <2> QED
    BY <1>5, <1>7, <2>1 DEF UserKept
<1> QED
  BY <1>8, <1>9, <1>10

\* A smart optimisation that has no tunnel gives it up; it may turn to DNS.
LEMMA TunnelConnectedInv ==
  ASSUME Game!GameInv, NEW ok \in BOOLEAN, Game!TunnelConnected(ok)
  PROVE  Game!GameInv' /\ LockKept /\ UserKept
<1> DEFINE links == Game!Ended("tunnel", ok)
           old == v2["tunnel"]
           gaveUp == [v1 EXCEPT !.started = @ \ {"tunnel"}]
           direct == [gaveUp EXCEPT !.started = @ \cup {"dns"}]
<1>1. /\ old.op = "connect" /\ UNCHANGED <<v3, v4, v5>>
      /\ \/ /\ ~(v1.optimizing # None /\ "tunnel" \in v1.started /\ ~ok)
            /\ Game!Settle(v1, links, "tunnel", ok) /\ v6' = v6
         \/ /\ v1.optimizing # None /\ "tunnel" \in v1.started /\ ~ok
            /\ Game!Settle(gaveUp, links, "tunnel", ok) /\ v6' = v6
         \/ /\ v1.optimizing # None /\ "tunnel" \in v1.started /\ ~ok
            /\ Game!Settle(direct, Game!Connect(links, "dns", "game", v1.locked),
                           "tunnel", ok)
            /\ Game!Note(IF Game!Refused(links, "dns", v1.locked) THEN {"joined"} ELSE {})
  BY DEF Game!TunnelConnected
<1>2. /\ "tunnel" \in Game!Channels /\ "dns" \in Game!Channels \ {"tunnel"}
      /\ \A d \in Game!Channels : d \in {"dns", "tunnel"}
  BY DEF Game!Channels
<1>3. /\ links \in Links /\ Fit(links)
      /\ \A d \in Game!Channels \ {"tunnel"} : links[d] = v2[d]
      /\ links["tunnel"].op = "none" /\ links["tunnel"].by = "none"
      /\ links["tunnel"].connected = (ok \/ old.connected)
      /\ links["tunnel"].owner = IF ok THEN old.by ELSE "none"
  BY <1>2, InvTyped, EndedLinks
<1>4. /\ gaveUp \in Session /\ gaveUp.detected = v1.detected
      /\ gaveUp.optimizing = v1.optimizing /\ gaveUp.locked = v1.locked
      /\ gaveUp.started = v1.started \ {"tunnel"} /\ gaveUp.pending = v1.pending
  <2> DEFINE rest == v1.started \ {"tunnel"}
  <2>1. rest \in SUBSET Game!Channels /\ gaveUp = [v1 EXCEPT !.started = rest]
    BY InvTyped
  <2> HIDE DEF rest
  <2>2. /\ gaveUp \in Session /\ gaveUp.detected = v1.detected
        /\ gaveUp.optimizing = v1.optimizing /\ gaveUp.locked = v1.locked
        /\ gaveUp.started = rest /\ gaveUp.pending = v1.pending
    BY <2>1, InvTyped DEF Session
  <2> QED
    BY <2>2 DEF rest
<1> HIDE DEF gaveUp
<1>5. /\ direct \in Session /\ direct.detected = v1.detected
      /\ direct.optimizing = v1.optimizing /\ direct.locked = v1.locked
      /\ direct.started = gaveUp.started \cup {"dns"} /\ direct.pending = v1.pending
  <2> DEFINE both == gaveUp.started \cup {"dns"}
  <2>1. both \in SUBSET Game!Channels /\ direct = [gaveUp EXCEPT !.started = both]
    BY <1>2, <1>4, InvTyped
  <2> HIDE DEF both
  <2>2. /\ direct \in Session /\ direct.detected = v1.detected
        /\ direct.optimizing = v1.optimizing /\ direct.locked = v1.locked
        /\ direct.started = both /\ direct.pending = v1.pending
    BY <1>4, <2>1 DEF Session
  <2> QED
    BY <2>2 DEF both
<1> HIDE DEF links, direct
<1>6. CASE /\ ~(v1.optimizing # None /\ "tunnel" \in v1.started /\ ~ok)
           /\ Game!Settle(v1, links, "tunnel", ok) /\ v6' = v6
  <2>1. /\ v1' \in Session /\ v1'.detected = v1.detected
        /\ v1'.optimizing = v1.optimizing /\ v1'.locked = v1.locked
        /\ v1'.started = v1.started /\ v1'.pending = v1.pending \ {"tunnel"}
        /\ v2' \in Links /\ Fit(v2')
        /\ \A d \in Game!Channels \ {"tunnel"} : v2'[d] = v2[d]
        /\ v2'["tunnel"].owner = links["tunnel"].owner
        /\ v2'["tunnel"].op = IF "tunnel" \in v1.pending /\ ok THEN "disconnect"
                              ELSE "none"
    BY <1>2, <1>3, <1>6, InvTyped, SettleStep
  <2>2. ASSUME Game!NoteFits(old, "tunnel" \in v1.started, "tunnel" \in v1.pending)
        PROVE  /\ Game!NoteFits(v2'["tunnel"], "tunnel" \in v1'.started,
                                "tunnel" \in v1'.pending)
               /\ v2'["tunnel"].op = "disconnect" => v2'["tunnel"].owner # "user"
    <3> DEFINE new == v2'["tunnel"]
    <3>1. /\ new.op = IF "tunnel" \in v1.pending /\ ok THEN "disconnect" ELSE "none"
          /\ new.owner = IF ok THEN old.by ELSE "none"
          /\ "tunnel" \in v1'.started <=> "tunnel" \in v1.started
          /\ "tunnel" \notin v1'.pending
      BY <1>3, <2>1
    <3> HIDE DEF new, old
    <3>2. /\ Game!NoteFits(new, "tunnel" \in v1'.started, "tunnel" \in v1'.pending)
          /\ new.op = "disconnect" => new.owner # "user"
      BY <1>1, <2>2, <3>1 DEF Game!NoteFits
    <3> QED
      BY <3>2 DEF new
  <2>3. Game!GameInv'
    BY <1>1, <1>2, <1>6, <2>1, <2>2, InvTyped, LinkStep
  <2>4. LockKept
    BY <2>1 DEF LockKept
  <2>5. UserKept
    BY <1>2, <1>6, <2>1, <2>2 DEF UserKept, Game!GameInv, Game!NotesFit
  <2> QED
    BY <2>3, <2>4, <2>5
<1>7. CASE /\ v1.optimizing # None /\ "tunnel" \in v1.started /\ ~ok
           /\ Game!Settle(gaveUp, links, "tunnel", ok) /\ v6' = v6
  <2>1. /\ v1' \in Session /\ v1'.detected = v1.detected
        /\ v1'.optimizing = v1.optimizing /\ v1'.locked = v1.locked
        /\ v1'.started = v1.started \ {"tunnel"}
        /\ v1'.pending = v1.pending \ {"tunnel"}
        /\ v2' \in Links /\ Fit(v2')
        /\ \A d \in Game!Channels \ {"tunnel"} : v2'[d] = v2[d]
        /\ v2'["tunnel"].owner = "none" /\ v2'["tunnel"].op = "none"
    BY <1>2, <1>3, <1>4, <1>7, SettleStep
  <2>2. Game!NoteFits(v2'["tunnel"], "tunnel" \in v1'.started, "tunnel" \in v1'.pending)
    BY <2>1 DEF Game!NoteFits
  <2>3. Game!GameInv'
    BY <1>1, <1>2, <1>7, <2>1, <2>2, InvTyped, LinkStep
  <2>4. LockKept /\ UserKept
    BY <2>1 DEF LockKept, UserKept
  <2> QED
    BY <2>3, <2>4
<1>8. CASE /\ v1.optimizing # None /\ "tunnel" \in v1.started /\ ~ok
           /\ Game!Settle(direct, Game!Connect(links, "dns", "game", v1.locked),
                          "tunnel", ok)
           /\ Game!Note(IF Game!Refused(links, "dns", v1.locked) THEN {"joined"} ELSE {})
  <2> DEFINE new == Game!Connect(links, "dns", "game", v1.locked)
             reasons == IF Game!Refused(links, "dns", v1.locked) THEN {"joined"} ELSE {}
             refused == Game!Refused(links, "dns", v1.locked)
  <2>1. /\ new \in Links /\ Fit(new) /\ new["tunnel"] = links["tunnel"]
        /\ refused => new = links
        /\ ~refused => /\ new["dns"].op = "connect" /\ new["dns"].by = "game"
                       /\ new["dns"].owner = links["dns"].owner
    BY <1>2, <1>3, InvTyped, ConnectLinks
  <2>2. refused <=> v1.locked \/ links["dns"].op # "none"
    BY DEF Game!Refused, Game!Busy
  <2>3. reasons \in SUBSET Game!Reasons
    BY DEF Game!Reasons
  <2>4. v6' \subseteq Game!Reasons /\ (v6' = {} => v6 = {} /\ ~refused)
    BY <1>8, <2>3, InvTyped, MissNoted
  <2> HIDE DEF new, refused
  <2>5. /\ v1' \in Session /\ v1'.detected = v1.detected
        /\ v1'.optimizing = v1.optimizing /\ v1'.locked = v1.locked
        /\ v1'.started = (v1.started \ {"tunnel"}) \cup {"dns"}
        /\ v1'.pending = v1.pending \ {"tunnel"}
        /\ v2' \in Links /\ Fit(v2')
        /\ v2'["dns"] = new["dns"]
        /\ v2'["tunnel"].owner = "none" /\ v2'["tunnel"].op = "none"
    <3>1. Game!Settle(direct, new, "tunnel", ok)
      BY <1>8 DEF new
    <3> QED
      BY <1>2, <1>3, <1>4, <1>5, <1>8, <2>1, <3>1, SettleStep
  <2>6. links["dns"] = v2["dns"]
    BY <1>2, <1>3
  <2>7. Game!LockFits' /\ Game!LockEndsWithGame'
    BY <1>1, <2>4, <2>5, LockUntouched
  <2>8. ASSUME v6' = {} PROVE Game!NotesFit'
    <3>1. Game!NotesFit /\ ~refused
      BY <2>4, <2>8 DEF Game!GameInv
    <3>2. Game!NoteFits(v2["dns"], "dns" \in v1.started, "dns" \in v1.pending)
      BY <1>2, <3>1 DEF Game!NotesFit
    <3>3. Game!NoteFits(v2'["dns"], "dns" \in v1'.started, "dns" \in v1'.pending)
      <4> DEFINE to == v2'["dns"]
                 from == v2["dns"]
      <4>1. /\ from.op = "none" /\ to.op = "connect" /\ to.by = "game"
            /\ to.owner = from.owner
            /\ "dns" \in v1'.started /\ ("dns" \in v1'.pending <=> "dns" \in v1.pending)
        BY <2>1, <2>2, <2>5, <2>6, <3>1
      <4> HIDE DEF to, from
      <4>2. Game!NoteFits(from, "dns" \in v1.started, "dns" \in v1.pending)
        BY <3>2 DEF from
      <4>3. Game!NoteFits(to, "dns" \in v1'.started, "dns" \in v1'.pending)
        BY <4>1, <4>2 DEF Game!NoteFits
      <4> QED
        BY <4>3 DEF to
    <3>4. Game!NoteFits(v2'["tunnel"], "tunnel" \in v1'.started, "tunnel" \in v1'.pending)
      BY <2>5 DEF Game!NoteFits
    <3>5. ASSUME NEW d \in Game!Channels
          PROVE  Game!NoteFits(v2'[d], d \in v1'.started, d \in v1'.pending)
      <4>1. CASE d = "dns"
        BY <3>3, <4>1
      <4>2. CASE d = "tunnel"
        BY <3>4, <4>2
      <4> QED
        BY <1>2, <4>1, <4>2
    <3> QED
      BY <1>1, <1>8, <2>5, <3>1, <3>5 DEF Game!NotesFit
  <2>9. Game!GameInv'
    BY <1>1, <2>4, <2>5, <2>7, <2>8, InvTyped, Closes
  <2>10. LockKept /\ UserKept
    <3>1. v1.locked => v2'["dns"] = v2["dns"]
      BY <2>1, <2>2, <2>5, <2>6
    <3>2. v2'["dns"].op = "disconnect" => v2'["dns"] = v2["dns"]
      BY <2>1, <2>5, <2>6
    <3> QED
      BY <1>2, <2>5, <3>1, <3>2 DEF LockKept, UserKept
  <2> QED
    BY <2>9, <2>10
<1> QED
  BY <1>1, <1>6, <1>7, <1>8

LEMMA DisconnectedInv ==
  ASSUME Game!GameInv, NEW c \in Game!Channels, Game!Disconnected(c)
  PROVE  Game!GameInv' /\ LockKept /\ UserKept
<1>1. /\ v2[c].op = "disconnect" /\ UNCHANGED <<v1, v3, v4, v5, v6>>
      /\ v2' = [v2 EXCEPT ![c] = Game!NoLink]
  BY DEF Game!Disconnected
<1>2. /\ v2' \in Links /\ v2'[c] = Game!NoLink
      /\ \A d \in Game!Channels \ {c} : v2'[d] = v2[d]
  BY <1>1, InvTyped, NoLinkFields DEF Links
<1>3. Fit(v2')
  BY <1>2, InvTyped, NoLinkFields DEF Fit
<1>4. Game!NoteFits(v2[c], c \in v1.started, c \in v1.pending)
         => Game!NoteFits(v2'[c], c \in v1'.started, c \in v1'.pending)
  BY <1>1, <1>2, NoLinkFields DEF Game!NoteFits
<1>5. Game!GameInv'
  BY <1>1, <1>2, <1>3, <1>4, InvTyped, LinkStep
<1>6. LockKept /\ UserKept
  BY <1>2, NoLinkFields DEF LockKept, UserKept
<1> QED
  BY <1>5, <1>6

LEMMA TunnelDiesInv ==
  ASSUME Game!GameInv, Game!TunnelDies
  PROVE  Game!GameInv' /\ UserKept
<1> DEFINE old == v2["tunnel"]
           again == [old EXCEPT !.op = "connect", !.by = old.owner, !.connected = FALSE,
                                !.owner = "none"]
           new == v2'["tunnel"]
<1>1. /\ old.connected /\ old.op = "none" /\ UNCHANGED <<v1, v3, v4, v5, v6>>
      /\ v2' = [v2 EXCEPT !["tunnel"] = Game!NoLink] \/ v2' = [v2 EXCEPT !["tunnel"] = again]
  BY DEF Game!TunnelDies, Game!Busy
<1>2. "tunnel" \in Game!Channels /\ v2 \in Links /\ old \in Link
  BY InvTyped DEF Game!Channels, Links
<1>3. /\ again \in Link /\ again.op = "connect" /\ again.by = old.owner
      /\ again.connected = FALSE /\ again.owner = "none"
  BY <1>2 DEF Link
<1> HIDE DEF again
<1>4. /\ v2' \in Links /\ new \in {Game!NoLink, again}
      /\ \A d \in Game!Channels \ {"tunnel"} : v2'[d] = v2[d]
  BY <1>1, <1>2, <1>3, NoLinkFields DEF Links
<1> HIDE DEF old, new
<1>5. Fit(v2')
  BY <1>3, <1>4, InvTyped, NoLinkFields DEF Fit, new
<1>6. Game!NoteFits(old, "tunnel" \in v1.started, "tunnel" \in v1.pending)
         => Game!NoteFits(new, "tunnel" \in v1'.started, "tunnel" \in v1'.pending)
  BY <1>1, <1>3, <1>4, NoLinkFields DEF Game!NoteFits
<1>7. Game!GameInv'
  BY <1>1, <1>2, <1>4, <1>5, <1>6, InvTyped, LinkStep DEF old, new
<1>8. UserKept
  BY <1>3, <1>4, NoLinkFields DEF UserKept, new
<1> QED
  BY <1>7, <1>8

LEMMA UserConnectsInv ==
  ASSUME Game!GameInv, NEW c \in Game!Channels, Game!UserConnects(c)
  PROVE  Game!GameInv' /\ LockKept /\ UserKept
<1> DEFINE to == Game!Connect(v2, c, "user", v1.locked)
           reasons == IF c \in v1.started THEN {"taken"} ELSE {}
           old == v2[c]
           new == v2'[c]
<1>1. /\ ~Game!Refused(v2, c, v1.locked) /\ UNCHANGED <<v1, v3, v4, v5>>
      /\ v2' = to /\ Game!Note(reasons)
  BY DEF Game!UserConnects
<1>2. reasons \in SUBSET Game!Reasons
  BY DEF Game!Reasons
<1>3. v6' \subseteq Game!Reasons /\ (v6' = {} => v6 = {} /\ reasons = {})
  BY <1>1, <1>2, InvTyped, MissNoted
<1>4. ~v1.locked /\ old.op = "none"
  BY <1>1 DEF Game!Refused, Game!Busy
<1>5. /\ to \in Links /\ Fit(to)
      /\ \A d \in Game!Channels \ {c} : to[d] = v2[d]
      /\ to[c].op = "connect" /\ to[c].by = "user" /\ to[c].owner = old.owner
  BY <1>1, InvTyped, ConnectLinks
<1> HIDE DEF to
<1>6. new.op = "connect" /\ new.by = "user" /\ new.owner = old.owner
  BY <1>1, <1>5
<1> HIDE DEF old, new
<1>7. v6' = {} /\ Game!NoteFits(old, c \in v1.started, c \in v1.pending)
         => Game!NoteFits(new, c \in v1'.started, c \in v1'.pending)
  BY <1>1, <1>3, <1>4, <1>6 DEF Game!NoteFits
<1>8. Game!GameInv'
  BY <1>1, <1>3, <1>5, <1>7, InvTyped, LinkStep DEF old, new
<1>9. LockKept /\ UserKept
  BY <1>1, <1>4, <1>5 DEF LockKept, UserKept
<1> QED
  BY <1>8, <1>9

LEMMA UserDisconnectsInv ==
  ASSUME Game!GameInv, NEW c \in Game!Channels, Game!UserDisconnects(c)
  PROVE  Game!GameInv' /\ LockKept
<1> DEFINE to == Game!Disconnect(v2, c)
           old == v2[c]
           new == v2'[c]
<1>1. /\ old.connected /\ old.op = "none" /\ UNCHANGED <<v1, v3, v4, v5, v6>>
      /\ v2' = to
  BY DEF Game!UserDisconnects, Game!Busy
<1>2. /\ to \in Links /\ Fit(to)
      /\ \A d \in Game!Channels \ {c} : to[d] = v2[d]
      /\ to[c].op = "disconnect" /\ to[c].by = old.by /\ to[c].owner = old.owner
  BY <1>1, InvTyped, DisconnectLinks DEF Game!Busy
<1> HIDE DEF to
<1>3. new.op = "disconnect" /\ new.owner = old.owner
  BY <1>1, <1>2
<1> HIDE DEF old, new
<1>4. Game!NoteFits(old, c \in v1.started, c \in v1.pending)
         => Game!NoteFits(new, c \in v1'.started, c \in v1'.pending)
  BY <1>1, <1>3 DEF Game!NoteFits
<1>5. Game!GameInv'
  BY <1>1, <1>2, <1>4, InvTyped, LinkStep DEF old, new
<1>6. LockKept
  BY <1>1, <1>2 DEF LockKept
<1> QED
  BY <1>5, <1>6

-------------------------------------------------------------------------------
(***************************************************************************)
(* The end of the program, and the invariant                               *)
(***************************************************************************)
LEMMA SessionAfresh ==
  ASSUME Game!GameInv, Game!Afresh, v3' \subseteq v3, v4' = v4,
         v6' \subseteq Game!Reasons,
         v6' = {} => v6 = {} /\ (Game!NotesFit => v3' = {})
  PROVE  Game!GameInv' /\ LockKept /\ UserKept
<1>1. /\ v1' = Game!NoSession /\ v5' = Game!NoAir
      /\ v2' = [c \in Game!Channels |-> Game!NoLink]
  BY DEF Game!Afresh
<1>2. v2' \in Links /\ \A c \in Game!Channels : v2'[c] = Game!NoLink
  BY <1>1, NoLinkFields DEF Links
<1>3. Fit(v2')
  BY <1>2, NoLinkFields DEF Fit
<1>4. Game!LockFits' /\ Game!LockEndsWithGame'
  BY <1>1, NoSessionFields, NoAirFields DEF Game!LockFits, Game!LockEndsWithGame
<1>5. ASSUME v6' = {} PROVE Game!NotesFit'
  <2>1. v3' = {}
    BY <1>5 DEF Game!GameInv
  <2>2. \A c \in Game!Channels :
           Game!NoteFits(v2'[c], c \in v1'.started, c \in v1'.pending)
    BY <1>1, <1>2, NoSessionFields, NoLinkFields DEF Game!NoteFits
  <2> QED
    BY <1>1, <2>1, <2>2, NoSessionFields DEF Game!NotesFit
<1>6. Game!GameInv'
  BY <1>1, <1>2, <1>3, <1>4, <1>5, InvTyped, NoSessionFields, NoAirFields, Closes
<1>7. LockKept /\ UserKept
  BY <1>2, NoLinkFields DEF LockKept, UserKept
<1> QED
  BY <1>6, <1>7

LEMMA QuitInv ==
  ASSUME Game!GameInv, Game!Quit PROVE Game!GameInv' /\ LockKept /\ UserKept
<1>1. Game!Afresh /\ v3' = v3 \ {v1.optimizing} /\ v4' = v4 /\ v6' = v6
  BY DEF Game!Quit
<1>2. Game!NotesFit => v3' = {}
  BY <1>1 DEF Game!NotesFit
<1> QED
  BY <1>1, <1>2, InvTyped, SessionAfresh

LEMMA CrashInv ==
  ASSUME Game!GameInv, Game!Crash PROVE Game!GameInv' /\ LockKept /\ UserKept
<1> DEFINE reasons == IF v3 = {} THEN {} ELSE {"crashed"}
<1>1. Game!Afresh /\ v3' = v3 /\ v4' = v4 /\ Game!Note(reasons)
  BY DEF Game!Crash
<1>2. reasons \in SUBSET Game!Reasons
  BY DEF Game!Reasons
<1>3. v6' \subseteq Game!Reasons /\ (v6' = {} => v6 = {} /\ reasons = {})
  BY <1>1, <1>2, InvTyped, MissNoted
<1> QED
  BY <1>1, <1>3, SessionAfresh

\* Every step that is neither a failover, a preflight nor the user's keeps both.
LEMMA NextInv ==
  ASSUME Game!GameInv, Game!Next
  PROVE  /\ Game!GameInv'
         /\ Game!TunnelDies \/ Game!PreflightCompleted \/ LockKept
         /\ (\E c \in Game!Channels : Game!UserDisconnects(c)) \/ UserKept
<1>1. CASE \E g \in Games : Game!GameDetected(g) \/ Game!AcceptCandidate(g)
                            \/ Game!OptimizeByHand(g) \/ Game!QosWorkerEnds(g)
  BY <1>1, GameDetectedInv, AcceptCandidateInv, OptimizeByHandInv, QosWorkerEndsInv
<1>2. CASE Game!GameGone
  BY <1>2, GameGoneInv
<1>3. CASE Game!PreflightCompleted
  BY <1>3, PreflightCompletedInv
<1>4. CASE Game!AirTick \/ Game!AirLooks \/ Game!AirLocks
  BY <1>4, AirInv
<1>5. CASE \E ok \in BOOLEAN : Game!DnsConnected(ok) \/ Game!TunnelConnected(ok)
  BY <1>5, DnsConnectedInv, TunnelConnectedInv
<1>6. CASE Game!TunnelDies
  BY <1>6, TunnelDiesInv
<1>7. ASSUME NEW c \in Game!Channels,
             Game!Disconnected(c) \/ Game!UserConnects(c) \/ Game!UserDisconnects(c)
      PROVE  /\ Game!GameInv' /\ LockKept
             /\ Game!UserDisconnects(c) \/ UserKept
  BY <1>7, DisconnectedInv, UserConnectsInv, UserDisconnectsInv
<1>8. CASE Game!Quit \/ Game!Crash
  BY <1>8, QuitInv, CrashInv
<1> QED
  BY <1>1, <1>2, <1>3, <1>4, <1>5, <1>6, <1>7, <1>8 DEF Game!Next

LEMMA InitInv == Game!Init => Game!GameInv
<1> SUFFICES ASSUME Game!Init PROVE Game!GameInv
  OBVIOUS
<1>1. /\ v1 = Game!NoSession /\ v2 = [c \in Game!Channels |-> Game!NoLink]
      /\ v3 = {} /\ v4 = {} /\ v5 = Game!NoAir /\ v6 = {}
  BY DEF Game!Init
<1>2. v2 \in Links /\ \A c \in Game!Channels : v2[c] = Game!NoLink
  BY <1>1, NoLinkFields DEF Links
<1>3. Game!TypeOK
  BY <1>1, <1>2, NoSessionFields, NoAirFields, SessionTyped
<1>4. Game!LinksFit
  BY <1>2, NoLinkFields DEF Game!LinksFit
<1>5. Game!LockFits /\ Game!LockEndsWithGame
  BY <1>1, NoSessionFields, NoAirFields DEF Game!LockFits, Game!LockEndsWithGame
<1>6. \A c \in Game!Channels : Game!NoteFits(v2[c], c \in v1.started, c \in v1.pending)
  BY <1>1, <1>2, NoSessionFields, NoLinkFields DEF Game!NoteFits
<1>7. Game!NotesFit
  BY <1>1, <1>6, NoSessionFields DEF Game!NotesFit
<1> QED
  BY <1>3, <1>4, <1>5, <1>7 DEF Game!GameInv

\* A state that stays has kept what it promises.
LEMMA StutterInv ==
  ASSUME Game!GameInv, UNCHANGED Game!vars PROVE Game!GameInv' /\ LockKept /\ UserKept
<1>1. UNCHANGED <<v1, v2, v3, v4, v5, v6>>
  BY DEF Game!vars
<1>2. Game!LockFits' /\ Game!LockEndsWithGame' /\ (v6' = {} => Game!NotesFit')
  BY <1>1 DEF Game!GameInv, Game!LockFits, Game!LockEndsWithGame, Game!NotesFit
<1> QED
  BY <1>1, <1>2, InvTyped, Closes DEF LockKept, UserKept

IGame == part = "game" => Game!GameInv

LEMMA GameInvariance == Spec => []IGame
<1>1. Init => IGame
  BY InitInv DEF Init, IGame
<1>2. IGame /\ [Next]_vars => IGame'
  <2> SUFFICES ASSUME part = "game", Game!GameInv, [Next]_vars
               PROVE  Game!GameInv'
    BY GameSteps DEF IGame
  <2> QED
    BY GameSteps, NextInv, StutterInv
<1> QED
  BY <1>1, <1>2, PTL DEF Spec

LEMMA NothingLeft ==
  ASSUME Game!GameInv PROVE Game!SessionLeavesNothing
<1> SUFFICES ASSUME v6 = {}, Game!Settled
             PROVE  v3 = {} /\ \A c \in Game!Channels : v2[c].owner # "game"
  BY DEF Game!SessionLeavesNothing, Game!LeavesNothing
<1>1. /\ Game!NotesFit /\ v1.detected = None
      /\ \A c \in Game!Channels : v2[c].op = "none"
  BY DEF Game!GameInv, Game!Settled, Game!Busy
<1>2. v1.optimizing = None /\ v1.started = {} /\ v3 \subseteq {None}
  BY <1>1 DEF Game!NotesFit
<1>3. v3 = {}
  BY <1>2, InvTyped, NoGameAssumption
<1>4. ASSUME NEW c \in Game!Channels PROVE v2[c].owner # "game"
  <2>1. Game!NoteFits(v2[c], c \in v1.started, c \in v1.pending)
    BY <1>1 DEF Game!NotesFit
  <2> QED
    BY <1>1, <1>2, <2>1 DEF Game!NoteFits
<1> QED
  BY <1>3, <1>4

(***************************************************************************)
(* Whatever the scans, the reports, the failover and the user do in        *)
(* whatever order, a session whose game is gone leaves no link and no QoS  *)
(* policy of its own behind, and no lock (main_viewmodel.py:1862-1885):    *)
(* while a link is the game's, it is noted, or on its way down, and a note *)
(* lives as long as the game is the detected one.                          *)
(***************************************************************************)
THEOREM LeftClean == Spec => []SessionLeavesNothing
<1>1. IGame => SessionLeavesNothing
  BY NothingLeft DEF IGame, SessionLeavesNothing, Game!GameInv
<1> QED
  BY <1>1, GameInvariance, PTL

(***************************************************************************)
(* The end of a game and the stops that wait for a connection end no link  *)
(* of the user's, and a locked session is not connected anew               *)
(* (main_viewmodel.py:1469, 1522, 1867-1874, 1916, 2424): what is noted or *)
(* due to be stopped is never a connection that the user made or makes.    *)
(***************************************************************************)
THEOREM SessionSpares ==
  Spec => [][part = "game" => Game!SparesUser /\ Game!KeepsLock]_vars
<1>1. IGame /\ [Next]_vars => (part = "game" => Game!SparesUser /\ Game!KeepsLock)
  <2> SUFFICES ASSUME part = "game", Game!GameInv, [Next]_vars
               PROVE  Game!SparesUser /\ Game!KeepsLock
    BY DEF IGame
  <2>1. /\ Game!TunnelDies \/ Game!PreflightCompleted \/ LockKept
        /\ (\E c \in Game!Channels : Game!UserDisconnects(c)) \/ UserKept
    BY GameSteps, NextInv, StutterInv
  <2>2. Game!KeepsLock
    BY <2>1 DEF Game!KeepsLock, LockKept
  <2>3. ASSUME NEW c \in Game!Channels, v2[c].op # "disconnect",
               v2'[c].op = "disconnect", v2'[c].owner = "user", v6' = {}
        PROVE  Game!UserDisconnects(c)
    <3>1. PICK d \in Game!Channels : Game!UserDisconnects(d)
      BY <2>1, <2>3 DEF UserKept
    <3>2. v2' = Game!Disconnect(v2, d)
      BY <3>1 DEF Game!UserDisconnects
    <3>3. \A e \in Game!Channels \ {d} : v2'[e] = v2[e]
      BY <3>2, InvTyped, DisconnectLinks
    <3> QED
      BY <2>3, <3>1, <3>3
  <2> QED
    BY <2>2, <2>3 DEF Game!SparesUser
<1> QED
  BY <1>1, GameInvariance, PTL DEF Spec

-------------------------------------------------------------------------------
(***************************************************************************)
(* OfficialWarp: v1 to v8 are client, intent, session, journey, window,    *)
(* task, inbox and odd                                                     *)
(***************************************************************************)
Prefs == Ways \cup {Own}
Client == [up : BOOLEAN, prefs : Prefs, by : {"none", "user", "app"}]
Intent == [original : Prefs, expected : Ways]
WarpSession == [own : BOOLEAN, original : Prefs \cup {None}]
Window == [busy : BOOLEAN, active : BOOLEAN, owned : BOOLEAN]
Task == [pc : {"none", "inspect", "dial", "verify", "intent", "undo", "hangup"},
         todo : SUBSET Ways, original : Prefs \cup {None},
         own : BOOLEAN, cancelled : BOOLEAN]
Tasks == [Warp!Kinds -> Task]
Report == [op : Warp!Kinds, ok : BOOLEAN, active : BOOLEAN, own : BOOLEAN,
           original : Prefs \cup {None}, cancelled : BOOLEAN]
Operations == Warp!Kinds \ {"status"}

\* SessionDue, Accounted and TestFits, of values that are not yet the state's
Leaves(r, s) == IF Warp!Connected(r) THEN [own |-> r.own, original |-> r.original]
                ELSE IF Warp!HungUp(r) THEN Warp!NoSession ELSE s
Due(q, s) == IF q = <<>> THEN s ELSE Leaves(Head(q), s)
Sound(c, i, s) ==
    /\ IF c.by = "app" THEN c.up /\ i # None /\ i.expected = c.prefs
       ELSE /\ i = None /\ c.prefs = Own /\ s = Warp!NoSession
            /\ c.up <=> c.by = "user"
    /\ i # None => i.original = Own
    /\ IF s.own THEN s.original = Own ELSE s = Warp!NoSession
Tests == {"dial", "verify", "intent", "undo"}
Trial(c, i, s, t) ==
    /\ c.by # "user" /\ i = None /\ s = Warp!NoSession
    /\ c.up <=> c.by = "app"
    /\ c.up => c.prefs \in Ways
    /\ t.original = Own
    /\ t.pc = "intent" => c.up

\* A test knows what it has to restore.
WarpKnown == v6["connect"].pc \in Tests => v6["connect"].original \in Prefs

\* A connection of the user goes down, if it goes down, with a note of why.
Spared == v8' = {} => ~(v1.up /\ v1.by = "user" /\ ~v1'.up)

LEMMA WarpSteps ==
  ASSUME [Next]_vars
  PROVE  /\ part' = part
         /\ part = "warp" => Warp!WarpNext \/ UNCHANGED Warp!warpVars
BY DEF Next, vars, GameStep, WarpStep, UpdateStep, RecoveryStep, BudgetStep,
   MemoryStep, TrafficStep, LearningStep, GateStep, BoxStep, LookupStep,
   StoreStep, FlowStep, WatchStep, RankStep, Warp!warpVars

-------------------------------------------------------------------------------
(***************************************************************************)
(* Values                                                                  *)
(***************************************************************************)
LEMMA WarpTyped ==
  Warp!TypeOK <=> /\ v1 \in Client /\ v2 \in Intent \cup {None} /\ v3 \in WarpSession
                  /\ v4 \in {"idle", "testing", "stopping", "other"}
                  /\ v5 \in Window /\ v6 \in Tasks /\ v7 \in Seq(Report)
                  /\ v8 \subseteq Warp!Oddities
BY DEF Warp!TypeOK, Warp!Preferences, Prefs, Client, Intent, WarpSession, Window, Task,
   Tasks, Report

LEMMA WarpInvTyped ==
  ASSUME Warp!WarpInv
  PROVE  /\ v1 \in Client /\ v2 \in Intent \cup {None} /\ v3 \in WarpSession
         /\ v4 \in {"idle", "testing", "stopping", "other"}
         /\ v5 \in Window /\ v6 \in Tasks /\ v7 \in Seq(Report)
         /\ v8 \subseteq Warp!Oddities
         /\ v3.own \in BOOLEAN /\ v3.original \in Prefs \cup {None}
         /\ \A k \in Warp!Kinds : v6[k] \in Task
         /\ WarpKnown
<1>1. /\ v3 \in WarpSession /\ v6 \in Tasks
      /\ \A k \in Warp!Kinds : v6[k] \in Task
  BY WarpTyped DEF Warp!WarpInv, Tasks
<1>2. WarpKnown
  <2>1. v6["connect"].original \in Prefs \cup {None}
    BY <1>1 DEF Task, Warp!Kinds
  <2>2. v6["connect"].pc \in Tests => v6["connect"].original # None
    BY DEF Warp!WarpInv, Warp!Testing, Tests
  <2> QED
    BY <2>1, <2>2 DEF WarpKnown
<1> QED
  BY <1>1, <1>2, WarpTyped DEF Warp!WarpInv, WarpSession

LEMMA NoTaskFields ==
  /\ Warp!NoTask \in Task /\ Warp!NoTask.pc = "none" /\ Warp!NoTask.todo = {}
  /\ Warp!NoTask.original = None /\ Warp!NoTask.own = FALSE
  /\ Warp!NoTask.cancelled = FALSE
BY DEF Warp!NoTask, Task

LEMMA NoReportFields ==
  /\ Warp!NoReport \in Report /\ Warp!NoReport.ok = TRUE
  /\ Warp!NoReport.active = FALSE /\ Warp!NoReport.own = FALSE
  /\ Warp!NoReport.original = None
BY DEF Warp!NoReport, Report, Warp!Kinds

LEMMA NoWarpSession ==
  /\ Warp!NoSession \in WarpSession /\ Warp!NoSession.own = FALSE
  /\ Warp!NoSession.original = None
BY DEF Warp!NoSession, WarpSession

LEMMA DownFields ==
  ASSUME NEW p \in Prefs
  PROVE  /\ Warp!Down(p) \in Client /\ Warp!Down(p).up = FALSE
         /\ Warp!Down(p).prefs = p /\ Warp!Down(p).by = "none"
BY DEF Warp!Down, Client

LEMMA UpFields ==
  ASSUME NEW p \in Prefs
  PROVE  /\ Warp!Up(p) \in Client /\ Warp!Up(p).up = TRUE
         /\ Warp!Up(p).prefs = p /\ Warp!Up(p).by = "app"
BY DEF Warp!Up, Client

LEMMA PutTask ==
  ASSUME v6 \in Tasks, NEW k \in Warp!Kinds, NEW t \in Task, v6' = [v6 EXCEPT ![k] = t]
  PROVE  /\ v6' \in Tasks /\ v6'[k] = t
         /\ \A j \in Warp!Kinds \ {k} : v6'[j] = v6[j]
BY DEF Tasks

LEMMA AppendTo ==
  ASSUME NEW R, NEW q \in Seq(R), NEW r \in R
  PROVE  LET new == Append(q, r)
         IN  /\ new \in Seq(R) /\ new # <<>>
             /\ DOMAIN new = 1 .. Len(q) + 1 /\ DOMAIN q = 1 .. Len(q)
             /\ \A i \in DOMAIN q : new[i] = q[i]
             /\ new[Len(q) + 1] = r
             /\ Len(new) = Len(q) + 1
             /\ Head(new) = IF q = <<>> THEN r ELSE Head(q)
OBVIOUS

LEMMA TailOf ==
  ASSUME NEW R, NEW q \in Seq(R), q # <<>>
  PROVE  /\ Tail(q) \in Seq(R) /\ Head(q) \in R /\ Head(q) = q[1] /\ 1 \in DOMAIN q
         /\ Len(Tail(q)) = Len(q) - 1 /\ DOMAIN Tail(q) = 1 .. Len(q) - 1
         /\ DOMAIN q = 1 .. Len(q) /\ Len(q) \in Nat \ {0}
         /\ \A i \in DOMAIN Tail(q) : i + 1 \in DOMAIN q /\ Tail(q)[i] = q[i + 1]
         /\ Len(q) = 1 => Tail(q) = <<>>
<1>1. Len(q) \in Nat \ {0} /\ DOMAIN q = 1 .. Len(q)
  BY EmptySeq
<1>2. /\ Tail(q) \in Seq(R) /\ Head(q) \in R
      /\ Len(Tail(q)) = Len(q) - 1 /\ DOMAIN Tail(q) = 1 .. Len(Tail(q))
      /\ \A i \in 1 .. Len(Tail(q)) : Tail(q)[i] = q[i + 1]
  BY HeadTailProperties
<1>3. Head(q) = q[1] /\ 1 \in DOMAIN q
  BY <1>1
<1>4. \A i \in 1 .. Len(q) - 1 : i + 1 \in 1 .. Len(q)
  BY <1>1
<1>5. Len(q) = 1 => Tail(q) = <<>>
  <2>1. Tail(q) # <<>> => Len(Tail(q)) \in Nat \ {0}
    BY <1>2, EmptySeq
  <2> QED
    BY <1>2, <2>1
<1> QED
  BY <1>1, <1>2, <1>3, <1>4, <1>5

\* Reports of the status leave the session as it is.
LEMMA StatusOnly ==
  ASSUME NEW q \in Seq(Report), NEW s, \A i \in DOMAIN q : q[i].op = "status"
  PROVE  Due(q, s) = s
<1>1. CASE q = <<>>
  BY <1>1 DEF Due
<1>2. CASE q # <<>>
  <2>1. Head(q).op = "status"
    BY <1>2, TailOf
  <2> QED
    BY <1>2, <2>1 DEF Due, Leaves, Warp!Connected, Warp!HungUp
<1> QED
  BY <1>1, <1>2

LEMMA WarpNoted ==
  ASSUME v8 \subseteq Warp!Oddities, NEW reasons \in SUBSET Warp!Oddities,
         Warp!Note(reasons)
  PROVE  v8' \subseteq Warp!Oddities /\ (v8' = {} => v8 = {} /\ reasons = {})
BY DEF Warp!Note

LEMMA WarpCloses ==
  ASSUME v1' \in Client, v2' \in Intent \cup {None}, v3' \in WarpSession,
         v4' \in {"idle", "testing", "stopping", "other"}, v5' \in Window,
         v6' \in Tasks, v7' \in Seq(Report), v8' \subseteq Warp!Oddities, WarpKnown',
         v8' = {} => /\ Warp!OneAtWork' /\ Warp!HangUpFits'
                     /\ IF v6'["connect"].pc \in Tests
                        THEN Trial(v1', v2', v3', v6'["connect"])
                        ELSE Sound(v1', v2', Due(v7', v3'))
  PROVE  Warp!WarpInv'
<1>1. Warp!TypeOK'
  BY DEF Warp!TypeOK, Warp!Preferences, Prefs, Client, Intent, WarpSession, Window, Task,
     Tasks, Report
<1>2. Warp!Accounted(Warp!SessionDue)' <=> Sound(v1', v2', Due(v7', v3'))
  BY DEF Warp!Accounted, Warp!SessionDue, Warp!After, Sound, Due, Leaves
<1>3. /\ Warp!Testing' <=> v6'["connect"].pc \in Tests
      /\ Warp!TestFits' <=> Trial(v1', v2', v3', v6'["connect"])
  BY DEF Warp!Testing, Warp!TestFits, Trial, Tests, Warp!At
<1>4. Warp!Testing' => v6'["connect"].original # None
  BY <1>3, WaysAssumption DEF WarpKnown, Prefs
<1> QED
  BY <1>1, <1>2, <1>3, <1>4 DEF Warp!WarpInv

\* What there is in a state without a note
LEMMA Now ==
  ASSUME Warp!WarpInv, v8 = {}
  PROVE  /\ Warp!OneAtWork /\ Warp!HangUpFits
         /\ IF v6["connect"].pc \in Tests THEN Trial(v1, v2, v3, v6["connect"])
            ELSE Sound(v1, v2, Due(v7, v3))
<1>1. Warp!Accounted(Warp!SessionDue) <=> Sound(v1, v2, Due(v7, v3))
  BY DEF Warp!Accounted, Warp!SessionDue, Warp!After, Sound, Due, Leaves
<1>2. /\ Warp!Testing <=> v6["connect"].pc \in Tests
      /\ Warp!TestFits <=> Trial(v1, v2, v3, v6["connect"])
  BY DEF Warp!Testing, Warp!TestFits, Trial, Tests, Warp!At
<1> QED
  BY <1>1, <1>2 DEF Warp!WarpInv

\* An operation at work is the only one, and no report waits.
LEMMA Alone ==
  ASSUME Warp!WarpInv, v8 = {}, NEW k \in Operations, v6[k].pc # "none"
  PROVE  /\ v7 = <<>> /\ Due(v7, v3) = v3
         /\ \A j \in Warp!Kinds \ {k} : v6[j].pc = "none"
<1>1. Warp!OneAtWork
  BY Now
<1>2. v7 = <<>> /\ v6["status"].pc = "none"
  BY <1>1 DEF Warp!OneAtWork, Warp!Changing, Warp!AtWork, Operations
<1>3. \A j \in Warp!Kinds \ {k} : v6[j].pc = "none"
  BY <1>1, <1>2 DEF Warp!OneAtWork, Warp!AtWork, Operations
<1> QED
  BY <1>2, <1>3 DEF Due

\* The conditions on the tasks and the inbox, as WarpCloses wants them
LEMMA WorkFits ==
  ASSUME v6' \in Tasks, v7' \in Seq(Report), NEW k \in Operations,
         v7' = <<>>, \A j \in Warp!Kinds \ {k} : v6'[j].pc = "none",
         k = "disconnect" => /\ v6'[k].own = v3'.own
                             /\ v6'[k].original = v3'.original,
         k # "connect" /\ v6'[k].pc = "hangup"
            => v6'[k].original = Own /\ v1'.by = "app"
  PROVE  Warp!OneAtWork' /\ Warp!HangUpFits'
<1>1. Warp!OneAtWork'
  <2>1. "status" \in Warp!Kinds \ {k} /\ DOMAIN v7' = {}
    BY DEF Operations, Warp!Kinds
  <2>2. \A i, j \in Operations : v6'[i].pc # "none" /\ v6'[j].pc # "none" => i = j
    BY DEF Operations
  <2> QED
    BY <2>1, <2>2 DEF Warp!OneAtWork, Warp!Changing, Warp!AtWork, Operations
<1>2. \A j \in {"connect", "disconnect", "reset"} : j = k \/ v6'[j].pc = "none"
  BY DEF Warp!Kinds
<1>3. Warp!HangUpFits'
  BY <1>2 DEF Warp!HangUpFits, Warp!AtWork, Warp!At
<1> QED
  BY <1>1, <1>3

\* Nothing at work: what the inbox holds is of the status, or a single report.
LEMMA RestFits ==
  ASSUME v6' \in Tasks, v7' \in Seq(Report),
         \A j \in Operations : v6'[j].pc = "none",
         \/ \A i \in DOMAIN v7' : v7'[i].op = "status"
         \/ Len(v7') = 1 /\ v6'["status"].pc = "none"
  PROVE  Warp!OneAtWork' /\ Warp!HangUpFits' /\ v6'["connect"].pc \notin Tests
<1>1. \A j \in {"connect", "disconnect", "reset"} : v6'[j].pc = "none"
  BY DEF Operations, Warp!Kinds
<1>2. Warp!OneAtWork'
  BY DEF Warp!OneAtWork, Warp!Changing, Warp!AtWork, Operations
<1>3. Warp!HangUpFits'
  BY <1>1 DEF Warp!HangUpFits, Warp!AtWork, Warp!At
<1> QED
  BY <1>1, <1>2, <1>3 DEF Tests

\* Between two operations
LEMMA AtRestNow ==
  ASSUME Warp!WarpInv, v8 = {}, Warp!AtRest
  PROVE  /\ \A j \in Operations : v6[j].pc = "none"
         /\ Due(v7, v3) = v3 /\ Sound(v1, v2, v3)
<1>1. /\ \A j \in Operations : v6[j].pc = "none"
      /\ \A i \in DOMAIN v7 : v7[i].op = "status"
  BY DEF Warp!AtRest, Warp!Changing, Warp!AtWork, Operations
<1>2. "connect" \in Operations
  BY DEF Operations, Warp!Kinds
<1>3. Due(v7, v3) = v3
  BY <1>1, WarpInvTyped, StatusOnly
<1> QED
  BY <1>1, <1>2, <1>3, Now DEF Tests

-------------------------------------------------------------------------------
(***************************************************************************)
(* How an operation begins, goes on and ends                               *)
(***************************************************************************)
LEMMA WarpStarts ==
  ASSUME Warp!WarpInv, NEW k \in Warp!Kinds, NEW t \in Task, t.pc = "inspect",
         Warp!Start(k, t), UNCHANGED <<v1, v2, v3, v7>>,
         v4' \in {"idle", "testing", "stopping", "other"}, v5' \in Window,
         k = "disconnect" => t.own = v3.own /\ t.original = v3.original
  PROVE  Warp!WarpInv' /\ Spared
<1> DEFINE waits == v6["status"].pc # "none" \/ \E i \in DOMAIN v7 : v7[i].op = "status"
           reasons == (IF ~Warp!AtRest THEN {"overlap"} ELSE {})
                      \cup (IF k # "status" /\ waits THEN {"stale"} ELSE {})
<1>1. v6' = [v6 EXCEPT ![k] = t] /\ Warp!Note(reasons)
  BY DEF Warp!Start, Warp!AtWork
<1>2. reasons \in SUBSET Warp!Oddities
  BY DEF Warp!Oddities
<1>3. reasons = {} => Warp!AtRest /\ (k # "status" => ~waits)
  OBVIOUS
<1> HIDE DEF reasons
<1>4. v8' \subseteq Warp!Oddities /\ (v8' = {} => v8 = {} /\ reasons = {})
  BY <1>1, <1>2, WarpInvTyped, WarpNoted
<1>5. v6' \in Tasks /\ v6'[k] = t /\ \A j \in Warp!Kinds \ {k} : v6'[j] = v6[j]
  BY <1>1, WarpInvTyped, PutTask
<1>6. ASSUME v8' = {}
      PROVE  /\ Warp!OneAtWork' /\ Warp!HangUpFits' /\ v6'["connect"].pc \notin Tests
             /\ Sound(v1', v2', Due(v7', v3'))
  <2>1. /\ \A j \in Operations : v6[j].pc = "none"
        /\ Due(v7, v3) = v3 /\ Sound(v1, v2, v3)
        /\ \A i \in DOMAIN v7 : v7[i].op = "status"
    BY <1>3, <1>4, <1>6, AtRestNow DEF Warp!AtRest
  <2>2. Sound(v1', v2', Due(v7', v3'))
    BY <2>1
  <2>3. CASE k = "status"
    <3>1. \A j \in Operations : v6'[j].pc = "none"
      BY <1>5, <2>1, <2>3 DEF Operations
    <3> QED
      BY <1>5, <2>1, <2>2, <3>1, WarpInvTyped, RestFits
  <2>4. CASE k # "status"
    <3>1. k \in Operations /\ "connect" \in Operations
      BY <2>4 DEF Operations, Warp!Kinds
    <3>2. v7 = <<>> /\ v6["status"].pc = "none"
      <4>1. ~waits
        BY <1>3, <1>4, <1>6, <2>4
      <4>2. v7 # <<>> => 1 \in DOMAIN v7
        BY WarpInvTyped, TailOf
      <4> QED
        BY <2>1, <4>1, <4>2
    <3>3. \A j \in Warp!Kinds \ {k} : v6'[j].pc = "none"
      BY <1>5, <2>1, <3>2 DEF Operations
    <3>4. v6'["connect"].pc \notin Tests
      BY <1>5, <3>1, <3>3 DEF Tests, Operations
    <3> QED
      BY <1>5, <2>2, <3>1, <3>2, <3>3, <3>4, WarpInvTyped, WorkFits
  <2> QED
    BY <2>3, <2>4
<1>7. WarpKnown'
  <2>1. k = "connect" \/ v6'["connect"] = v6["connect"]
    BY <1>5 DEF Warp!Kinds
  <2> QED
    BY <1>5, <2>1, WarpInvTyped DEF WarpKnown, Tests
<1> QED
  BY <1>4, <1>5, <1>6, <1>7, WarpInvTyped, WarpCloses DEF Spared

\* The operation k goes on at t.
LEMMA MoveInv ==
  ASSUME Warp!WarpInv, NEW k \in Operations, v6[k].pc # "none", NEW t \in Task,
         v6' = [v6 EXCEPT ![k] = t], v1' \in Client,
         UNCHANGED <<v2, v3, v4, v5, v7, v8>>,
         k = "disconnect" => t.own = v6[k].own /\ t.original = v6[k].original,
         k = "connect" /\ t.pc \in Tests => t.original \in Prefs,
         v8 = {} => /\ k # "connect" /\ t.pc = "hangup"
                          => t.original = Own /\ v1'.by = "app"
                    /\ IF k = "connect" /\ t.pc \in Tests THEN Trial(v1', v2, v3, t)
                       ELSE Sound(v1', v2, v3)
  PROVE  Warp!WarpInv'
<1>1. k \in Warp!Kinds /\ "connect" \in Warp!Kinds
  BY DEF Operations, Warp!Kinds
<1>2. v6' \in Tasks /\ v6'[k] = t /\ \A j \in Warp!Kinds \ {k} : v6'[j] = v6[j]
  BY <1>1, WarpInvTyped, PutTask
<1>3. ASSUME v8' = {}
      PROVE  /\ Warp!OneAtWork' /\ Warp!HangUpFits'
             /\ IF v6'["connect"].pc \in Tests
                THEN Trial(v1', v2', v3', v6'["connect"])
                ELSE Sound(v1', v2', Due(v7', v3'))
  <2>1. /\ v7 = <<>> /\ Due(v7, v3) = v3
        /\ \A j \in Warp!Kinds \ {k} : v6'[j].pc = "none"
    BY <1>2, <1>3, Alone
  <2>2. k = "disconnect" => t.own = v3.own /\ t.original = v3.original
    BY <1>3, Now DEF Warp!HangUpFits, Warp!AtWork
  <2>3. Warp!OneAtWork' /\ Warp!HangUpFits'
    BY <1>2, <1>3, <2>1, <2>2, WarpInvTyped, WorkFits
  <2>4. CASE k = "connect"
    BY <1>2, <1>3, <2>1, <2>3, <2>4
  <2>5. CASE k # "connect"
    <3>1. v6'["connect"].pc \notin Tests
      BY <1>1, <2>1, <2>5 DEF Tests
    <3> QED
      BY <1>3, <2>1, <2>3, <2>5, <3>1
  <2> QED
    BY <2>4, <2>5
<1>4. WarpKnown'
  <2>1. k = "connect" \/ v6'["connect"] = v6["connect"]
    BY <1>1, <1>2
  <2> QED
    BY <1>2, <2>1, WarpInvTyped DEF WarpKnown
<1> QED
  BY <1>2, <1>3, <1>4, WarpInvTyped, WarpCloses

\* The operation k ends, and reports.
LEMMA AnswerInv ==
  ASSUME Warp!WarpInv, NEW k \in Operations, v6[k].pc # "none", NEW report \in Report,
         Warp!Answer(k, report), v1' \in Client, v2' \in Intent \cup {None},
         UNCHANGED <<v3, v4, v5>>, v8' \subseteq Warp!Oddities,
         v8' = {} => v8 = {},
         NEW r, r = [report EXCEPT !.op = k],
         v8' = {} => Sound(v1', v2', Leaves(r, v3))
  PROVE  Warp!WarpInv'
<1>1. k \in Warp!Kinds /\ v6' = [v6 EXCEPT ![k] = Warp!NoTask] /\ v7' = Append(v7, r)
  BY DEF Operations, Warp!Answer
<1>2. /\ v6' \in Tasks /\ v6'[k] = Warp!NoTask
      /\ \A j \in Warp!Kinds \ {k} : v6'[j] = v6[j]
  BY <1>1, WarpInvTyped, PutTask, NoTaskFields
<1>3. r \in Report
  BY <1>1 DEF Report
<1>4. /\ v7' \in Seq(Report) /\ v7' # <<>>
      /\ v7 = <<>> => Len(v7') = 1 /\ Head(v7') = r
  BY <1>1, <1>3, WarpInvTyped, AppendTo
<1>5. ASSUME v8' = {}
      PROVE  /\ Warp!OneAtWork' /\ Warp!HangUpFits' /\ v6'["connect"].pc \notin Tests
             /\ Sound(v1', v2', Due(v7', v3'))
  <2>1. v7 = <<>> /\ \A j \in Warp!Kinds \ {k} : v6[j].pc = "none"
    BY <1>5, Alone
  <2>2. \A j \in Warp!Kinds : v6'[j].pc = "none"
    BY <1>2, <2>1, NoTaskFields
  <2>3. "status" \in Warp!Kinds /\ \A j \in Operations : j \in Warp!Kinds
    BY DEF Operations, Warp!Kinds
  <2>4. Due(v7', v3') = Leaves(r, v3)
    BY <1>4, <2>1 DEF Due
  <2> QED
    BY <1>2, <1>4, <1>5, <2>1, <2>2, <2>3, <2>4, RestFits
<1>6. WarpKnown'
  <2>1. k = "connect" \/ v6'["connect"] = v6["connect"]
    BY <1>2 DEF Warp!Kinds
  <2> QED
    BY <1>2, <2>1, WarpInvTyped, NoTaskFields DEF WarpKnown, Tests
<1> QED
  BY <1>2, <1>4, <1>5, <1>6, WarpInvTyped, WarpCloses

\* The reset ends, without a report.
LEMMA ResetEnds ==
  ASSUME Warp!WarpInv, v6["reset"].pc # "none",
         v6' = [v6 EXCEPT !["reset"] = Warp!NoTask],
         v1' \in Client, v2' \in Intent \cup {None}, v3' \in WarpSession,
         UNCHANGED <<v4, v5, v7>>, v8' \subseteq Warp!Oddities,
         v8' = {} => v8 = {} /\ Sound(v1', v2', v3')
  PROVE  Warp!WarpInv'
<1>1. "reset" \in Operations /\ "reset" \in Warp!Kinds
  BY DEF Operations, Warp!Kinds
<1>2. /\ v6' \in Tasks /\ v6'["reset"] = Warp!NoTask
      /\ \A j \in Warp!Kinds \ {"reset"} : v6'[j] = v6[j]
  BY <1>1, WarpInvTyped, PutTask, NoTaskFields
<1>3. ASSUME v8' = {}
      PROVE  /\ Warp!OneAtWork' /\ Warp!HangUpFits' /\ v6'["connect"].pc \notin Tests
             /\ Sound(v1', v2', Due(v7', v3'))
  <2>1. v7 = <<>> /\ \A j \in Warp!Kinds \ {"reset"} : v6[j].pc = "none"
    BY <1>1, <1>3, Alone
  <2>2. \A j \in Operations : v6'[j].pc = "none"
    BY <1>2, <2>1, NoTaskFields DEF Operations
  <2>3. DOMAIN v7' = {} /\ Due(v7', v3') = v3'
    BY <2>1 DEF Due
  <2> QED
    BY <1>2, <1>3, <2>2, <2>3, WarpInvTyped, RestFits
<1>4. WarpKnown'
  BY <1>2, WarpInvTyped DEF WarpKnown, Warp!Kinds
<1> QED
  BY <1>2, <1>3, <1>4, WarpInvTyped, WarpCloses

-------------------------------------------------------------------------------
(***************************************************************************)
(* The GUI thread                                                          *)
(***************************************************************************)
\* Only what is shown changes, or the flag of a test that is cancelled.
LEMMA ShownInv ==
  ASSUME Warp!WarpInv, UNCHANGED <<v1, v2, v3, v7, v8>>,
         v4' \in {"idle", "testing", "stopping", "other"}, v5' \in Window,
         v6' \in Tasks,
         \A j \in Warp!Kinds : /\ v6'[j].pc = v6[j].pc /\ v6'[j].own = v6[j].own
                               /\ v6'[j].original = v6[j].original
  PROVE  Warp!WarpInv' /\ Spared
<1>1. "connect" \in Warp!Kinds /\ "disconnect" \in Warp!Kinds /\ "reset" \in Warp!Kinds
      /\ "status" \in Warp!Kinds
  BY DEF Warp!Kinds
<1>2. ASSUME v8' = {}
      PROVE  /\ Warp!OneAtWork' /\ Warp!HangUpFits'
             /\ IF v6'["connect"].pc \in Tests
                THEN Trial(v1', v2', v3', v6'["connect"])
                ELSE Sound(v1', v2', Due(v7', v3'))
  <2>1. /\ Warp!OneAtWork /\ Warp!HangUpFits
        /\ IF v6["connect"].pc \in Tests THEN Trial(v1, v2, v3, v6["connect"])
           ELSE Sound(v1, v2, Due(v7, v3))
    BY <1>2, Now
  <2>2. Warp!OneAtWork'
    BY <1>1, <2>1 DEF Warp!OneAtWork, Warp!Changing, Warp!AtWork
  <2>3. Warp!HangUpFits'
    BY <1>1, <2>1 DEF Warp!HangUpFits, Warp!AtWork, Warp!At
  <2>4. CASE v6["connect"].pc \in Tests
    BY <1>1, <2>1, <2>2, <2>3, <2>4 DEF Trial
  <2>5. CASE v6["connect"].pc \notin Tests
    BY <1>1, <2>1, <2>2, <2>3, <2>5
  <2> QED
    BY <2>4, <2>5
<1>3. WarpKnown'
  BY <1>1, WarpInvTyped DEF WarpKnown
<1> QED
  BY <1>2, <1>3, WarpInvTyped, WarpCloses DEF Spared

LEMMA WarpClicks ==
  ASSUME Warp!WarpInv,
         \/ Warp!ConnectClick \/ Warp!DisconnectClick \/ Warp!CancelClick
         \/ Warp!RefreshClick \/ Warp!ResetClick \/ Warp!OtherJourney
  PROVE  Warp!WarpInv' /\ Spared
<1>1. \A k \in {"connect", "disconnect", "reset", "status"} : k \in Warp!Kinds
  BY DEF Warp!Kinds
<1>2. [v5 EXCEPT !.busy = TRUE] \in Window
  BY WarpInvTyped DEF Window
<1>3. CASE Warp!ConnectClick
  <2> DEFINE t == [Warp!NoTask EXCEPT !.pc = "inspect", !.todo = Ways]
  <2>1. /\ Warp!Start("connect", t) /\ UNCHANGED <<v1, v2, v3, v7>>
        /\ v4' = "testing" /\ v5' = [v5 EXCEPT !.busy = TRUE]
    BY <1>3 DEF Warp!ConnectClick
  <2>2. t \in Task /\ t.pc = "inspect"
    BY NoTaskFields DEF Task
  <2> HIDE DEF t
  <2> QED
    BY <1>1, <1>2, <2>1, <2>2, WarpStarts
<1>4. CASE Warp!DisconnectClick
  <2> DEFINE t == [Warp!NoTask EXCEPT !.pc = "inspect", !.own = v3.own,
                                      !.original = v3.original]
  <2>1. /\ Warp!Start("disconnect", t) /\ UNCHANGED <<v1, v2, v3, v7>>
        /\ v4' = "stopping" /\ v5' = [v5 EXCEPT !.busy = TRUE]
    BY <1>4 DEF Warp!DisconnectClick
  <2>2. t \in Task /\ t.pc = "inspect" /\ t.own = v3.own /\ t.original = v3.original
    BY WarpInvTyped, NoTaskFields DEF Task
  <2> HIDE DEF t
  <2> QED
    BY <1>1, <1>2, <2>1, <2>2, WarpStarts
<1>5. CASE Warp!CancelClick
  <2> DEFINE t == [v6["connect"] EXCEPT !.cancelled = TRUE]
  <2>1. /\ v6' = [v6 EXCEPT !["connect"] = t] /\ v4' = "stopping"
        /\ UNCHANGED <<v1, v2, v3, v5, v7, v8>>
    BY <1>5 DEF Warp!CancelClick
  <2>2. /\ t \in Task /\ t.pc = v6["connect"].pc /\ t.own = v6["connect"].own
        /\ t.original = v6["connect"].original
    BY <1>1, WarpInvTyped DEF Task
  <2> HIDE DEF t
  <2>3. /\ v6' \in Tasks /\ v6'["connect"] = t
        /\ \A j \in Warp!Kinds \ {"connect"} : v6'[j] = v6[j]
    BY <1>1, <2>1, <2>2, WarpInvTyped, PutTask
  <2> QED
    BY <2>1, <2>2, <2>3, WarpInvTyped, ShownInv
<1>6. CASE Warp!RefreshClick \/ Warp!ResetClick
  <2> DEFINE t == [Warp!NoTask EXCEPT !.pc = "inspect"]
  <2>1. /\ Warp!Start("status", t) \/ Warp!Start("reset", t)
        /\ UNCHANGED <<v1, v2, v3, v4, v5, v7>>
    BY <1>6 DEF Warp!RefreshClick, Warp!ResetClick
  <2>2. t \in Task /\ t.pc = "inspect"
    BY NoTaskFields DEF Task
  <2> HIDE DEF t
  <2>3. CASE Warp!Start("status", t)
    BY <1>1, <2>1, <2>2, <2>3, WarpInvTyped, WarpStarts
  <2>4. CASE Warp!Start("reset", t)
    BY <1>1, <2>1, <2>2, <2>4, WarpInvTyped, WarpStarts
  <2> QED
    BY <2>1, <2>3, <2>4
<1>7. CASE Warp!OtherJourney
  BY <1>7, WarpInvTyped, ShownInv DEF Warp!OtherJourney
<1> QED
  BY <1>3, <1>4, <1>5, <1>6, <1>7

LEMMA OnFinishedInv ==
  ASSUME Warp!WarpInv, Warp!OnFinished
  PROVE  Warp!WarpInv' /\ Spared
<1> DEFINE r == Head(v7)
<1>1. /\ v7 # <<>> /\ v7' = Tail(v7) /\ v3' = Leaves(r, v3) /\ v5' = Warp!Shown(r)
      /\ v4' \in {"idle", v4} /\ UNCHANGED <<v1, v2, v6, v8>>
  BY DEF Warp!OnFinished, Warp!After, Leaves
<1>2. r \in Report /\ v7' \in Seq(Report)
  BY <1>1, WarpInvTyped, TailOf
<1> HIDE DEF r
<1>3. v3' \in WarpSession
  BY <1>1, <1>2, WarpInvTyped, NoWarpSession DEF Leaves, WarpSession, Report
<1>4. v5' \in Window
  BY <1>1, <1>2, WarpInvTyped DEF Warp!Shown, Window, Report, Warp!Connected, Warp!HungUp
<1>5. ASSUME v8' = {}
      PROVE  /\ Warp!OneAtWork' /\ Warp!HangUpFits' /\ v6'["connect"].pc \notin Tests
             /\ Sound(v1', v2', Due(v7', v3'))
  <2>1. Warp!OneAtWork
    BY <1>1, <1>5, Now
  <2>2. \A j \in Operations : v6[j].pc = "none"
    BY <1>1, <2>1 DEF Warp!OneAtWork, Warp!Changing, Warp!AtWork, Operations
  <2>3. v6["connect"].pc \notin Tests
    BY <2>2 DEF Operations, Warp!Kinds, Tests
  <2>4. Sound(v1, v2, v3')
    BY <1>1, <1>5, <2>3, Now DEF Due, r
  <2>5. /\ \A i \in DOMAIN v7' : v7'[i].op = "status"
        /\ Due(v7', v3') = v3'
    <3>1. CASE \A i \in DOMAIN v7 : v7[i].op = "status"
      <4>1. \A i \in DOMAIN v7' : v7'[i].op = "status"
        BY <1>1, <3>1, WarpInvTyped, TailOf
      <4> QED
        BY <1>2, <4>1, StatusOnly
    <3>2. CASE \E i \in DOMAIN v7 : v7[i].op # "status"
      <4>1. v7' = <<>>
        BY <1>1, <2>1, <3>2, WarpInvTyped, TailOf DEF Warp!OneAtWork
      <4> QED
        BY <4>1 DEF Due
    <3> QED
      BY <3>1, <3>2
  <2> QED
    BY <1>1, <1>2, <2>2, <2>4, <2>5, WarpInvTyped, RestFits
<1>6. WarpKnown'
  BY <1>1, WarpInvTyped DEF WarpKnown
<1> QED
  BY <1>1, <1>2, <1>3, <1>4, <1>5, <1>6, WarpInvTyped, WarpCloses DEF Spared

-------------------------------------------------------------------------------
(***************************************************************************)
(* The worker threads                                                      *)
(***************************************************************************)
LEMMA StatusInv ==
  ASSUME Warp!WarpInv, Warp!Status PROVE Warp!WarpInv' /\ Spared
<1> DEFINE report == [Warp!NoReport EXCEPT !.active = v1.up]
           r == [report EXCEPT !.op = "status"]
<1>1. /\ v6["status"].pc = "inspect" /\ v6' = [v6 EXCEPT !["status"] = Warp!NoTask]
      /\ v7' = Append(v7, r) /\ UNCHANGED <<v1, v2, v3, v4, v5, v8>>
  BY DEF Warp!Status, Warp!Answer, Warp!At
<1>2. report \in Report
  BY WarpInvTyped, NoReportFields DEF Report, Client
<1> HIDE DEF report
<1>3. r \in Report /\ r.op = "status"
  BY <1>2 DEF Report, Warp!Kinds
<1> HIDE DEF r
<1>4. /\ v6' \in Tasks /\ v6'["status"] = Warp!NoTask
      /\ \A j \in Operations : v6'[j] = v6[j]
  BY <1>1, WarpInvTyped, PutTask, NoTaskFields DEF Operations, Warp!Kinds
<1>5. /\ v7' \in Seq(Report) /\ DOMAIN v7' = 1 .. Len(v7) + 1
      /\ DOMAIN v7 = 1 .. Len(v7) /\ Len(v7) \in Nat
      /\ v7'[Len(v7) + 1] = r /\ \A i \in DOMAIN v7 : v7'[i] = v7[i]
  BY <1>1, <1>3, WarpInvTyped, AppendTo
<1>6. ASSUME v8' = {}
      PROVE  /\ Warp!OneAtWork' /\ Warp!HangUpFits' /\ v6'["connect"].pc \notin Tests
             /\ Sound(v1', v2', Due(v7', v3'))
  <2>1. /\ \A j \in Operations : v6[j].pc = "none"
        /\ \A i \in DOMAIN v7 : v7[i].op = "status"
    BY <1>1, <1>6, Now DEF Warp!OneAtWork, Warp!Changing, Warp!AtWork, Operations
  <2>2. Warp!AtRest
    BY <2>1 DEF Warp!AtRest, Warp!Changing, Warp!AtWork, Operations
  <2>3. \A i \in DOMAIN v7' : v7'[i].op = "status"
    BY <1>3, <1>5, <2>1
  <2>4. Due(v7', v3') = v3
    BY <1>1, <1>5, <2>3, StatusOnly
  <2>5. Sound(v1, v2, v3)
    BY <1>1, <1>6, <2>2, AtRestNow
  <2> QED
    BY <1>1, <1>4, <1>5, <2>1, <2>3, <2>4, <2>5, RestFits
<1>7. WarpKnown'
  BY <1>4, WarpInvTyped DEF WarpKnown, Operations, Warp!Kinds
<1> QED
  BY <1>1, <1>4, <1>5, <1>6, <1>7, WarpInvTyped, WarpCloses DEF Spared

\* What holds while the operation k has not touched the client
LEMMA Untouched ==
  ASSUME Warp!WarpInv, v8 = {}, NEW k \in Operations, v6[k].pc # "none",
         k # "connect" \/ v6[k].pc \notin Tests
  PROVE  Sound(v1, v2, v3)
<1>1. Due(v7, v3) = v3 /\ \A j \in Warp!Kinds \ {k} : v6[j].pc = "none"
  BY Alone
<1>2. v6["connect"].pc \notin Tests
  BY <1>1 DEF Tests, Operations, Warp!Kinds
<1> QED
  BY <1>1, <1>2, Now

LEMMA InspectInv ==
  ASSUME Warp!WarpInv, Warp!Inspect PROVE Warp!WarpInv' /\ Spared
<1>1. /\ "connect" \in Operations /\ v6["connect"].pc = "inspect"
      /\ UNCHANGED <<v1, v2, v3, v4, v5, v8>> /\ "connect" \in Warp!Kinds
  BY DEF Warp!Inspect, Warp!At, Operations, Warp!Kinds
<1>2. v8 = {} => Sound(v1, v2, v3)
  BY <1>1, Untouched DEF Tests
<1>3. CASE Warp!Answer("connect", [Warp!NoReport EXCEPT !.ok = FALSE])
  <2> DEFINE report == [Warp!NoReport EXCEPT !.ok = FALSE]
             r == [report EXCEPT !.op = "connect"]
  <2>1. report \in Report /\ report.ok = FALSE
    BY NoReportFields DEF Report
  <2> HIDE DEF report
  <2>2. r.op = "connect" /\ r.ok = FALSE
    BY <2>1 DEF Report
  <2>3. r = [report EXCEPT !.op = "connect"]
    OBVIOUS
  <2>4. Warp!Answer("connect", report)
    BY <1>3 DEF report
  <2> HIDE DEF r
  <2>5. Leaves(r, v3) = v3
    BY <2>2 DEF Leaves, Warp!Connected, Warp!HungUp
  <2> QED
    BY <1>1, <1>2, <2>1, <2>3, <2>4, <2>5, WarpInvTyped, AnswerInv DEF Spared
<1>4. CASE v1.up /\ Warp!Answer("connect", [Warp!NoReport EXCEPT !.active = TRUE])
  <2> DEFINE report == [Warp!NoReport EXCEPT !.active = TRUE]
             r == [report EXCEPT !.op = "connect"]
  <2>1. /\ report \in Report /\ report.ok = TRUE /\ report.own = FALSE
        /\ report.original = None
    BY NoReportFields DEF Report
  <2> HIDE DEF report
  <2>2. r.op = "connect" /\ r.ok = TRUE /\ r.own = FALSE /\ r.original = None
    BY <2>1 DEF Report
  <2>3. r = [report EXCEPT !.op = "connect"]
    OBVIOUS
  <2>4. Warp!Answer("connect", report)
    BY <1>4 DEF report
  <2> HIDE DEF r
  <2>5. Leaves(r, v3) = Warp!NoSession
    BY <2>2 DEF Leaves, Warp!Connected, Warp!NoSession
  <2>6. Sound(v1, v2, v3) => Sound(v1, v2, Warp!NoSession)
    BY NoWarpSession DEF Sound
  <2> QED
    BY <1>1, <1>2, <2>1, <2>3, <2>4, <2>5, <2>6, WarpInvTyped, AnswerInv DEF Spared
<1>5. CASE /\ ~v1.up /\ v7' = v7
           /\ v6' = [v6 EXCEPT !["connect"].pc = "dial",
                               !["connect"].original = v1.prefs]
  <2> DEFINE t == [v6["connect"] EXCEPT !.pc = "dial", !.original = v1.prefs]
  <2>1. v6' = [v6 EXCEPT !["connect"] = t]
    BY <1>5
  <2>2. t \in Task /\ t.pc = "dial" /\ t.original = v1.prefs /\ v1.prefs \in Prefs
    BY <1>1, WarpInvTyped DEF Task, Client
  <2> HIDE DEF t
  <2>3. v8 = {} => Trial(v1, v2, v3, t)
    BY <1>2, <1>5, <2>2, WarpInvTyped DEF Sound, Trial, Client
  <2> QED
    BY <1>1, <1>5, <2>1, <2>2, <2>3, WarpInvTyped, MoveInv DEF Tests, Spared
<1> QED
  BY <1>3, <1>4, <1>5 DEF Warp!Inspect

\* A step of a test that goes on; the client is down, or up in a way that it tried.
LEMMA TestStep ==
  ASSUME Warp!WarpInv, v6["connect"].pc \in Tests, NEW t \in Task, t.pc \in Tests,
         t.original = v6["connect"].original,
         v6' = [v6 EXCEPT !["connect"] = t], v1' \in Client,
         UNCHANGED <<v2, v3, v4, v5, v7, v8>>,
         \/ v1' = v1
         \/ v1'.by = "none" /\ ~v1'.up
         \/ v1'.by = "app" /\ v1'.up /\ v1'.prefs \in Ways,
         t.pc = "intent" => v1'.up
  PROVE  Warp!WarpInv' /\ Spared
<1>1. "connect" \in Operations /\ v6["connect"].pc # "none"
  BY DEF Operations, Warp!Kinds, Tests
<1>2. v8 = {} => Trial(v1, v2, v3, v6["connect"])
  BY Now
<1>3. v8 = {} => Trial(v1', v2, v3, t)
  BY <1>2 DEF Trial
<1>4. Spared
  BY <1>2 DEF Spared, Trial
<1>5. t.original \in Prefs
  BY WarpInvTyped DEF WarpKnown
<1> QED
  BY <1>1, <1>3, <1>4, <1>5, WarpInvTyped, MoveInv

LEMMA DialInv ==
  ASSUME Warp!WarpInv, Warp!Dial PROVE Warp!WarpInv' /\ Spared
<1> DEFINE t == v6["connect"]
<1>1. /\ t.pc = "dial" /\ t \in Task /\ "connect" \in Warp!Kinds
      /\ UNCHANGED <<v2, v3, v4, v5, v7, v8>>
  BY WarpInvTyped DEF Warp!Dial, Warp!At, Warp!Kinds
<1>2. v1.prefs \in Prefs /\ \A way \in Ways : way \in Prefs
  BY WarpInvTyped DEF Client, Prefs
<1>3. CASE Warp!Goto("connect", "undo") /\ v1' = v1
  <2> DEFINE u == [t EXCEPT !.pc = "undo"]
  <2>1. v6' = [v6 EXCEPT !["connect"] = u]
    BY <1>3 DEF Warp!Goto
  <2>2. u \in Task /\ u.pc = "undo" /\ u.original = t.original
    BY <1>1 DEF Task
  <2> HIDE DEF u
  <2> QED
    BY <1>1, <1>3, <2>1, <2>2, WarpInvTyped, TestStep DEF Tests
<1>4. ASSUME NEW way \in t.todo, NEW pc \in {"verify", "undo", "dial"},
             v6' = [v6 EXCEPT !["connect"].pc = pc, !["connect"].todo = @ \ {way}],
             v1' \in {v1, Warp!Down(v1.prefs), Warp!Down(way), Warp!Up(way)}
      PROVE  Warp!WarpInv' /\ Spared
  <2> DEFINE rest == t.todo \ {way}
             u == [t EXCEPT !.pc = pc, !.todo = rest]
  <2>1. v6' = [v6 EXCEPT !["connect"] = u]
    BY <1>4
  <2>2. way \in Ways /\ rest \in SUBSET Ways
    BY <1>1 DEF Task
  <2> HIDE DEF rest
  <2>3. u \in Task /\ u.pc = pc /\ u.original = t.original
    BY <1>1, <2>2 DEF Task
  <2> HIDE DEF u
  <2>4. /\ v1' \in Client
        /\ \/ v1' = v1
           \/ v1'.by = "none" /\ ~v1'.up
           \/ v1'.by = "app" /\ v1'.up /\ v1'.prefs \in Ways
    <3>1. CASE v1' = v1
      BY <3>1, WarpInvTyped
    <3>2. ASSUME NEW p \in Prefs, v1' = Warp!Down(p)
          PROVE  v1' \in Client /\ v1'.by = "none" /\ ~v1'.up
      BY <3>2, DownFields
    <3>3. ASSUME v1' = Warp!Up(way)
          PROVE  v1' \in Client /\ v1'.by = "app" /\ v1'.up /\ v1'.prefs \in Ways
      BY <1>2, <2>2, <3>3, UpFields
    <3> QED
      BY <1>2, <1>4, <2>2, <3>1, <3>2, <3>3
  <2> QED
    BY <1>1, <1>4, <2>1, <2>3, <2>4, TestStep DEF Tests
<1> QED
  BY <1>3, <1>4 DEF Warp!Dial

LEMMA VerifyInv ==
  ASSUME Warp!WarpInv, Warp!Verify PROVE Warp!WarpInv' /\ Spared
<1> DEFINE t == v6["connect"]
<1>1. /\ t.pc = "verify" /\ t \in Task /\ "connect" \in Warp!Kinds
      /\ UNCHANGED <<v1, v2, v3, v4, v5, v7, v8>>
  BY WarpInvTyped DEF Warp!Verify, Warp!At, Warp!Kinds
<1>2. PICK pc \in {"undo", "dial", "intent"} :
         v6' = [v6 EXCEPT !["connect"].pc = pc] /\ (pc = "intent" => v1.up)
  BY DEF Warp!Verify, Warp!Goto
<1> DEFINE u == [t EXCEPT !.pc = pc]
<1>3. v6' = [v6 EXCEPT !["connect"] = u]
  BY <1>2
<1>4. u \in Task /\ u.pc = pc /\ u.original = t.original
  BY <1>1 DEF Task
<1> HIDE DEF u
<1> QED
  BY <1>1, <1>2, <1>3, <1>4, WarpInvTyped, TestStep DEF Tests

LEMMA SetIntentInv ==
  ASSUME Warp!WarpInv, Warp!SetIntent PROVE Warp!WarpInv' /\ Spared
<1> DEFINE t == v6["connect"]
           noted == [original |-> t.original,
                     expected |-> IF v1.prefs \in Ways THEN v1.prefs
                                  ELSE CHOOSE w \in Ways : TRUE]
           report == [Warp!NoReport EXCEPT !.active = TRUE, !.own = TRUE,
                                           !.original = t.original]
           r == [report EXCEPT !.op = "connect"]
<1>1. /\ t.pc = "intent" /\ t \in Task /\ "connect" \in Operations
      /\ UNCHANGED <<v1, v3, v4, v5>> /\ Warp!Answer("connect", report)
      /\ \/ v2' = noted /\ v8' = v8
         \/ v2' = v2 /\ Warp!Note({"failed"})
  BY WarpInvTyped DEF Warp!SetIntent, Warp!At, Operations, Warp!Kinds
<1>2. t.original \in Prefs
  BY <1>1, WarpInvTyped DEF WarpKnown, Tests
<1>3. /\ noted \in Intent /\ noted # None /\ noted.original = t.original
      /\ v1.prefs \in Ways => noted.expected = v1.prefs
  <2>1. (IF v1.prefs \in Ways THEN v1.prefs ELSE CHOOSE w \in Ways : TRUE) \in Ways
    BY WaysAssumption
  <2>2. noted \in Intent
    BY <1>2, <2>1 DEF Intent
  <2>3. noted # None
    BY <2>2, IntentAssumption DEF Intent, Prefs, Warp!Preferences
  <2> QED
    BY <2>2, <2>3
<1> HIDE DEF noted
<1>4. /\ report \in Report /\ report.ok = TRUE /\ report.own = TRUE
      /\ report.original = t.original
  BY <1>2, NoReportFields DEF Report, Prefs
<1> HIDE DEF report
<1>5. r.op = "connect" /\ r.ok = TRUE /\ r.own = TRUE /\ r.original = t.original
  BY <1>4 DEF Report
<1>6. r = [report EXCEPT !.op = "connect"]
  OBVIOUS
<1> HIDE DEF r
<1>7. Leaves(r, v3) = [own |-> TRUE, original |-> t.original]
  BY <1>5 DEF Leaves, Warp!Connected
<1>8. {"failed"} \in SUBSET Warp!Oddities
  BY DEF Warp!Oddities
<1>9. v8' \subseteq Warp!Oddities /\ (v8' = {} => v8 = {} /\ v2' = noted)
  BY <1>1, <1>8, WarpInvTyped, WarpNoted
<1>10. v8' = {} => Sound(v1', v2', Leaves(r, v3))
  <2>1. v8' = {} => Trial(v1, v2, v3, t)
    BY <1>1, <1>9, Now DEF Tests
  <2> HIDE DEF t
  <2> QED
    BY <1>1, <1>3, <1>7, <1>9, <2>1 DEF Sound, Trial
<1>11. v2' \in Intent \cup {None}
  BY <1>1, <1>3, WarpInvTyped
<1> QED
  BY <1>1, <1>4, <1>6, <1>9, <1>10, <1>11, WarpInvTyped, AnswerInv DEF Spared

\* An operation that is reported without success leaves the session as it is.
LEMMA FailedLeaves ==
  ASSUME NEW report \in Report, NEW k \in Operations, report.ok = FALSE
  PROVE  Leaves([report EXCEPT !.op = k], v3) = v3
<1>1. [report EXCEPT !.op = k].ok = FALSE
  BY DEF Report
<1> QED
  BY <1>1 DEF Leaves, Warp!Connected, Warp!HungUp

LEMMA UndoInv ==
  ASSUME Warp!WarpInv, Warp!Undo PROVE Warp!WarpInv' /\ Spared
<1> DEFINE t == v6["connect"]
           report == [Warp!NoReport EXCEPT !.ok = FALSE, !.cancelled = t.cancelled]
           r == [report EXCEPT !.op = "connect"]
<1>1. /\ t.pc = "undo" /\ t \in Task /\ "connect" \in Operations
      /\ UNCHANGED <<v2, v3, v4, v5>> /\ Warp!Answer("connect", report)
      /\ \/ v1' = Warp!Down(t.original) /\ v8' = v8
         \/ v1' \in {v1, Warp!Down(v1.prefs)} /\ Warp!Note({"failed"})
  BY WarpInvTyped DEF Warp!Undo, Warp!At, Operations, Warp!Kinds
<1>2. t.original \in Prefs /\ v1.prefs \in Prefs
  BY <1>1, WarpInvTyped DEF WarpKnown, Tests, Client
<1>3. report \in Report /\ report.ok = FALSE
  BY <1>1, NoReportFields DEF Report, Task
<1> HIDE DEF report
<1>4. Leaves(r, v3) = v3 /\ r = [report EXCEPT !.op = "connect"]
  BY <1>1, <1>3, FailedLeaves
<1> HIDE DEF r
<1>5. {"failed"} \in SUBSET Warp!Oddities
  BY DEF Warp!Oddities
<1>6. /\ v8' \subseteq Warp!Oddities
      /\ v8' = {} => v8 = {} /\ v1' = Warp!Down(t.original)
  BY <1>1, <1>5, WarpInvTyped, WarpNoted
<1>7. v8' = {} => Trial(v1, v2, v3, t)
  BY <1>1, <1>6, Now DEF Tests
<1> HIDE DEF t
<1>8. v1' \in Client
  BY <1>1, <1>2, WarpInvTyped, DownFields
<1>9. v8' = {} => Sound(v1', v2', Leaves(r, v3))
  BY <1>1, <1>2, <1>4, <1>6, <1>7, DownFields, NoWarpSession DEF Sound, Trial
<1>10. Spared
  BY <1>7 DEF Spared, Trial
<1> QED
  BY <1>1, <1>3, <1>4, <1>6, <1>8, <1>9, <1>10, WarpInvTyped, AnswerInv DEF t

LEMMA ChooseOwnInv ==
  ASSUME Warp!WarpInv, Warp!ChooseOwn PROVE Warp!WarpInv' /\ Spared
<1> DEFINE t == v6["disconnect"]
<1>1. /\ t.pc = "inspect" /\ t \in Task /\ "disconnect" \in Operations
      /\ UNCHANGED <<v1, v2, v3, v4, v5, v8>>
  BY WarpInvTyped DEF Warp!ChooseOwn, Warp!At, Operations, Warp!Kinds
<1>2. v8 = {} => Sound(v1, v2, v3)
  BY <1>1, Untouched
<1>3. v8 = {} => t.own = v3.own /\ t.original = v3.original
  BY <1>1, Now DEF Warp!HangUpFits, Warp!AtWork
<1>4. CASE t.own /\ v6' = [v6 EXCEPT !["disconnect"].pc = "hangup"] /\ v7' = v7
  <2> DEFINE u == [t EXCEPT !.pc = "hangup"]
  <2>1. v6' = [v6 EXCEPT !["disconnect"] = u]
    BY <1>4
  <2>2. u \in Task /\ u.pc = "hangup" /\ u.own = t.own /\ u.original = t.original
    BY <1>1 DEF Task
  <2> HIDE DEF u
  <2>3. v8 = {} => u.original = Own /\ v1.by = "app"
    BY <1>2, <1>3, <1>4, <2>2, NoWarpSession DEF Sound
  <2> QED
    BY <1>1, <1>2, <1>4, <2>1, <2>2, <2>3, WarpInvTyped, MoveInv DEF Spared
<1>5. CASE t.own /\ Warp!Answer("disconnect",
                               [Warp!NoReport EXCEPT !.ok = FALSE, !.active = v1.up])
  <2> DEFINE report == [Warp!NoReport EXCEPT !.ok = FALSE, !.active = v1.up]
             r == [report EXCEPT !.op = "disconnect"]
  <2>1. report \in Report /\ report.ok = FALSE
    BY WarpInvTyped, NoReportFields DEF Report, Client
  <2>2. Warp!Answer("disconnect", report)
    BY <1>5
  <2> HIDE DEF report
  <2>3. Leaves(r, v3) = v3 /\ r = [report EXCEPT !.op = "disconnect"]
    BY <1>1, <2>1, FailedLeaves
  <2> HIDE DEF r
  <2> QED
    BY <1>1, <1>2, <2>1, <2>2, <2>3, WarpInvTyped, AnswerInv DEF Spared
<1>6. CASE ~t.own /\ Warp!Answer("disconnect", [Warp!NoReport EXCEPT !.active = v1.up])
  <2> DEFINE report == [Warp!NoReport EXCEPT !.active = v1.up]
             r == [report EXCEPT !.op = "disconnect"]
  <2>1. report \in Report
    BY WarpInvTyped, NoReportFields DEF Report, Client
  <2>2. Warp!Answer("disconnect", report)
    BY <1>6
  <2> HIDE DEF report
  <2>3. r.op = "disconnect" /\ r = [report EXCEPT !.op = "disconnect"]
    BY <2>1 DEF Report, Warp!Kinds
  <2> HIDE DEF r
  <2>4. Leaves(r, v3) \in {v3, Warp!NoSession}
    BY <2>3 DEF Leaves, Warp!Connected
  <2>5. v8 = {} => Sound(v1, v2, Leaves(r, v3))
    BY <1>2, <1>3, <1>6, <2>4 DEF Sound
  <2> QED
    BY <1>1, <2>1, <2>2, <2>3, <2>5, WarpInvTyped, AnswerInv DEF Spared
<1> QED
  BY <1>4, <1>5, <1>6 DEF Warp!ChooseOwn, Warp!Goto

LEMMA ResetChoosesInv ==
  ASSUME Warp!WarpInv, Warp!ResetChooses PROVE Warp!WarpInv' /\ Spared
<1> DEFINE t == v6["reset"]
           noted == v2 # None /\ v1.up /\ v1.prefs = v2.expected
           original == IF v3 # Warp!NoSession THEN v3.original
                       ELSE IF noted THEN v2.original ELSE None
           hangs == v3.own \/ (v3 = Warp!NoSession /\ noted)
<1>1. /\ t.pc = "inspect" /\ t \in Task /\ "reset" \in Operations
      /\ UNCHANGED <<v1, v2, v3, v4, v5, v7, v8>>
      /\ v6' = IF hangs THEN [v6 EXCEPT !["reset"].pc = "hangup",
                                        !["reset"].original = original]
               ELSE [v6 EXCEPT !["reset"] = Warp!NoTask]
  BY WarpInvTyped DEF Warp!ResetChooses, Warp!At, Operations, Warp!Kinds
<1>2. v8 = {} => Sound(v1, v2, v3)
  BY <1>1, Untouched
<1>3. CASE hangs
  <2> DEFINE u == [t EXCEPT !.pc = "hangup", !.original = original]
  <2>1. v6' = [v6 EXCEPT !["reset"] = u]
    BY <1>1, <1>3
  <2>2. original \in Prefs \cup {None}
    BY WarpInvTyped DEF Intent
  <2>3. v8 = {} => original = Own /\ v1.by = "app"
    BY <1>2, <1>3, NoWarpSession DEF Sound
  <2> HIDE DEF original
  <2>4. u \in Task /\ u.pc = "hangup" /\ u.original = original
    BY <1>1, <2>2 DEF Task
  <2> HIDE DEF u
  <2> QED
    BY <1>1, <1>2, <2>1, <2>3, <2>4, WarpInvTyped, MoveInv DEF Spared
<1>4. CASE ~hangs
  BY <1>1, <1>2, <1>4, WarpInvTyped, ResetEnds DEF Spared
<1> QED
  BY <1>3, <1>4

LEMMA HangUpInv ==
  ASSUME Warp!WarpInv, NEW k \in {"disconnect", "reset"}, Warp!HangUp(k)
  PROVE  Warp!WarpInv' /\ Spared
<1> DEFINE restored == Warp!Restored(k)
<1>1. /\ v6[k].pc = "hangup" /\ v6[k] \in Task /\ k \in Operations
      /\ UNCHANGED <<v4, v5>>
      /\ \/ v1' = Warp!Down(restored) /\ v2' = None /\ v8' = v8
         \/ v1' \in {v1, Warp!Down(v1.prefs)} /\ Warp!Note({"failed"}) /\ v2' = v2
  BY WarpInvTyped DEF Warp!HangUp, Warp!At, Operations, Warp!Kinds
<1>2. restored \in Prefs /\ (v6[k].original = Own => restored = Own)
  BY <1>1, WarpInvTyped, WaysAssumption DEF Warp!Restored, Client, Task, Prefs
<1>3. {"failed"} \in SUBSET Warp!Oddities /\ v1.prefs \in Prefs
  BY WarpInvTyped DEF Warp!Oddities, Client
<1> HIDE DEF restored
<1>4. /\ v1' \in Client /\ v2' \in Intent \cup {None}
      /\ v8' \subseteq Warp!Oddities /\ (v8' = {} => v8 = {})
      /\ Warp!Note({"failed"}) => v8' # {}
  BY <1>1, <1>2, <1>3, WarpInvTyped, DownFields, WarpNoted
<1>5. v8 = {} => v6[k].original = Own /\ v1.by = "app"
  BY <1>1, Now DEF Warp!HangUpFits, Warp!At
<1>6. v8' = {} => Sound(v1', v2', Warp!NoSession)
  BY <1>1, <1>2, <1>4, <1>5, DownFields, NoWarpSession DEF Sound
<1>7. Spared
  BY <1>4, <1>5 DEF Spared
<1>8. CASE k = "disconnect" /\ Warp!Answer(k, Warp!NoReport) /\ v3' = v3
  <2> DEFINE r == [Warp!NoReport EXCEPT !.op = k]
  <2>1. r.op = "disconnect" /\ r.ok = TRUE /\ r.active = FALSE
    BY <1>8, NoReportFields DEF Report
  <2>2. r = [Warp!NoReport EXCEPT !.op = k]
    OBVIOUS
  <2> HIDE DEF r
  <2>3. Leaves(r, v3) = Warp!NoSession
    BY <2>1 DEF Leaves, Warp!Connected, Warp!HungUp
  <2> QED
    BY <1>1, <1>4, <1>6, <1>7, <1>8, <2>2, <2>3, NoReportFields, AnswerInv
<1>9. CASE /\ k = "disconnect" /\ Warp!Note({"failed"}) /\ v3' = v3
           /\ Warp!Answer(k, [Warp!NoReport EXCEPT !.ok = FALSE, !.active = TRUE])
  <2> DEFINE report == [Warp!NoReport EXCEPT !.ok = FALSE, !.active = TRUE]
             r == [report EXCEPT !.op = k]
  <2>1. report \in Report /\ Warp!Answer(k, report)
    BY <1>9, NoReportFields DEF Report
  <2> HIDE DEF report
  <2>2. r = [report EXCEPT !.op = k]
    OBVIOUS
  <2> HIDE DEF r
  <2> QED
    BY <1>1, <1>4, <1>7, <1>9, <2>1, <2>2, AnswerInv
<1>10. CASE /\ k = "reset" /\ v6' = [v6 EXCEPT ![k] = Warp!NoTask] /\ v7' = v7
            /\ v3' = Warp!NoSession \/ (v3' = v3 /\ Warp!Note({"failed"}))
  BY <1>1, <1>4, <1>6, <1>7, <1>10, WarpInvTyped, NoWarpSession, ResetEnds
<1> QED
  BY <1>8, <1>9, <1>10 DEF Warp!HangUp

-------------------------------------------------------------------------------
(***************************************************************************)
(* The user in the client, and the end of the program                      *)
(***************************************************************************)
LEMMA UserInv ==
  ASSUME Warp!WarpInv, Warp!UserConnects \/ Warp!UserDisconnects
  PROVE  Warp!WarpInv' /\ (Warp!UserConnects => Spared)
<1> DEFINE reasons == IF Warp!Held THEN {"client"} ELSE {}
           up == [v1 EXCEPT !.up = TRUE, !.by = "user"]
<1>1. /\ UNCHANGED <<v2, v3, v4, v5, v6, v7>> /\ Warp!Note(reasons)
      /\ \/ Warp!UserConnects /\ ~v1.up /\ v1' = up
         \/ Warp!UserDisconnects /\ v1' = Warp!Down(v1.prefs)
  BY DEF Warp!UserConnects, Warp!UserDisconnects
<1>2. reasons \in SUBSET Warp!Oddities
  BY DEF Warp!Oddities
<1>3. v8' \subseteq Warp!Oddities /\ (v8' = {} => v8 = {} /\ ~Warp!Held)
  BY <1>1, <1>2, WarpInvTyped, WarpNoted
<1>4. up \in Client /\ up.up = TRUE /\ up.by = "user" /\ up.prefs = v1.prefs
      /\ v1.prefs \in Prefs
  BY WarpInvTyped DEF Client
<1> HIDE DEF up
<1>5. v1' \in Client /\ (v1' = up \/ v1' = Warp!Down(v1.prefs))
  BY <1>1, <1>4, DownFields
<1>6. ASSUME v8' = {}
      PROVE  /\ Warp!OneAtWork' /\ Warp!HangUpFits' /\ v6'["connect"].pc \notin Tests
             /\ Sound(v1', v2', Due(v7', v3'))
  <2>1. v2 = None /\ \A j \in Operations : v6[j].pc = "none"
    BY <1>3, <1>6 DEF Warp!Held, Warp!Changing, Warp!AtWork, Operations
  <2>2. Warp!OneAtWork /\ v6["connect"].pc \notin Tests
    BY <1>3, <1>6, <2>1, Now DEF Tests, Operations, Warp!Kinds
  <2>3. Sound(v1, v2, Due(v7, v3))
    BY <1>3, <1>6, <2>2, Now
  <2>4. Sound(v1', v2, Due(v7, v3))
    BY <1>4, <1>5, <2>1, <2>3, DownFields DEF Sound
  <2>5. Warp!OneAtWork' /\ Warp!HangUpFits'
    <3>1. Warp!OneAtWork'
      BY <1>1, <2>2 DEF Warp!OneAtWork, Warp!Changing, Warp!AtWork
    <3>2. v6'["disconnect"].pc = "none" /\ v6'["reset"].pc = "none"
      BY <1>1, <2>1 DEF Operations, Warp!Kinds
    <3> QED
      BY <3>1, <3>2 DEF Warp!HangUpFits, Warp!AtWork, Warp!At
  <2> QED
    BY <1>1, <2>2, <2>4, <2>5
<1>7. WarpKnown'
  BY <1>1, WarpInvTyped DEF WarpKnown
<1>8. Warp!UserConnects => Spared
  BY DEF Warp!UserConnects, Spared
<1> QED
  BY <1>1, <1>3, <1>5, <1>6, <1>7, <1>8, WarpInvTyped, WarpCloses

LEMMA ProgramEndsInv ==
  ASSUME Warp!WarpInv, Warp!ProgramEnds PROVE Warp!WarpInv' /\ Spared
<1> DEFINE reasons == IF Warp!Changing \/ v7 # <<>> THEN {"crashed"} ELSE {}
<1>1. /\ v3' = Warp!NoSession /\ v4' = "idle" /\ v7' = <<>>
      /\ v5' = [busy |-> FALSE, active |-> FALSE, owned |-> FALSE]
      /\ v6' = [k \in Warp!Kinds |-> Warp!NoTask] /\ Warp!Note(reasons)
      /\ UNCHANGED <<v1, v2>>
  BY DEF Warp!ProgramEnds, Warp!Fresh
<1>2. reasons \in SUBSET Warp!Oddities
  BY DEF Warp!Oddities
<1>3. /\ v8' \subseteq Warp!Oddities
      /\ v8' = {} => v8 = {} /\ ~Warp!Changing /\ v7 = <<>>
  BY <1>1, <1>2, WarpInvTyped, WarpNoted
<1>4. v5' \in Window /\ v7' \in Seq(Report)
  BY <1>1 DEF Window
<1>5. v6' \in Tasks /\ \A k \in Warp!Kinds : v6'[k] = Warp!NoTask
  BY <1>1, NoTaskFields DEF Tasks
<1>6. /\ Warp!OneAtWork' /\ Warp!HangUpFits' /\ v6'["connect"].pc \notin Tests
  <2>1. DOMAIN v7' = {} /\ \A j \in Operations : v6'[j].pc = "none"
    BY <1>1, <1>5, NoTaskFields DEF Operations
  <2> QED
    BY <1>4, <1>5, <2>1, RestFits
<1>7. v8' = {} => Sound(v1', v2', Due(v7', v3'))
  <2> SUFFICES ASSUME v8' = {} PROVE Sound(v1, v2, Warp!NoSession)
    BY <1>1 DEF Due
  <2>1. v6["connect"].pc = "none"
    BY <1>3 DEF Warp!Changing, Warp!AtWork, Warp!Kinds
  <2>2. Sound(v1, v2, v3)
    BY <1>3, <2>1, Now DEF Tests, Due
  <2> QED
    BY <2>2, NoWarpSession DEF Sound
<1>8. WarpKnown'
  BY <1>6 DEF WarpKnown
<1> QED
  BY <1>1, <1>3, <1>4, <1>5, <1>6, <1>7, <1>8, WarpInvTyped, NoWarpSession, WarpCloses
     DEF Spared

-------------------------------------------------------------------------------
(***************************************************************************)
(* The invariant, and what it says                                         *)
(***************************************************************************)
LEMMA WarpInitInv == Warp!WarpInit => Warp!WarpInv
<1> SUFFICES ASSUME Warp!WarpInit PROVE Warp!WarpInv
  OBVIOUS
<1>1. /\ v2 = None /\ v3 = Warp!NoSession /\ v4 = "idle" /\ v7 = <<>> /\ v8 = {}
      /\ v1 \in Client /\ v1.prefs = Own /\ v1.by # "app" /\ (v1.up <=> v1.by = "user")
      /\ v5 \in Window
  <2>1. /\ v2 = None /\ v3 = Warp!NoSession /\ v4 = "idle" /\ v7 = <<>> /\ v8 = {}
        /\ v5 = [busy |-> FALSE, active |-> FALSE, owned |-> FALSE]
        /\ \/ v1 = [up |-> FALSE, prefs |-> Own, by |-> "none"]
           \/ v1 = [up |-> TRUE, prefs |-> Own, by |-> "user"]
    BY DEF Warp!WarpInit
  <2>2. v1 \in Client /\ v1.prefs = Own /\ v1.by # "app" /\ (v1.up <=> v1.by = "user")
    <3>1. CASE v1 = [up |-> FALSE, prefs |-> Own, by |-> "none"]
      BY <3>1 DEF Client, Prefs
    <3>2. CASE v1 = [up |-> TRUE, prefs |-> Own, by |-> "user"]
      BY <3>2 DEF Client, Prefs
    <3> QED
      BY <2>1, <3>1, <3>2
  <2> QED
    BY <2>1, <2>2 DEF Window
<1>2. v6 \in Tasks /\ \A k \in Warp!Kinds : v6[k] = Warp!NoTask
  BY NoTaskFields DEF Warp!WarpInit, Tasks
<1>3. Warp!TypeOK
  BY <1>1, <1>2, NoWarpSession, WarpTyped
<1>4. \A k \in Warp!Kinds : v6[k].pc = "none"
  BY <1>2, NoTaskFields
<1>5. Warp!OneAtWork /\ Warp!HangUpFits /\ ~Warp!Testing
  <2>1. DOMAIN v7 = {} /\ v6["connect"].pc = "none"
    BY <1>1, <1>4 DEF Warp!Kinds
  <2> QED
    BY <1>1, <1>4, <2>1 DEF Warp!OneAtWork, Warp!HangUpFits, Warp!Testing,
       Warp!Changing, Warp!AtWork, Warp!At, Warp!Kinds
<1>6. Warp!Accounted(Warp!SessionDue)
  BY <1>1, NoWarpSession DEF Warp!Accounted, Warp!SessionDue
<1> QED
  BY <1>3, <1>5, <1>6 DEF Warp!WarpInv

LEMMA WarpStutterInv ==
  ASSUME Warp!WarpInv, UNCHANGED Warp!warpVars PROVE Warp!WarpInv' /\ Spared
<1>1. UNCHANGED <<v1, v2, v3, v4, v5, v6, v7, v8>>
  BY DEF Warp!warpVars
<1> QED
  BY <1>1, WarpInvTyped, ShownInv

LEMMA WarpNextInv ==
  ASSUME Warp!WarpInv, Warp!WarpNext
  PROVE  Warp!WarpInv' /\ (Warp!UserDisconnects \/ Spared)
BY WarpClicks, OnFinishedInv, StatusInv, InspectInv, DialInv, VerifyInv, SetIntentInv,
   UndoInv, ChooseOwnInv, ResetChoosesInv, HangUpInv, UserInv, ProgramEndsInv
   DEF Warp!WarpNext

IWarp == part = "warp" => Warp!WarpInv

LEMMA WarpInvariance == Spec => []IWarp
<1>1. Init => IWarp
  BY WarpInitInv DEF Init, IWarp
<1>2. IWarp /\ [Next]_vars => IWarp'
  <2> SUFFICES ASSUME part = "warp", Warp!WarpInv, [Next]_vars
               PROVE  Warp!WarpInv'
    BY WarpSteps DEF IWarp
  <2> QED
    BY WarpSteps, WarpNextInv, WarpStutterInv
<1> QED
  BY <1>1, <1>2, PTL DEF Spec

(***************************************************************************)
(* Between two operations a WARP connection that the program made is known *)
(* to it, also after a restart, and one that it did not make, or that is   *)
(* gone, leaves neither the persisted intent nor the preferences of a test *)
(* behind (official_warp_service.py:302-352): one operation is at work at  *)
(* a time, and what it has begun is undone or accounted for by its report. *)
(***************************************************************************)
THEOREM Accounts == Spec => []WarpIsAccounted
<1>1. ASSUME Warp!WarpInv PROVE Warp!WarpIsAccounted
  <2> SUFFICES ASSUME Warp!AtRest, v8 = {}
               PROVE  IF v1.by = "app" THEN v2 # None /\ v2.expected = v1.prefs
                      ELSE v2 = None /\ v1.prefs = Own
    BY DEF Warp!WarpIsAccounted
  <2>1. Sound(v1, v2, v3)
    BY <1>1, AtRestNow
  <2> QED
    BY <2>1 DEF Sound
<1>2. IWarp => WarpIsAccounted
  BY <1>1 DEF IWarp, WarpIsAccounted
<1> QED
  BY <1>2, WarpInvariance, PTL

(***************************************************************************)
(* No operation on WARP ends a connection of the user's                    *)
(* (official_warp_service.py:219-228, 355-377), nor does the end of a game *)
(* (main_viewmodel.py:1867-1874), which may not be connected anew while it *)
(* is locked (main_viewmodel.py:1469, 1522, 1916).                         *)
(***************************************************************************)
THEOREM UsersAreSpared == Spec => UserSpared
<1> DEFINE Step == /\ part = "game" => Game!SparesUser /\ Game!KeepsLock
                   /\ part = "warp" => Warp!SparesUser
<1>1. IWarp /\ [Next]_vars => (part = "warp" => Warp!SparesUser)
  <2> SUFFICES ASSUME part = "warp", Warp!WarpInv, [Next]_vars
               PROVE  Warp!SparesUser
    BY DEF IWarp
  <2>1. Warp!UserDisconnects \/ Spared
    BY WarpSteps, WarpNextInv, WarpStutterInv
  <2> QED
    BY <2>1 DEF Warp!SparesUser, Spared
<1>2. Spec => [][part = "warp" => Warp!SparesUser]_vars
  BY <1>1, WarpInvariance, PTL DEF Spec
<1>3. Spec => [][part = "game" => Game!SparesUser /\ Game!KeepsLock]_vars
  BY SessionSpares
<1> QED
  BY <1>2, <1>3, PTL DEF UserSpared
===============================================================================
