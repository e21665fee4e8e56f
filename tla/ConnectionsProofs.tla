------------------------- MODULE ConnectionsProofs --------------------------
(***************************************************************************)
(* Proofs about Connections, for any set of peers, any number of tasks and *)
(* any positive bounds on attempts and backoff.                            *)
(***************************************************************************)
EXTENDS Connections, TLAPS

(* The initial state satisfies the invariant.                                *)
LEMMA InitHolds == Init => IndInv
<1> SUFFICES ASSUME Init PROVE IndInv
  OBVIOUS
<1>1. TypeOK
  BY BoundsPositive DEF Init, TypeOK, Idling, Started
<1>2. ReservationExclusive /\ EntriesHaveEventTask
  BY DEF Init, ReservationExclusive, EntriesHaveEventTask, InFlight, LiveSession
<1>3. TasksHavePeer /\ ReadyIsStarted /\ TickRests /\ AttemptsCounted
  BY DEF Init, TasksHavePeer, ReadyIsStarted, TickRests, AttemptsCounted
<1> QED  BY <1>1, <1>2, <1>3 DEF IndInv

(* A new intent is well-formed, and so is one re-armed or backed off.        *)
LEMMA IntentType ==
    /\ \A o \in BOOLEAN : Armed(o) \in Intent
    /\ \A i \in Intent : rearm(i) \in Intent /\ BackOff(i) \in Intent
<1>1. \A b \in 1..BackoffCap : bump_backoff(b) \in 1..BackoffCap
  BY BoundsPositive DEF bump_backoff
<1>2. \A o \in BOOLEAN : Armed(o) \in Intent
  BY BoundsPositive DEF Armed, Intent
<1>3. \A i \in Intent : rearm(i) \in Intent
  <2> SUFFICES ASSUME NEW i \in Intent PROVE rearm(i) \in Intent
    OBVIOUS
  <2>1. 0 \in 0..(MaxAttempts + 1) /\ 1 \in 1..BackoffCap
    BY BoundsPositive
  <2>2. PICK j \in Intent : j = [i EXCEPT !.attempts = 0, !.backoff = 1]
    BY <2>1 DEF Intent
  <2>3. [j EXCEPT !.due = TRUE] \in Intent
    BY DEF Intent
  <2>4. rearm(i) = [j EXCEPT !.due = TRUE]
    BY <2>2 DEF rearm
  <2> QED  BY <2>3, <2>4
<1>4. \A i \in Intent : BackOff(i) \in Intent
  BY <1>1 DEF BackOff, Intent
<1> QED  BY <1>2, <1>3, <1>4

(* What the loop does with the session map is to drop entries: the tasks     *)
(* keep their reservations, and the entries left their event tasks.          *)
LEMMA TasksKept ==
    ASSUME IndInv, UNCHANGED <<taskVars, connecting>>,
           \A p \in Peer : sessions'[p] \in {sessions[p], None}
    PROVE  (ReservationExclusive /\ EntriesHaveEventTask /\ TasksHavePeer /\ ReadyIsStarted)'
<1>1. ReservationExclusive'
  BY DEF IndInv, taskVars, ReservationExclusive, InFlight
<1>2. EntriesHaveEventTask'
  BY DEF IndInv, taskVars, EntriesHaveEventTask, LiveSession
<1>3. TasksHavePeer' /\ ReadyIsStarted'
  BY DEF IndInv, taskVars, TasksHavePeer, ReadyIsStarted
<1> QED  BY <1>1, <1>2, <1>3

(* What the tasks do leaves the intents and the tick alone.                  *)
LEMMA LoopKept ==
    ASSUME IndInv, UNCHANGED <<intents, asked, tick>>
    PROVE  TickRests' /\ AttemptsCounted'
BY DEF IndInv, TickRests, AttemptsCounted

(* The commands keep the invariant.                                          *)
LEMMA CommandStep ==
    ASSUME IndInv, NEW p \in Peer, AddPeer(p) \/ Command(p)
    PROVE  IndInv'
<1> USE DEF IndInv
<1>1. CASE AddPeer(p)
  <2>1. TypeOK'
    BY <1>1 DEF AddPeer, TypeOK, taskVars
  <2> QED  BY <1>1, <2>1, TasksKept, LoopKept DEF AddPeer
<1>2. CASE Connect(p)
  <2>1. Armed(p \in cache) \in Intent
    <3>1. (p \in cache) \in BOOLEAN
      OBVIOUS
    <3> QED  BY <3>1, IntentType, Zenon
  <2>2. DOMAIN intents' = DOMAIN intents \cup {p}
    BY <1>2 DEF Connect, With
  <2>3. \A q \in DOMAIN intents' : intents'[q] = IF q = p THEN Armed(p \in cache) ELSE intents[q]
    BY <1>2 DEF Connect, With
  <2>4. tick' = tick /\ asked' = [asked EXCEPT ![p] = 0]
    BY <1>2 DEF Connect
  <2>5. tick' \in [pc : {"idle", "live", "drive"}, live : SUBSET Peer,
                   in_flight : SUBSET Peer, todo : SUBSET DOMAIN intents']
    BY <2>2, <2>4 DEF TypeOK
  <2>6. asked' \in [Peer -> 0..(MaxAttempts + 1)]
    BY <2>4, BoundsPositive DEF TypeOK
  <2>7. DOMAIN intents' \subseteq Peer /\ \A q \in DOMAIN intents' : intents'[q] \in Intent
    BY <2>1, <2>2, <2>3 DEF TypeOK
  <2>8. TypeOK'
    BY <1>2, <2>5, <2>6, <2>7 DEF Connect, TypeOK, taskVars
  <2>9. AttemptsCounted'
    <3> SUFFICES ASSUME NEW q \in DOMAIN intents'
                 PROVE  \/ intents'[q].attempts <= asked'[q]
                        \/ intents'[q].attempts = MaxAttempts + 1 /\ asked'[q] >= MaxAttempts
      BY DEF AttemptsCounted
    <3>1. CASE q = p
      BY <3>1, <2>3, <2>4 DEF Armed, TypeOK
    <3>2. CASE q # p
      BY <3>2, <2>2, <2>3, <2>4 DEF AttemptsCounted, TypeOK
    <3> QED  BY <3>1, <3>2
  <2>10. TickRests'
    BY <2>4 DEF TickRests
  <2> QED  BY <1>2, <2>8, <2>9, <2>10, TasksKept DEF Connect
<1>3. CASE RemovePeer(p) \/ Purge(p)
  <2>1. tick = Idling /\ tick' = tick
    BY <1>3 DEF RemovePeer, Purge, Selecting, TickRests
  <2>2. /\ DOMAIN intents' = DOMAIN intents \ {p}
        /\ \A q \in DOMAIN intents' : intents'[q] = intents[q]
        /\ asked' = [asked EXCEPT ![p] = 0]
        /\ sessions' = [sessions EXCEPT ![p] = None]
        /\ back' = back \ {p} /\ unsent' = unsent \ {p}
    BY <1>3 DEF RemovePeer, Purge, Forget, Without
  <2>3. tick' \in [pc : {"idle", "live", "drive"}, live : SUBSET Peer,
                   in_flight : SUBSET Peer, todo : SUBSET DOMAIN intents']
    BY <2>1 DEF Idling
  <2>4. asked' \in [Peer -> 0..(MaxAttempts + 1)]
    BY <2>2, BoundsPositive DEF TypeOK
  <2>5. disk' \in [Peer -> {"absent", "full", "orphan"}]
    BY <1>3 DEF RemovePeer, Purge, TypeOK
  <2>6. UNCHANGED <<cache, link, taskVars, connecting>>
    BY <1>3 DEF RemovePeer, Purge
  <2>7. TypeOK'
    BY <2>2, <2>3, <2>4, <2>5, <2>6 DEF TypeOK, taskVars
  <2>8. AttemptsCounted'
    BY <2>2 DEF AttemptsCounted, TypeOK
  <2>9. TickRests'
    BY <2>1 DEF TickRests
  <2>10. \A q \in Peer : sessions'[q] \in {sessions[q], None}
    BY <2>2 DEF TypeOK
  <2> QED  BY <2>6, <2>7, <2>8, <2>9, <2>10, TasksKept
<1>4. CASE SendToDeadWriter(p)
  <2>1. TypeOK'
    BY <1>4 DEF SendToDeadWriter, TypeOK, taskVars
  <2>2. \A q \in Peer : sessions'[q] \in {sessions[q], None}
    BY <1>4 DEF SendToDeadWriter, TypeOK
  <2> QED  BY <1>4, <2>1, <2>2, TasksKept, LoopKept DEF SendToDeadWriter
<1> QED  BY <1>1, <1>2, <1>3, <1>4 DEF Command

(* The server connection, its notices and the end of the loop.               *)
LEMMA ServerStep ==
    ASSUME IndInv,
           \/ SetServer \/ Shutdown \/ CommandsClosed \/ Reconnect \/ LinkBreaks
           \/ Disconnected \/ \E p \in Peer : PeerOnline(p) \/ PeerOffline(p)
    PROVE  IndInv'
<1> USE DEF IndInv
<1>1. UNCHANGED <<taskVars, connecting>> /\ UNCHANGED <<disk, intents, asked, tick, unsent>>
  BY DEF SetServer, Shutdown, CommandsClosed, Reconnect, LinkBreaks, Disconnected,
         PeerOnline, PeerOffline
<1>2. sessions' = sessions \/ sessions' = [p \in Peer |-> None]
  BY DEF SetServer, Shutdown, CommandsClosed, Reconnect, LinkBreaks, Disconnected,
         PeerOnline, PeerOffline
<1>3. link' \in {"up", "broken", "down", "off"} /\ cache' \subseteq Peer /\ back' \subseteq Peer
  BY DEF TypeOK, SetServer, Shutdown, CommandsClosed, Reconnect, LinkBreaks, Disconnected,
         PeerOnline, PeerOffline
<1>4. sessions' \in [Peer -> Task \cup {None}]
  BY <1>2 DEF TypeOK
<1>5. TypeOK'
  BY <1>1, <1>3, <1>4 DEF TypeOK, taskVars
<1>6. \A p \in Peer : sessions'[p] \in {sessions[p], None}
  BY <1>2
<1> QED  BY <1>1, <1>5, <1>6, TasksKept, LoopKept

(* A step that replaces the intent of one peer, counting its requests.       *)
LEMMA IntentStep ==
    ASSUME IndInv, NEW p \in DOMAIN intents, NEW i \in Intent,
           DOMAIN intents' = DOMAIN intents,
           \A q \in DOMAIN intents : intents'[q] = IF q = p THEN i ELSE intents[q],
           NEW n \in 0..(MaxAttempts + 1), asked' = [asked EXCEPT ![p] = n],
           i.attempts <= n \/ (i.attempts = MaxAttempts + 1 /\ n >= MaxAttempts),
           tick' = tick \/ tick' = Idling \/ tick' = [tick EXCEPT !.todo = @ \ {p}],
           tick.pc # "idle" \/ tick' = tick,
           back' \subseteq back,
           UNCHANGED <<disk, cache, link, unsent, taskVars, connecting, sessions>>
    PROVE  IndInv'
<1> USE DEF IndInv
<1>1. DOMAIN intents' = DOMAIN intents
  OBVIOUS
<1>2. \A q \in DOMAIN intents' : intents'[q] = IF q = p THEN i ELSE intents[q]
  OBVIOUS
<1>3. tick' \in [pc : {"idle", "live", "drive"}, live : SUBSET Peer,
                 in_flight : SUBSET Peer, todo : SUBSET DOMAIN intents']
  BY <1>1 DEF TypeOK, Idling
<1>4. p \in Peer /\ asked' \in [Peer -> 0..(MaxAttempts + 1)]
  BY DEF TypeOK
<1>5. DOMAIN intents' \subseteq Peer /\ \A q \in DOMAIN intents' : intents'[q] \in Intent
  BY <1>1, <1>2 DEF TypeOK
<1>6. TypeOK'
  BY <1>3, <1>4, <1>5 DEF TypeOK, taskVars
<1>7. AttemptsCounted'
  <2> SUFFICES ASSUME NEW q \in DOMAIN intents'
               PROVE  \/ intents'[q].attempts <= asked'[q]
                      \/ intents'[q].attempts = MaxAttempts + 1 /\ asked'[q] >= MaxAttempts
    BY DEF AttemptsCounted
  <2>1. CASE q = p
    BY <2>1, <1>2, <1>4 DEF TypeOK
  <2>2. CASE q # p
    BY <2>2, <1>1, <1>2, <1>4 DEF AttemptsCounted, TypeOK
  <2> QED  BY <2>1, <2>2
<1>8. TickRests'
  <2>1. CASE tick' = tick
    BY <2>1 DEF TickRests
  <2>2. CASE tick' = Idling
    BY <2>2 DEF TickRests, Idling
  <2>3. CASE tick.pc # "idle" /\ tick' = [tick EXCEPT !.todo = @ \ {p}]
    BY <2>3 DEF TickRests, TypeOK
  <2> QED  BY <2>1, <2>2, <2>3
<1> QED  BY <1>6, <1>7, <1>8, TasksKept

(* The retry tick.                                                           *)
LEMMA TickStep ==
    ASSUME IndInv, TickStart \/ TickInFlight
    PROVE  IndInv'
<1> USE DEF IndInv
<1>1. UNCHANGED <<disk, cache, link, intents, asked, back, unsent, taskVars,
                  connecting, sessions>>
  BY DEF TickStart, TickInFlight
<1>2. /\ tick' \in [pc : {"idle", "live", "drive"}, live : SUBSET Peer,
                    in_flight : SUBSET Peer, todo : SUBSET DOMAIN intents]
      /\ tick'.pc # "idle"
  <2>1. CASE TickStart
    <3>1. {p \in Peer : LiveSession(p)} \in SUBSET Peer
      OBVIOUS
    <3>2. tick' = [pc |-> "live", live |-> {p \in Peer : LiveSession(p)},
                   in_flight |-> {}, todo |-> DOMAIN intents]
      BY <2>1 DEF TickStart
    <3> QED  BY <3>1, <3>2
  <2>2. CASE TickInFlight
    BY <2>2 DEF TickInFlight, TypeOK
  <2> QED  BY <2>1, <2>2
<1>3. TypeOK'
  BY <1>1, <1>2 DEF TypeOK, taskVars
<1>4. TickRests' /\ AttemptsCounted'
  BY <1>1, <1>2 DEF TickRests, AttemptsCounted
<1> QED  BY <1>1, <1>3, <1>4, TasksKept

(* The treatment of one intent, and the coming of its due time.              *)
LEMMA DriveStep ==
    ASSUME IndInv, NEW p \in Peer, Drive(p) \/ Due(p)
    PROVE  IndInv'
<1> USE DEF IndInv
<1>1. p \in DOMAIN intents
  BY DEF Drive, Satisfied, PunchSent, PunchNotSent, GiveUp, Wait, Driving, Due, TypeOK
<1>2. /\ intents[p] \in Intent
      /\ asked[p] \in 0..(MaxAttempts + 1)
      /\ intents[p].attempts \in 0..(MaxAttempts + 1)
      /\ \/ intents[p].attempts <= asked[p]
         \/ intents[p].attempts = MaxAttempts + 1 /\ asked[p] >= MaxAttempts
  BY <1>1 DEF TypeOK, AttemptsCounted, Intent
<1>3. ASSUME NEW a, Driving(p, a)
      PROVE  /\ tick' = Idling \/ tick' = [tick EXCEPT !.todo = @ \ {p}]
             /\ tick.pc # "idle"
             /\ UNCHANGED <<disk, cache, link, unsent, taskVars, connecting, sessions>>
  BY <1>3 DEF Driving
<1>4. asked = [asked EXCEPT ![p] = asked[p]]
  BY DEF TypeOK
<1>5. CASE Satisfied(p)
  <2>1. PICK i : i = IF intents[p].attempts # 0 \/ intents[p].backoff # 1
                     THEN rearm(intents[p]) ELSE intents[p]
    OBVIOUS
  <2>2. i \in Intent /\ i.attempts = 0
    <3>1. CASE intents[p].attempts # 0 \/ intents[p].backoff # 1
      BY <3>1, <2>1, <1>2, IntentType DEF rearm, Intent
    <3>2. CASE ~(intents[p].attempts # 0 \/ intents[p].backoff # 1)
      BY <3>2, <2>1, <1>2
    <3> QED  BY <3>1, <3>2
  <2>3. PICK n : n = IF p \in tick.live THEN 0 ELSE asked[p]
    OBVIOUS
  <2>4. n \in 0..(MaxAttempts + 1) /\ i.attempts <= n
    BY <2>2, <2>3, <1>2, BoundsPositive
  <2>5. intents' = [intents EXCEPT ![p] = i] /\ asked' = [asked EXCEPT ![p] = n]
    BY <1>5, <2>1, <2>3 DEF Satisfied
  <2>6. Driving(p, "Done") /\ back' \subseteq back
    BY <1>5 DEF Satisfied
  <2> QED  BY <1>1, <1>3, <2>2, <2>4, <2>5, <2>6, IntentStep
<1>6. CASE PunchSent(p)
  <2>1. Driving(p, "Punch") /\ back' = back
    BY <1>6 DEF PunchSent
  <2>2. intents[p].attempts < MaxAttempts
    BY <2>1, <1>2, BoundsPositive DEF Driving, next_retry_action
  <2>3. PICK j : j = [intents[p] EXCEPT !.attempts = @ + 1]
    OBVIOUS
  <2>4. j \in Intent /\ j.attempts = intents[p].attempts + 1
    BY <2>2, <2>3, <1>2, BoundsPositive DEF Intent
  <2>5. BackOff(j) \in Intent /\ BackOff(j).attempts = intents[p].attempts + 1
    BY <2>4, IntentType DEF BackOff, Intent
  <2>6. PICK n : n = IF asked[p] > MaxAttempts THEN asked[p] ELSE asked[p] + 1
    OBVIOUS
  <2>7. n \in 0..(MaxAttempts + 1) /\ intents[p].attempts + 1 <= n
    BY <2>2, <2>6, <1>2, BoundsPositive
  <2>8. intents' = [intents EXCEPT ![p] = BackOff(j)]
    BY <1>6, <2>3 DEF PunchSent
  <2>9. asked' = [asked EXCEPT ![p] = n]
    BY <1>6, <2>6 DEF PunchSent
  <2> QED  BY <1>1, <1>3, <2>1, <2>5, <2>7, <2>8, <2>9, IntentStep
<1>7. CASE PunchNotSent(p)
  <2>1. Driving(p, "Punch") /\ back' = back /\ asked' = asked
    BY <1>7 DEF PunchNotSent
  <2>2. BackOff(intents[p]) \in Intent /\ BackOff(intents[p]).attempts = intents[p].attempts
    BY <1>2, IntentType DEF BackOff, Intent
  <2>3. intents' = [intents EXCEPT ![p] = BackOff(intents[p])]
    BY <1>7 DEF PunchNotSent
  <2> QED  BY <1>1, <1>2, <1>3, <1>4, <2>1, <2>2, <2>3, IntentStep
<1>8. CASE GiveUp(p)
  <2>1. Driving(p, "GiveUp") /\ back' = back /\ asked' = asked
    BY <1>8 DEF GiveUp
  <2>2. intents[p].attempts = MaxAttempts
    BY <2>1 DEF Driving, next_retry_action
  <2>3. asked[p] >= MaxAttempts
    BY <2>2, <1>2, BoundsPositive
  <2>4. PICK i : i = [intents[p] EXCEPT !.attempts = MaxAttempts + 1]
    OBVIOUS
  <2>5. i \in Intent /\ i.attempts = MaxAttempts + 1
    BY <2>4, <1>2, BoundsPositive DEF Intent
  <2>6. intents' = [intents EXCEPT ![p] = i]
    BY <1>8, <2>4 DEF GiveUp
  <2> QED  BY <1>1, <1>2, <1>3, <1>4, <2>1, <2>3, <2>5, <2>6, IntentStep
<1>9. CASE Wait(p)
  <2>1. Driving(p, "Wait") /\ UNCHANGED <<intents, asked, back>>
    BY <1>9 DEF Wait
  <2> QED  BY <1>1, <1>2, <1>3, <1>4, <2>1, IntentStep
<1>10. CASE Due(p)
  <2>1. PICK i : i = [intents[p] EXCEPT !.due = TRUE]
    OBVIOUS
  <2>2. i \in Intent /\ i.attempts = intents[p].attempts
    BY <2>1, <1>2 DEF Intent
  <2>3. intents' = [intents EXCEPT ![p] = i] /\ asked' = asked /\ tick' = tick /\ back' = back
    BY <1>10, <2>1 DEF Due
  <2>4. UNCHANGED <<disk, cache, link, unsent, taskVars, connecting, sessions>>
    BY <1>10 DEF Due
  <2> QED  BY <1>1, <1>2, <1>4, <2>2, <2>3, <2>4, IntentStep
<1> QED  BY <1>5, <1>6, <1>7, <1>8, <1>9, <1>10 DEF Drive

(* A step of the tasks in which one task moves on with its peer and its      *)
(* reservation, and the map keeps its entries.                               *)
LEMMA MoveStep ==
    ASSUME IndInv, TypeOK', NEW c \in Task, UNCHANGED <<loopVars, connecting, sessions>>,
           \A d \in Task \ {c} : pc'[d] = pc[d] /\ target'[d] = target[d]
                                 /\ session'[d] = session[d],
           target'[c] \in Peer \/ pc'[c] = "free",
           InFlight(c)' <=> InFlight(c),
           InFlight(c) => target'[c] = target[c],
           pc[c] \notin {"inserted", "up"} \/ session[c] = "done",
           pc'[c] = "ready" => session'[c] \in {"direct", "relay", "closed"}
    PROVE  IndInv'
<1> USE DEF IndInv
<1>1. \A d \in Task : InFlight(d)' <=> InFlight(d)
  BY DEF InFlight
<1>2. \A d \in Task : InFlight(d) => target'[d] = target[d]
  OBVIOUS
<1>3. ReservationExclusive'
  BY <1>1, <1>2 DEF ReservationExclusive
<1>4. \A p \in Peer : sessions[p] # c
  BY NoneIsNew DEF EntriesHaveEventTask, LiveSession, TypeOK
<1>5. EntriesHaveEventTask'
  BY <1>4 DEF EntriesHaveEventTask, LiveSession, TypeOK
<1>6. TasksHavePeer' /\ ReadyIsStarted'
  BY DEF TasksHavePeer, ReadyIsStarted
<1>7. TickRests' /\ AttemptsCounted'
  BY LoopKept DEF loopVars
<1> QED  BY <1>3, <1>5, <1>6, <1>7

(* A PunchHole event spawns a task; up to the reservation it holds nothing.  *)
LEMMA SpawnStep ==
    ASSUME IndInv, NEW c \in Task,
           (\E p \in Peer : PunchHole(p, c)) \/ ReadLive(c) \/ Skip(c)
    PROVE  IndInv'
<1> USE DEF IndInv
<1>1. CASE \E p \in Peer : PunchHole(p, c)
  <2>1. PICK p \in Peer : PunchHole(p, c)
    BY <1>1
  <2>2. TypeOK'
    BY <2>1 DEF TypeOK, PunchHole, loopVars
  <2>3. \A d \in Task \ {c} : pc'[d] = pc[d] /\ target'[d] = target[d]
                                /\ session'[d] = session[d]
    BY <2>1 DEF TypeOK, PunchHole
  <2>4. pc[c] = "free" /\ pc'[c] = "spawned" /\ target'[c] = p
    BY <2>1 DEF TypeOK, PunchHole
  <2>5. ~InFlight(c) /\ ~InFlight(c)'
    BY <2>4 DEF InFlight
  <2>6. UNCHANGED <<loopVars, connecting, sessions>>
    BY <2>1 DEF PunchHole
  <2> QED  BY <2>2, <2>3, <2>4, <2>5, <2>6, MoveStep
<1>2. CASE ReadLive(c)
  <2>1. LiveSession(target[c]) \in BOOLEAN
    BY DEF LiveSession
  <2>2. TypeOK'
    BY <1>2, <2>1 DEF TypeOK, ReadLive, Goto, loopVars
  <2>3. \A d \in Task \ {c} : pc'[d] = pc[d] /\ target'[d] = target[d]
                                /\ session'[d] = session[d]
    BY <1>2 DEF TypeOK, ReadLive, Goto
  <2>4. pc[c] = "spawned" /\ pc'[c] = "checked" /\ target' = target /\ target[c] \in Peer
    BY <1>2 DEF TypeOK, ReadLive, Goto, TasksHavePeer
  <2>5. ~InFlight(c) /\ ~InFlight(c)'
    BY <2>4 DEF InFlight
  <2>6. UNCHANGED <<loopVars, connecting, sessions>>
    BY <1>2 DEF ReadLive
  <2> QED  BY <2>2, <2>3, <2>4, <2>5, <2>6, MoveStep
<1>3. CASE Skip(c)
  <2>1. TypeOK'
    BY <1>3 DEF TypeOK, Skip, Free, Goto, loopVars
  <2>2. \A d \in Task \ {c} : pc'[d] = pc[d] /\ target'[d] = target[d]
                                /\ session'[d] = session[d]
    BY <1>3 DEF TypeOK, Skip, Free, Goto
  <2>3. pc[c] = "checked" /\ pc'[c] = "free"
    BY <1>3 DEF TypeOK, Skip, Free, Goto
  <2>4. ~InFlight(c) /\ ~InFlight(c)'
    BY <2>3 DEF InFlight
  <2>5. UNCHANGED <<loopVars, connecting, sessions>>
    BY <1>3 DEF Skip
  <2> QED  BY <2>1, <2>2, <2>3, <2>4, <2>5, MoveStep
<1> QED  BY <1>1, <1>2, <1>3

(* The punch and the handshakes, up to the session they start.               *)
LEMMA HandshakeStep ==
    ASSUME IndInv, NEW c \in Task,
           Punched(c) \/ FallBack(c) \/ HandshakeOk(c) \/ (RelayEnds(c) /\ c \in inbox)
    PROVE  IndInv'
<1> USE DEF IndInv
<1>1. CASE Punched(c) \/ FallBack(c)
  <2>1. TypeOK'
    BY <1>1 DEF TypeOK, Punched, FallBack, Goto, loopVars
  <2>2. \A d \in Task \ {c} : pc'[d] = pc[d] /\ target'[d] = target[d]
                                /\ session'[d] = session[d]
    BY <1>1 DEF TypeOK, Punched, FallBack, Goto
  <2>3. /\ pc[c] \in {"punch", "handshake"} /\ pc'[c] \in {"handshake", "relay"}
        /\ target' = target /\ target[c] \in Peer
    BY <1>1 DEF TypeOK, Punched, FallBack, Goto, TasksHavePeer
  <2>4. InFlight(c) /\ InFlight(c)'
    BY <2>3 DEF InFlight
  <2>5. UNCHANGED <<loopVars, connecting, sessions>>
    BY <1>1 DEF Punched, FallBack
  <2> QED  BY <2>1, <2>2, <2>3, <2>4, <2>5, MoveStep
<1>2. CASE HandshakeOk(c) \/ (RelayEnds(c) /\ c \in inbox)
  <2>1. PICK tr \in {"direct", "relay"} : Start(c, tr) /\ pc[c] \in {"handshake", "relay"}
    BY <1>2 DEF HandshakeOk, RelayEnds
  <2>2. TypeOK'
    BY <2>1 DEF TypeOK, Start, Goto, loopVars, Started
  <2>3. \A d \in Task \ {c} : pc'[d] = pc[d] /\ target'[d] = target[d]
                                /\ session'[d] = session[d]
    BY <2>1 DEF TypeOK, Start, Goto
  <2>4. /\ pc[c] \in {"handshake", "relay"} /\ pc'[c] = "ready" /\ session'[c] = tr
        /\ target' = target /\ target[c] \in Peer
    BY <2>1 DEF TypeOK, Start, Goto, TasksHavePeer
  <2>5. InFlight(c) /\ InFlight(c)'
    BY <2>4 DEF InFlight
  <2>6. UNCHANGED <<loopVars, connecting, sessions>>
    BY <2>1 DEF Start
  <2> QED  BY <2>2, <2>3, <2>4, <2>5, <2>6, MoveStep
<1> QED  BY <1>1, <1>2

(* Reserve takes the reservation of a peer nobody works for.                 *)
LEMMA ReserveStep ==
    ASSUME IndInv, NEW c \in Task, Reserve(c)
    PROVE  IndInv'
<1> USE DEF IndInv
<1>1. /\ pc[c] = "checked" /\ target[c] \in Peer /\ target[c] \notin connecting
      /\ pc' = [pc EXCEPT ![c] = "punch"] /\ connecting' = connecting \cup {target[c]}
      /\ UNCHANGED <<loopVars, target, sawLive, session, writer, inbox, heard, sessions>>
  BY DEF Reserve, Goto, TasksHavePeer
<1>2. TypeOK'
  BY <1>1 DEF TypeOK, loopVars
<1>3. \A d \in Task : InFlight(d)' <=> InFlight(d) \/ d = c
  BY <1>1 DEF InFlight, TypeOK
<1>4. \A d \in Task : InFlight(d) => target[d] \in connecting
  BY DEF ReservationExclusive
<1>5. connecting' = {target'[d] : d \in {e \in Task : InFlight(e)'}}
  BY <1>1, <1>3 DEF ReservationExclusive
<1>6. ReservationExclusive'
  BY <1>1, <1>3, <1>4, <1>5 DEF ReservationExclusive
<1>7. EntriesHaveEventTask'
  BY <1>1, NoneIsNew DEF EntriesHaveEventTask, LiveSession, TypeOK
<1>8. TasksHavePeer' /\ ReadyIsStarted'
  BY <1>1 DEF TasksHavePeer, ReadyIsStarted, TypeOK
<1>9. TickRests' /\ AttemptsCounted'
  BY <1>1, LoopKept DEF loopVars
<1> QED  BY <1>2, <1>6, <1>7, <1>8, <1>9

(* A task that drops its guard is the only one that held the reservation.    *)
LEMMA GuardDropped ==
    ASSUME IndInv, NEW c \in Task, InFlight(c), DropGuard(c), ~InFlight(c)',
           \A d \in Task \ {c} : (InFlight(d)' <=> InFlight(d)) /\ target'[d] = target[d]
    PROVE  ReservationExclusive'
<1> USE DEF IndInv
<1>1. connecting' = connecting \ {target[c]}
  BY DEF DropGuard
<1>2. \A d \in Task : InFlight(d) /\ target[d] = target[c] => d = c
  BY DEF ReservationExclusive
<1>3. connecting' = {target'[d] : d \in {e \in Task : InFlight(e)'}}
  BY <1>1, <1>2 DEF ReservationExclusive
<1> QED  BY <1>3 DEF ReservationExclusive

(* The two ways out of connect_session that hold a reservation.              *)
LEMMA ReturnStep ==
    ASSUME IndInv, NEW c \in Task, Return(c) \/ (RelayEnds(c) /\ c \notin inbox)
    PROVE  IndInv'
<1> USE DEF IndInv
<1>1. /\ pc[c] \in {"inserted", "relay"} /\ DropGuard(c)
      /\ \/ Free(c) /\ (pc[c] = "relay" \/ session[c] = "done")
         \/ /\ pc[c] = "inserted" /\ pc' = [pc EXCEPT ![c] = "up"]
            /\ UNCHANGED <<target, sawLive, session, writer, inbox, heard>>
      /\ UNCHANGED <<loopVars, sessions>>
  BY DEF Return, RelayEnds, Goto
<1>2. TypeOK'
  BY <1>1 DEF TypeOK, loopVars, Free, Goto, DropGuard, Started
<1>3. \A d \in Task \ {c} : pc'[d] = pc[d] /\ target'[d] = target[d] /\ session'[d] = session[d]
  BY <1>1 DEF TypeOK, Free, Goto
<1>4. pc'[c] = "free" \/ (pc'[c] = "up" /\ target'[c] = target[c] /\ session'[c] = session[c])
  BY <1>1 DEF TypeOK, Free, Goto
<1>5. ReservationExclusive'
  BY <1>1, <1>3, <1>4, GuardDropped DEF InFlight
<1>6. EntriesHaveEventTask'
  BY <1>1, <1>3, NoneIsNew DEF EntriesHaveEventTask, LiveSession, TypeOK
<1>7. TasksHavePeer' /\ ReadyIsStarted'
  BY <1>1, <1>3, <1>4 DEF TasksHavePeer, ReadyIsStarted, TypeOK
<1>8. TickRests' /\ AttemptsCounted'
  BY <1>1, LoopKept DEF loopVars
<1> QED  BY <1>2, <1>5, <1>6, <1>7, <1>8

(* Insert makes an entry for a session whose event task is about to run.     *)
LEMMA InsertStep ==
    ASSUME IndInv, NEW c \in Task, Insert(c)
    PROVE  IndInv'
<1> USE DEF IndInv
<1>1. /\ pc[c] = "ready" /\ target[c] \in Peer /\ session[c] \in {"direct", "relay", "closed"}
      /\ pc' = [pc EXCEPT ![c] = "inserted"]
      /\ sessions' = [sessions EXCEPT ![target[c]] = c]
      /\ UNCHANGED <<loopVars, target, sawLive, session, writer, inbox, heard, connecting>>
  BY DEF Insert, Goto, TasksHavePeer, ReadyIsStarted
<1>2. TypeOK'
  BY <1>1 DEF TypeOK, loopVars, Started
<1>3. \A d \in Task : InFlight(d)' <=> InFlight(d)
  BY <1>1 DEF InFlight, TypeOK
<1>4. ReservationExclusive'
  BY <1>1, <1>3 DEF ReservationExclusive
<1>5. EntriesHaveEventTask'
  BY <1>1, NoneIsNew DEF EntriesHaveEventTask, LiveSession, TypeOK
<1>6. TasksHavePeer' /\ ReadyIsStarted'
  BY <1>1 DEF TasksHavePeer, ReadyIsStarted, TypeOK
<1>7. TickRests' /\ AttemptsCounted'
  BY <1>1, LoopKept DEF loopVars
<1> QED  BY <1>2, <1>4, <1>5, <1>6, <1>7

(* The tasks of a session, up to the moment its reader ends.                 *)
LEMMA SessionStep ==
    ASSUME IndInv,
           \/ \E p \in Peer : RelayData(p)
           \/ \E c \in Task : ReaderStops(c) \/ WriterStops(c) \/ StoreMessage(c)
    PROVE  IndInv'
<1> USE DEF IndInv
<1>1. UNCHANGED <<pc, target, connecting, sessions, intents, asked, tick>>
  BY DEF RelayData, ReaderStops, WriterStops, StoreMessage, loopVars, taskVars
<1>2. session' \in [Task -> {"off", "direct", "relay", "closed", "done"}]
  BY DEF RelayData, ReaderStops, WriterStops, StoreMessage, taskVars, TypeOK
<1>3. TypeOK'
  <2>1. CASE \E p \in Peer : RelayData(p)
    <3>1. inbox' \subseteq Task /\ heard' \subseteq Task
      BY <2>1 DEF TypeOK, RelayData, RelayEntry
    <3>2. UNCHANGED <<loopVars, pc, target, sawLive, session, writer, connecting, sessions>>
      BY <2>1 DEF RelayData
    <3> QED  BY <3>1, <3>2 DEF TypeOK, loopVars
  <2>2. CASE \E c \in Task : ReaderStops(c) \/ WriterStops(c)
    <3>1. writer' \in [Task -> {"off", "open", "closed"}]
      BY <2>2 DEF TypeOK, ReaderStops, WriterStops
    <3>2. UNCHANGED <<loopVars, pc, target, sawLive, inbox, heard, connecting, sessions>>
      BY <2>2 DEF ReaderStops, WriterStops
    <3> QED  BY <1>2, <3>1, <3>2 DEF TypeOK, loopVars
  <2>3. CASE \E c \in Task : StoreMessage(c)
    <3>1. disk' \in [Peer -> {"absent", "full", "orphan"}]
      BY <2>3 DEF TypeOK, StoreMessage
    <3>2. UNCHANGED <<cache, link, intents, tick, asked, back, unsent, taskVars,
                      connecting, sessions>>
      BY <2>3 DEF StoreMessage
    <3> QED  BY <3>1, <3>2 DEF TypeOK, taskVars
  <2> QED  BY <2>1, <2>2, <2>3
<1>4. \A c \in Task : \/ session'[c] = session[c]
                      \/ session'[c] = "closed"
  BY DEF RelayData, ReaderStops, WriterStops, StoreMessage, taskVars, TypeOK
<1>5. ReservationExclusive'
  BY <1>1 DEF ReservationExclusive, InFlight
<1>6. EntriesHaveEventTask'
  <2> SUFFICES ASSUME NEW p \in Peer, sessions[p] # None
               PROVE  /\ pc[sessions[p]] \in {"inserted", "up"}
                      /\ target[sessions[p]] = p
                      /\ session'[sessions[p]] \in {"direct", "relay", "closed"}
    BY <1>1 DEF EntriesHaveEventTask, LiveSession
  <2>1. sessions[p] \in Task
    BY DEF TypeOK
  <2>2. /\ pc[sessions[p]] \in {"inserted", "up"}
        /\ target[sessions[p]] = p
        /\ session[sessions[p]] \in {"direct", "relay", "closed"}
    BY DEF EntriesHaveEventTask, LiveSession
  <2> QED  BY <1>4, <2>1, <2>2
<1>7. TasksHavePeer' /\ ReadyIsStarted'
  BY <1>1, <1>4 DEF TasksHavePeer, ReadyIsStarted
<1>8. TickRests' /\ AttemptsCounted'
  BY <1>1, LoopKept
<1> QED  BY <1>3, <1>5, <1>6, <1>7, <1>8

(* The event task removes the entry of its peer: its own, if that is still   *)
(* there, so no entry is left behind by a task that ends.                    *)
LEMMA CleanupStep ==
    ASSUME IndInv, NEW c \in Task, Cleanup(c)
    PROVE  IndInv'
<1> USE DEF IndInv
<1>1. /\ pc[c] \in {"inserted", "up"} /\ target[c] \in Peer
      /\ sessions' = [sessions EXCEPT ![target[c]] = None]
      /\ \/ pc[c] = "up" /\ Free(c)
         \/ /\ pc[c] = "inserted" /\ session' = [session EXCEPT ![c] = "done"]
            /\ UNCHANGED <<pc, target, sawLive, writer, inbox, heard>>
      /\ UNCHANGED <<loopVars, connecting>>
  BY DEF Cleanup, TasksHavePeer
<1>2. TypeOK'
  BY <1>1 DEF TypeOK, loopVars, Free, Goto
<1>3. \A d \in Task \ {c} : pc'[d] = pc[d] /\ target'[d] = target[d] /\ session'[d] = session[d]
  BY <1>1 DEF TypeOK, Free, Goto
<1>4. \/ pc'[c] = "free" /\ pc[c] = "up"
      \/ pc'[c] = "inserted" /\ pc[c] = "inserted" /\ target'[c] = target[c]
  BY <1>1 DEF TypeOK, Free, Goto
<1>5. \A d \in Task : (InFlight(d)' <=> InFlight(d)) /\ (InFlight(d) => target'[d] = target[d])
  BY <1>3, <1>4 DEF InFlight
<1>6. ReservationExclusive'
  BY <1>1, <1>5 DEF ReservationExclusive
<1>7. \A p \in Peer : sessions'[p] # c /\ sessions'[p] \in {sessions[p], None}
  BY <1>1, NoneIsNew DEF EntriesHaveEventTask, LiveSession, TypeOK
<1>8. EntriesHaveEventTask'
  BY <1>3, <1>7, NoneIsNew DEF EntriesHaveEventTask, LiveSession, TypeOK
<1>9. TasksHavePeer' /\ ReadyIsStarted'
  BY <1>1, <1>3, <1>4 DEF TasksHavePeer, ReadyIsStarted, TypeOK
<1>10. TickRests' /\ AttemptsCounted'
  BY <1>1, LoopKept DEF loopVars
<1> QED  BY <1>2, <1>6, <1>8, <1>9, <1>10

(* Every step keeps the invariant.                                           *)
LEMMA StepHolds == IndInv /\ [Next]_vars => IndInv'
<1> SUFFICES ASSUME IndInv, [Next]_vars PROVE IndInv'
  OBVIOUS
<1>1. CASE UNCHANGED vars
  <2>1. TypeOK'
    BY <1>1 DEF IndInv, TypeOK, vars, loopVars, taskVars
  <2>2. UNCHANGED <<taskVars, connecting, sessions, intents, asked, tick>>
    BY <1>1 DEF vars, loopVars
  <2> QED  BY <2>1, <2>2, TasksKept, LoopKept DEF IndInv
<1>2. ASSUME NEW p \in Peer, AddPeer(p) \/ Command(p)
      PROVE  IndInv'
  BY <1>2, CommandStep
<1>3. ASSUME NEW p \in Peer, Drive(p) \/ Due(p)
      PROVE  IndInv'
  BY <1>3, DriveStep
<1>4. CASE TickStart \/ TickInFlight
  BY <1>4, TickStep
<1>5. CASE \/ SetServer \/ Shutdown \/ CommandsClosed \/ Reconnect \/ LinkBreaks
           \/ Disconnected \/ \E p \in Peer : PeerOnline(p) \/ PeerOffline(p)
  BY <1>5, ServerStep
<1>6. ASSUME NEW p \in Peer, NEW c \in Task, PunchHole(p, c)
      PROVE  IndInv'
  BY <1>6, SpawnStep
<1>7. ASSUME NEW c \in Task, Attempt(c)
      PROVE  IndInv'
  <2>1. CASE ReadLive(c) \/ Skip(c)
    BY <2>1, SpawnStep
  <2>2. CASE Reserve(c)
    BY <2>2, ReserveStep
  <2>3. CASE Punched(c) \/ FallBack(c) \/ HandshakeOk(c) \/ (RelayEnds(c) /\ c \in inbox)
    BY <2>3, HandshakeStep
  <2>4. CASE Insert(c)
    BY <2>4, InsertStep
  <2>5. CASE Return(c) \/ (RelayEnds(c) /\ c \notin inbox)
    BY <2>5, ReturnStep
  <2> QED  BY <1>7, <2>1, <2>2, <2>3, <2>4, <2>5 DEF Attempt
<1>8. CASE \/ \E p \in Peer : RelayData(p)
           \/ \E c \in Task : ReaderStops(c) \/ WriterStops(c) \/ StoreMessage(c)
  BY <1>8, SessionStep
<1>9. ASSUME NEW c \in Task, Cleanup(c)
      PROVE  IndInv'
  BY <1>9, CleanupStep
<1> QED  BY <1>1, <1>2, <1>3, <1>4, <1>5, <1>6, <1>7, <1>8, <1>9 DEF Next

(* The invariant holds throughout every run of the connection manager.       *)
THEOREM Invariance == Spec => []IndInv
<1>1. Init => IndInv
  BY InitHolds
<1>2. IndInv /\ [Next]_vars => IndInv'
  BY StepHolds
<1> QED  BY <1>1, <1>2, PTL DEF Spec

(* Every variable of the manager keeps its type; the backoff stays within    *)
(* RETRY_BACKOFF_CAP_SECS and the attempts within MAX_CONNECT_ATTEMPTS + 1.  *)
THEOREM TypeCorrect == Spec => []TypeOK
<1>1. IndInv => TypeOK
  BY DEF IndInv
<1> QED  BY <1>1, Invariance, PTL

(* However many PunchHole events race, `connecting` names exactly the peers  *)
(* with a connect_session at work, and no peer has two.                      *)
THEOREM OneAttemptPerPeer == Spec => []ReservationExclusive
<1>1. IndInv => ReservationExclusive
  BY DEF IndInv
<1> QED  BY <1>1, Invariance, PTL

(* Whichever session's event task, command or reconnection touches the map,  *)
(* no entry in it belongs to a session without an event task.                *)
THEOREM NoDeadEntry == Spec => []EntriesHaveEventTask
<1>1. IndInv => EntriesHaveEventTask
  BY DEF IndInv
<1> QED  BY <1>1, Invariance, PTL

(* drive_retries parks no intent before MAX_CONNECT_ATTEMPTS requests left.  *)
THEOREM NoEarlyGiveUp == Spec => []ParkedAfterAllAttempts
<1>1. IndInv => ParkedAfterAllAttempts
  <2> SUFFICES ASSUME IndInv, NEW p \in Peer, Parked(p)
               PROVE  asked[p] >= MaxAttempts
    BY DEF ParkedAfterAllAttempts
  <2>1. p \in DOMAIN intents /\ intents[p].attempts > MaxAttempts
    BY DEF Parked
  <2>2. intents[p].attempts \in Nat /\ asked[p] \in Nat
    BY <2>1 DEF IndInv, TypeOK, Intent
  <2>3. \/ intents[p].attempts <= asked[p]
        \/ asked[p] >= MaxAttempts
    BY <2>1 DEF IndInv, AttemptsCounted
  <2> QED  BY <2>1, <2>2, <2>3, BoundsPositive
<1> QED  BY <1>1, Invariance, PTL
=============================================================================
