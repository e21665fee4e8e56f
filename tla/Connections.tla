---------------------------- MODULE Connections -----------------------------
(***************************************************************************)
(* The connection manager of one client (crates/client): the orchestrate   *)
(* loop with its commands, server events and retry tick, the tasks running *)
(* connect_session, and the tasks of the sessions these start.  All share  *)
(* the session map, the `connecting` reservations and the peer directories *)
(* on disk; only the intents are private to the loop.                      *)
(*                                                                         *)
(* A step is what happens between two awaits or while a lock is held.      *)
(* Time is abstract: a deadline may pass, and a due time come, at any      *)
(* moment after it was set.  What the two handshakes exchange is the       *)
(* subject of P2PSession; here they succeed or fail.                       *)
(***************************************************************************)
EXTENDS Integers, FiniteSets

CONSTANTS
    Peer,        \* the contacts
    Task,        \* bound on connect_session tasks and sessions alive at once
    None,        \* no peer, no task
    MaxAttempts, \* MAX_CONNECT_ATTEMPTS
    BackoffCap   \* RETRY_BACKOFF_CAP_SECS

ASSUME NoneIsNew == None \notin Peer \cup Task
ASSUME BoundsPositive == MaxAttempts \in Nat \ {0} /\ BackoffCap \in Nat \ {0}

VARIABLES
    disk,        \* per peer: "absent", "full" or "orphan" (chat.db, no peer.pub)
    cache,       \* PEERS, the online presence cache
    link,        \* the loop and its server connection: up, broken, down, off
    intents,     \* the connect intents of the loop (a partial function)
    tick,        \* the pass of drive_retries in progress
    connecting,  \* peers with a reserved connect attempt
    sessions,    \* SessionMap: per peer the task whose session it holds
    pc,          \* progress of each connect_session
    target,      \* the peer each task connects to
    sawLive,     \* the local `live` of connect_session
    session,     \* reader and event task of the session a task started
    writer,      \* its writer task
    inbox,       \* tasks whose relay channel `inbound` holds a frame
    asked,       \* history: punches since the intent was armed or satisfied
    heard,       \* history: relay handshakes whose peer sent RelayData
    back,        \* history: parked peers reported online since
    unsent       \* history: peers with a message that was stored, never sent

loopVars == <<disk, cache, link, intents, tick, asked, back, unsent>>
taskVars == <<pc, target, sawLive, session, writer, inbox, heard>>
vars == <<loopVars, taskVars, connecting, sessions>>

-----------------------------------------------------------------------------
(* Connect intents.                                                          *)

Armed(online) == [attempts |-> 0, backoff |-> 1, due |-> TRUE, online |-> online]

rearm(i) == [i EXCEPT !.attempts = 0, !.backoff = 1, !.due = TRUE]

Intent == [attempts : 0..(MaxAttempts + 1), backoff : 1..BackoffCap,
           due : BOOLEAN, online : BOOLEAN]

DoubleBackoff(b) == b * 2                       \* mutant: the cap is forgotten
bump_backoff(b) == IF b * 2 < BackoffCap THEN b * 2 ELSE BackoffCap

GiveUpEarly(i, hasSession) ==                   \* mutant: off by one
    IF hasSession THEN "Done"
    ELSE IF ~i.online \/ i.attempts > MaxAttempts THEN "Wait"
    ELSE IF i.attempts >= MaxAttempts - 1 THEN "GiveUp"
    ELSE IF ~i.due THEN "Wait" ELSE "Punch"

next_retry_action(i, hasSession) ==
    IF hasSession THEN "Done"
    ELSE IF ~i.online \/ i.attempts > MaxAttempts THEN "Wait"
    ELSE IF i.attempts = MaxAttempts THEN "GiveUp"
    ELSE IF ~i.due THEN "Wait" ELSE "Punch"

Parked(p) == p \in DOMAIN intents /\ intents[p].attempts > MaxAttempts

Without(f, p) == [q \in DOMAIN f \ {p} |-> f[q]]
With(f, p, v) == [q \in DOMAIN f \cup {p} |-> IF q = p THEN v ELSE f[q]]

-----------------------------------------------------------------------------
Idling == [pc |-> "idle", live |-> {}, in_flight |-> {}, todo |-> {}]

Init ==
    /\ disk = [p \in Peer |-> "absent"]
    /\ cache = {}
    /\ link = "down"
    /\ intents = [p \in {} |-> Armed(FALSE)]
    /\ tick = Idling
    /\ connecting = {}
    /\ sessions = [p \in Peer |-> None]
    /\ pc = [c \in Task |-> "free"]
    /\ target = [c \in Task |-> None]
    /\ sawLive = [c \in Task |-> FALSE]
    /\ session = [c \in Task |-> "off"]
    /\ writer = [c \in Task |-> "off"]
    /\ inbox = {}
    /\ asked = [p \in Peer |-> 0]
    /\ heard = {}
    /\ back = {}
    /\ unsent = {}

(* The loop waits in its select!.  It also does while the connection is      *)
(* already broken and Disconnected not yet read.                             *)
Selecting == link \in {"up", "broken"} /\ tick.pc = "idle"

LiveSession(p) == sessions[p] # None

-----------------------------------------------------------------------------
(* Commands.  A command that finds nothing to do changes nothing and is left *)
(* out (Connect to an unknown or connected peer, say).                       *)

(* Client::add_peer runs in the caller's thread.                             *)
AddPeer(p) ==
    /\ disk[p] # "full"
    /\ disk' = [disk EXCEPT ![p] = "full"]
    /\ UNCHANGED <<cache, link, intents, tick, asked, back, unsent, taskVars,
                   connecting, sessions>>

Connect(p) ==
    /\ Selecting
    /\ disk[p] = "full"
    /\ ~LiveSession(p)
    /\ intents' = With(intents, p, Armed(p \in cache))
    /\ asked' = [asked EXCEPT ![p] = 0]
    /\ back' = back \ {p}
    /\ UNCHANGED <<disk, cache, link, tick, unsent, taskVars, connecting, sessions>>

(* What Purge and RemovePeer do first: drop the intent and the entry.        *)
Forget(p) ==
    /\ intents' = Without(intents, p)
    /\ sessions' = [sessions EXCEPT ![p] = None]
    /\ asked' = [asked EXCEPT ![p] = 0]
    /\ back' = back \ {p}
    /\ unsent' = unsent \ {p}

RemovePeer(p) ==
    /\ Selecting
    /\ Forget(p)
    /\ disk' = [disk EXCEPT ![p] = "absent"]
    /\ UNCHANGED <<cache, link, tick, taskVars, connecting>>

(* Purge also sends the Purge blob and deletes chat.db; peer.pub stays.      *)
Purge(p) ==
    /\ Selecting
    /\ Forget(p)
    /\ UNCHANGED <<disk, cache, link, tick, taskVars, connecting>>

(* Send to a peer whose session has lost its writer: the entry is dropped,   *)
(* and the message is stored as sent.  The other cases change nothing here:  *)
(* a live writer takes the message, and without an entry it goes to the      *)
(* mailbox.                                                                  *)
SendToDeadWriter(p) ==
    /\ Selecting
    /\ disk[p] = "full"
    /\ LiveSession(p)
    /\ writer[sessions[p]] = "closed"
    /\ sessions' = [sessions EXCEPT ![p] = None]
    /\ unsent' = unsent \cup {p}
    /\ UNCHANGED <<disk, cache, link, intents, tick, asked, back, taskVars, connecting>>

SetServer ==
    /\ Selecting
    /\ link' = "down"
    /\ UNCHANGED <<disk, cache, intents, tick, asked, back, unsent, taskVars,
                   connecting, sessions>>

Shutdown ==
    /\ Selecting
    /\ link' = "off"
    /\ sessions' = [p \in Peer |-> None]
    /\ UNCHANGED <<disk, cache, intents, tick, asked, back, unsent, taskVars, connecting>>

(* Every handle of the client is gone: the loop returns and clears nothing.  *)
CommandsClosed ==
    /\ Selecting
    /\ link' = "off"
    /\ UNCHANGED <<disk, cache, intents, tick, asked, back, unsent, taskVars,
                   connecting, sessions>>

-----------------------------------------------------------------------------
(* The server connection.                                                    *)

(* server_initial_handshake ends with load_peers, which fails on any peer    *)
(* directory without a readable peer.pub.                                    *)
Reconnect ==
    /\ link = "down"
    /\ \A p \in Peer : disk[p] # "orphan"
    /\ link' = "up"
    /\ UNCHANGED <<disk, cache, intents, tick, asked, back, unsent, taskVars,
                   connecting, sessions>>

(* One of the four connection tasks ends.                                    *)
LinkBreaks ==
    /\ link = "up"
    /\ link' = "broken"
    /\ UNCHANGED <<disk, cache, intents, tick, asked, back, unsent, taskVars,
                   connecting, sessions>>

Disconnected ==
    /\ Selecting /\ link = "broken"
    /\ link' = "down"
    /\ UNCHANGED <<disk, cache, intents, tick, asked, back, unsent, taskVars,
                   connecting, sessions>>

(* Presence notices reach the cache and nothing else: handle_message turns   *)
(* neither into a ServerEvent, so no intent learns of them.                  *)
PeerOnline(p) ==
    /\ link = "up"
    /\ disk[p] = "full"
    /\ cache' = cache \cup {p}
    /\ back' = IF Parked(p) /\ p \notin cache THEN back \cup {p} ELSE back
    /\ UNCHANGED <<disk, link, intents, tick, asked, unsent, taskVars, connecting, sessions>>

(* PeerOffline, or ONLINE_TTL_SECS without a notice.                         *)
PeerOffline(p) ==
    /\ p \in cache
    /\ cache' = cache \ {p}
    /\ UNCHANGED <<disk, link, intents, tick, asked, back, unsent, taskVars,
                   connecting, sessions>>

(* The server brokers a punch, on a request of either side.  A peer whose    *)
(* directory is gone is still found in the cache by its address.             *)
PunchHole(p, c) ==
    /\ Selecting
    /\ disk[p] = "full" \/ p \in cache
    /\ pc[c] = "free"
    /\ pc' = [pc EXCEPT ![c] = "spawned"]
    /\ target' = [target EXCEPT ![c] = p]
    /\ UNCHANGED <<loopVars, sawLive, session, writer, inbox, heard, connecting, sessions>>

(* A relayed frame of p goes to the relay channel of the entry of p, when    *)
(* there is one.                                                             *)
RelayEntry(p) == {c \in Task : sessions[p] = c /\ session[c] = "relay"}
RelayData(p) ==
    /\ Selecting
    /\ inbox' = inbox \cup RelayEntry(p)
    /\ heard' = heard \cup {c \in Task : pc[c] = "relay" /\ target[c] = p}
    /\ UNCHANGED <<loopVars, pc, target, sawLive, session, writer, connecting, sessions>>

-----------------------------------------------------------------------------
(* The retry tick: drive_retries reads the session map, then `connecting`,   *)
(* then treats the intents one by one, awaiting the server channel between   *)
(* them.                                                                     *)

TickStart ==
    /\ Selecting
    /\ DOMAIN intents # {}
    /\ tick' = [pc |-> "live", live |-> {p \in Peer : LiveSession(p)},
                in_flight |-> {}, todo |-> DOMAIN intents]
    /\ UNCHANGED <<disk, cache, link, intents, asked, back, unsent, taskVars,
                   connecting, sessions>>

TickInFlight ==
    /\ tick.pc = "live"
    /\ tick' = [tick EXCEPT !.pc = "drive", !.in_flight = connecting]
    /\ UNCHANGED <<disk, cache, link, intents, asked, back, unsent, taskVars,
                   connecting, sessions>>

(* The tick is about to do `action` with the intent of p.                    *)
Driving(p, action) ==
    /\ tick.pc = "drive" /\ p \in tick.todo
    /\ next_retry_action(intents[p], p \in tick.live \cup tick.in_flight) = action
    /\ tick' = IF tick.todo = {p} THEN Idling ELSE [tick EXCEPT !.todo = @ \ {p}]
    /\ UNCHANGED <<disk, cache, link, unsent, taskVars, connecting, sessions>>

Satisfied(p) ==
    /\ Driving(p, "Done")
    /\ intents' = [intents EXCEPT ![p] = IF @.attempts # 0 \/ @.backoff # 1
                                         THEN rearm(@) ELSE @]
    /\ asked' = [asked EXCEPT ![p] = IF p \in tick.live THEN 0 ELSE @]
    /\ back' = back \ {p}

BackOff(i) == [i EXCEPT !.due = FALSE, !.backoff = bump_backoff(@)]

(* The request is handed to the connection.  A broken one may still take it. *)
PunchSent(p) ==
    /\ Driving(p, "Punch")
    /\ disk[p] = "full"
    /\ intents' = [intents EXCEPT ![p] = BackOff([intents[p] EXCEPT !.attempts = @ + 1])]
    /\ asked' = [asked EXCEPT ![p] = IF @ > MaxAttempts THEN @ ELSE @ + 1]
    /\ UNCHANGED back

PunchNotSent(p) ==
    /\ Driving(p, "Punch")
    /\ disk[p] # "full" \/ link = "broken"
    /\ intents' = [intents EXCEPT ![p] = BackOff(@)]
    /\ UNCHANGED <<asked, back>>

GiveUp(p) ==
    /\ Driving(p, "GiveUp")
    /\ intents' = [intents EXCEPT ![p].attempts = MaxAttempts + 1]
    /\ UNCHANGED <<asked, back>>

Wait(p) ==
    /\ Driving(p, "Wait")
    /\ UNCHANGED <<intents, asked, back>>

Due(p) ==
    /\ p \in DOMAIN intents /\ ~intents[p].due
    /\ intents' = [intents EXCEPT ![p].due = TRUE]
    /\ UNCHANGED <<disk, cache, link, tick, asked, back, unsent, taskVars,
                   connecting, sessions>>

-----------------------------------------------------------------------------
(* connect_session.                                                          *)

Goto(c, l) == pc' = [pc EXCEPT ![c] = l]

(* The task and all it started are gone.                                     *)
Free(c) ==
    /\ Goto(c, "free")
    /\ target' = [target EXCEPT ![c] = None]
    /\ sawLive' = [sawLive EXCEPT ![c] = FALSE]
    /\ session' = [session EXCEPT ![c] = "off"]
    /\ writer' = [writer EXCEPT ![c] = "off"]
    /\ inbox' = inbox \ {c}
    /\ heard' = heard \ {c}

ReadLive(c) ==
    /\ pc[c] = "spawned"
    /\ Goto(c, "checked")
    /\ sawLive' = [sawLive EXCEPT ![c] = LiveSession(target[c])]
    /\ UNCHANGED <<loopVars, target, session, writer, inbox, heard, connecting, sessions>>

Skip(c) ==
    /\ pc[c] = "checked"
    /\ sawLive[c] \/ target[c] \in connecting
    /\ Free(c)
    /\ UNCHANGED <<loopVars, connecting, sessions>>

ReserveAnyway(c) ==                             \* mutant: insert's result ignored
    /\ pc[c] = "checked"
    /\ ~sawLive[c]
    /\ connecting' = connecting \cup {target[c]}
    /\ Goto(c, "punch")
    /\ UNCHANGED <<loopVars, target, sawLive, session, writer, inbox, heard, sessions>>

Reserve(c) ==
    /\ pc[c] = "checked"
    /\ ~sawLive[c] /\ target[c] \notin connecting
    /\ connecting' = connecting \cup {target[c]}
    /\ Goto(c, "punch")
    /\ UNCHANGED <<loopVars, target, sawLive, session, writer, inbox, heard, sessions>>

Punched(c) ==
    /\ pc[c] = "punch"
    /\ Goto(c, "handshake")
    /\ UNCHANGED <<loopVars, target, sawLive, session, writer, inbox, heard,
                   connecting, sessions>>

(* The punch, or the handshake after it, runs into its deadline.             *)
FallBack(c) ==
    /\ pc[c] \in {"punch", "handshake"}
    /\ Goto(c, "relay")
    /\ UNCHANGED <<loopVars, target, sawLive, session, writer, inbox, heard,
                   connecting, sessions>>

(* start_session spawns reader and writer; the entry is not in the map yet.  *)
Start(c, transport) ==
    /\ Goto(c, "ready")
    /\ session' = [session EXCEPT ![c] = transport]
    /\ writer' = [writer EXCEPT ![c] = "open"]
    /\ UNCHANGED <<loopVars, target, sawLive, inbox, heard, connecting, sessions>>

HandshakeOk(c) ==
    /\ pc[c] = "handshake"
    /\ Start(c, "direct")

(* ConnectingGuard::drop.                                                    *)
DropGuard(c) == connecting' = connecting \ {target[c]}

LeakGuard(c) ==                                 \* mutant: early return leaks it
    /\ pc[c] = "relay"
    /\ IF c \in inbox
         THEN Start(c, "relay")
         ELSE Free(c) /\ UNCHANGED <<loopVars, connecting, sessions>>

(* The relay handshake ends: with a session when a frame reached `inbound`,  *)
(* at its deadline otherwise, where connect_session returns.                 *)
RelayEnds(c) ==
    /\ pc[c] = "relay"
    /\ IF c \in inbox
         THEN Start(c, "relay")
         ELSE Free(c) /\ DropGuard(c) /\ UNCHANGED <<loopVars, sessions>>

Insert(c) ==
    /\ pc[c] = "ready"
    /\ Goto(c, "inserted")
    /\ sessions' = [sessions EXCEPT ![target[c]] = c]
    /\ UNCHANGED <<loopVars, target, sawLive, session, writer, inbox, heard, connecting>>

(* connect_session returns; the event task stays, unless it is done already. *)
Return(c) ==
    /\ pc[c] = "inserted"
    /\ DropGuard(c)
    /\ IF session[c] = "done"
         THEN Free(c)
         ELSE Goto(c, "up") /\ UNCHANGED <<target, sawLive, session, writer, inbox, heard>>
    /\ UNCHANGED <<loopVars, sessions>>

-----------------------------------------------------------------------------
(* The tasks of a session.                                                   *)

(* The reader ends: an End frame, the idle timeout or a receive error.       *)
ReaderStops(c) ==
    /\ session[c] \in {"direct", "relay"}
    /\ session' = [session EXCEPT ![c] = "closed"]
    /\ UNCHANGED <<loopVars, pc, target, sawLive, writer, inbox, heard, connecting, sessions>>

(* The writer ends: its channel has no sender left, or a send failed.        *)
WriterStops(c) ==
    /\ writer[c] = "open"
    /\ writer' = [writer EXCEPT ![c] = "closed"]
    /\ UNCHANGED <<loopVars, pc, target, sawLive, session, inbox, heard, connecting, sessions>>

(* The event task stores a message.  sled creates the directories of a       *)
(* chat.db that are missing.                                                 *)
StoreMessage(c) ==
    /\ pc[c] \in {"inserted", "up"} /\ session[c] \in {"direct", "relay"}
    /\ disk[target[c]] = "absent"
    /\ disk' = [disk EXCEPT ![target[c]] = "orphan"]
    /\ UNCHANGED <<cache, link, intents, tick, asked, back, unsent, taskVars,
                   connecting, sessions>>

(* Mutant: only a session whose writer has ended is taken out of the map.    *)
KeepEntry(c) ==
    /\ pc[c] \in {"inserted", "up"} /\ session[c] = "closed"
    /\ sessions' = [sessions EXCEPT ![target[c]] = IF writer[c] = "open" THEN @ ELSE None]
    /\ IF pc[c] = "up"
         THEN Free(c)
         ELSE session' = [session EXCEPT ![c] = "done"]
              /\ UNCHANGED <<pc, target, sawLive, writer, inbox, heard>>
    /\ UNCHANGED <<loopVars, connecting>>

(* The event task reads Closed and removes the entry of its peer, whichever  *)
(* session that entry belongs to by now.                                     *)
Cleanup(c) ==
    /\ pc[c] \in {"inserted", "up"} /\ session[c] = "closed"
    /\ sessions' = [sessions EXCEPT ![target[c]] = None]
    /\ IF pc[c] = "up"
         THEN Free(c)
         ELSE session' = [session EXCEPT ![c] = "done"]
              /\ UNCHANGED <<pc, target, sawLive, writer, inbox, heard>>
    /\ UNCHANGED <<loopVars, connecting>>

-----------------------------------------------------------------------------
Attempt(c) ==
    \/ ReadLive(c) \/ Skip(c) \/ Reserve(c) \/ Punched(c) \/ FallBack(c)
    \/ HandshakeOk(c) \/ RelayEnds(c) \/ Insert(c) \/ Return(c)

Drive(p) ==
    \/ Satisfied(p) \/ PunchSent(p) \/ PunchNotSent(p) \/ GiveUp(p) \/ Wait(p)

Command(p) ==
    \/ Connect(p) \/ RemovePeer(p) \/ Purge(p) \/ SendToDeadWriter(p)

Next ==
    \/ \E p \in Peer : \/ AddPeer(p) \/ Command(p) \/ Drive(p) \/ Due(p)
                       \/ PeerOnline(p) \/ PeerOffline(p) \/ RelayData(p)
                       \/ \E c \in Task : PunchHole(p, c)
    \/ SetServer \/ Shutdown \/ CommandsClosed \/ Reconnect \/ LinkBreaks \/ Disconnected
    \/ TickStart \/ TickInFlight
    \/ \E c \in Task : \/ Attempt(c) \/ ReaderStops(c) \/ WriterStops(c)
                       \/ StoreMessage(c) \/ Cleanup(c)

Spec == Init /\ [][Next]_vars

(* The runtime runs every task that can run, and the deadlines of the punch  *)
(* and the handshakes pass.  Nothing is assumed of peers, users or servers.  *)
Fairness ==
    /\ \A c \in Task : WF_vars(Attempt(c)) /\ WF_vars(Cleanup(c))
    /\ WF_vars(TickStart) /\ WF_vars(TickInFlight)
    /\ \A p \in Peer : WF_vars(Drive(p)) /\ WF_vars(Due(p))

LiveSpec == Spec /\ Fairness

-----------------------------------------------------------------------------
Started == {"ready", "inserted", "up"}
InFlight(c) == pc[c] \in {"punch", "handshake", "relay", "ready", "inserted"}

TypeOK ==
    /\ disk \in [Peer -> {"absent", "full", "orphan"}]
    /\ cache \subseteq Peer
    /\ link \in {"up", "broken", "down", "off"}
    /\ DOMAIN intents \subseteq Peer /\ \A p \in DOMAIN intents : intents[p] \in Intent
    /\ tick \in [pc : {"idle", "live", "drive"}, live : SUBSET Peer,
                 in_flight : SUBSET Peer, todo : SUBSET DOMAIN intents]
    /\ connecting \subseteq Peer
    /\ sessions \in [Peer -> Task \cup {None}]
    /\ pc \in [Task -> {"free", "spawned", "checked", "punch", "handshake", "relay"}
                         \cup Started]
    /\ target \in [Task -> Peer \cup {None}]
    /\ sawLive \in [Task -> BOOLEAN]
    /\ session \in [Task -> {"off", "direct", "relay", "closed", "done"}]
    /\ writer \in [Task -> {"off", "open", "closed"}]
    /\ inbox \subseteq Task /\ heard \subseteq Task
    /\ asked \in [Peer -> 0..(MaxAttempts + 1)]
    /\ back \subseteq Peer /\ unsent \subseteq Peer

(* The reservation works: `connecting` names exactly the peers that some     *)
(* connect_session between Reserve and its return works for, and never two   *)
(* of them work for one peer, whatever the order of retry ticks, PunchHole   *)
(* events, early returns and guards dropped.                                 *)
ReservationExclusive ==
    /\ connecting = {target[c] : c \in {d \in Task : InFlight(d)}}
    /\ \A c, d \in Task : InFlight(c) /\ InFlight(d) /\ target[c] = target[d] => c = d

(* No dead entry is left in the session map: the session an entry belongs to *)
(* still has the event task that will remove it.  (A dead entry would make   *)
(* every later Connect and connect_session to the peer skip.)                *)
EntriesHaveEventTask ==
    \A p \in Peer : LiveSession(p) =>
        /\ pc[sessions[p]] \in {"inserted", "up"}
        /\ target[sessions[p]] = p
        /\ session[sessions[p]] \in {"direct", "relay", "closed"}

(* An intent is parked only after MAX_CONNECT_ATTEMPTS requests really left  *)
(* the client since it was armed or last satisfied: requests that failed     *)
(* because the connection was lost do not count, and no tick gives up early. *)
ParkedAfterAllAttempts ==
    \A p \in Peer : Parked(p) => asked[p] >= MaxAttempts

(* A task that was spawned has a peer, and one whose session is ready to be  *)
(* inserted has started it.                                                  *)
TasksHavePeer == \A c \in Task : pc[c] # "free" => target[c] \in Peer
ReadyIsStarted ==
    \A c \in Task : pc[c] = "ready" => session[c] \in {"direct", "relay", "closed"}

(* Between two passes the tick holds nothing.                                *)
TickRests == tick.pc = "idle" => tick = Idling

(* The attempts of an intent that is not parked were all requests that left. *)
AttemptsCounted ==
    \A p \in DOMAIN intents :
        \/ intents[p].attempts <= asked[p]
        \/ intents[p].attempts = MaxAttempts + 1 /\ asked[p] >= MaxAttempts

IndInv ==
    /\ TypeOK
    /\ ReservationExclusive /\ EntriesHaveEventTask
    /\ TasksHavePeer /\ ReadyIsStarted /\ TickRests /\ AttemptsCounted

(* Every reservation is given back: an attempt ends at one of its deadlines, *)
(* and each way out of connect_session drops the guard.                      *)
ReservationReleased ==
    \A p \in Peer : p \in connecting ~> p \notin connecting

(* When a reader has ended, the entry of its session leaves the map.         *)
ClosedEntryRemoved ==
    \A c \in Task : session[c] = "closed" ~> \A p \in Peer : sessions[p] # c

(* The relay fallback works for a pair that can both reach the relay: a      *)
(* relay handshake during which the peer's frame arrived does not time out.  *)
RelayFallback ==
    [][\A c \in Task : pc[c] = "relay" /\ c \in heard => pc'[c] # "free"]_vars

(* A parked intent is un-parked when its peer comes online again, provided   *)
(* that the peer stays online and this client connected.                     *)
UnparkedOnline ==
    \A p \in Peer : p \in back ~> (p \notin back \/ p \notin cache \/ link # "up")

(* Removing a peer removes its directory for good.                           *)
RemovedForGood == \A p \in Peer : disk[p] # "orphan"

(* Without a live session a message goes to the mailbox.                     *)
NothingUnsent == unsent = {}
=============================================================================
