------------------------------ MODULE ChatView ------------------------------
(***************************************************************************)
(* One conversation from chat.db to the screen: the threads of             *)
(* crates/client and crates/serverclient that store messages or purge      *)
(* them, the unbounded queues between them and the window, and the state   *)
(* the window keeps of the conversation (crates/gui: selected, history,    *)
(* unread).  The window works on its own thread, so every read of chat.db  *)
(* runs beside the writers and competes with them for sled's lock.         *)
(***************************************************************************)
EXTENDS ChatStore

CONSTANTS
    Mine,       \* messages the user writes to Peer
    Blobs,      \* messages Peer sends through the mailbox; the others come over a session
    Peer,       \* the contact whose chat.db this is
    Elsewhere,  \* another contact
    MaxWipe     \* bound on the purges and removals of either side

ASSUME ViewConstants ==
    /\ Mine \subseteq Msg /\ Blobs \subseteq Msg \ Mine /\ MaxWipe \in Nat
    /\ {"purge", "remove"} \cap Msg = {}
    /\ User = {"loop", "task", "dispatch", "ui"}
    /\ None \notin {Peer, Elsewhere} /\ Peer # Elsewhere

Theirs == Msg \ Mine

VARIABLES
    known,      \* peer.pub of Peer exists
    used,       \* history: messages written so far
    wipes,      \* history: purges and removals asked for so far
    cmds,       \* cmd_tx: commands the window sent, not yet handled
    srv,        \* BlobStored events on their way to orchestrate
    queue,      \* app_tx: MessageArrived events, each with its from_me
    batch,      \* events drain_events has taken and not yet applied
    selected,   \* the contact whose conversation is open
    shown,      \* history: whose, and which messages, are on the screen
    unread,     \* the badge of Peer
    seen,       \* history: messages of Peer that were on the screen
    missed      \* history: since the last good load of Peer's history a load failed,
                \* or chat.db went without an event

view == <<known, used, wipes, cmds, srv, queue, batch, selected, shown, unread, seen, missed>>
vars == <<store, view>>

Init ==
    /\ StoreInit
    /\ known = TRUE /\ used = {} /\ wipes = 0
    /\ cmds = <<>> /\ srv = 0 /\ queue = <<>> /\ batch = <<>>
    /\ selected = None /\ shown = [of |-> None, rows |-> <<>>]
    /\ unread = 0 /\ seen = {} /\ missed = FALSE

-----------------------------------------------------------------------------
(* orchestrate: commands and BlobStored events, one at a time.  A removal    *)
(* raises no event.                                                          *)

LoopSend ==
    /\ cmds # <<>> /\ Head(cmds) \in Mine
    /\ cmds' = Tail(cmds)
    /\ IF known THEN StartStore("loop", Head(cmds)) ELSE step["loop"] = "idle" /\ UNCHANGED store
    /\ UNCHANGED <<known, used, wipes, srv, queue, batch, selected, shown, unread, seen, missed>>

(* MessageArrived is sent only for a message that was stored.                *)
LoopStored ==
    /\ step["loop"] \in {"ok", "err"}
    /\ queue' = IF step["loop"] = "ok" THEN Append(queue, TRUE) ELSE queue
    /\ Done("loop")
    /\ UNCHANGED <<known, used, wipes, cmds, srv, batch, selected, shown, unread, seen, missed>>

LoopPurge ==
    /\ step["loop"] = "idle" /\ cmds # <<>> /\ Head(cmds) = "purge"
    /\ cmds' = Tail(cmds)
    /\ IF known
       THEN RemoveDir /\ queue' = Append(queue, TRUE)
       ELSE UNCHANGED <<store, queue>>
    /\ UNCHANGED <<known, used, wipes, srv, batch, selected, shown, unread, seen, missed>>

LoopRemovePeer ==
    /\ step["loop"] = "idle" /\ cmds # <<>> /\ Head(cmds) = "remove"
    /\ cmds' = Tail(cmds)
    /\ RemoveDir
    /\ known' = FALSE
    /\ missed' = TRUE
    /\ UNCHANGED <<used, wipes, srv, queue, batch, selected, shown, unread, seen>>

LoopBlobStored ==
    /\ step["loop"] = "idle" /\ srv > 0
    /\ srv' = srv - 1
    /\ queue' = Append(queue, FALSE)
    /\ UNCHANGED <<store, known, used, wipes, cmds, batch, selected, shown, unread, seen, missed>>

(* The event task of a session: MessageArrived whether or not it was stored. *)
TaskMessage(m) ==
    /\ StartStore("task", m)
    /\ used' = used \cup {m}
    /\ UNCHANGED <<known, wipes, cmds, srv, queue, batch, selected, shown, unread, seen, missed>>

TaskStored ==
    /\ step["task"] \in {"ok", "err"}
    /\ queue' = Append(queue, FALSE)
    /\ Done("task")
    /\ UNCHANGED <<known, used, wipes, cmds, srv, batch, selected, shown, unread, seen, missed>>

(* handle_blob on the dispatch task: an offline message of a known peer, and *)
(* a purge from the other side, which raises no event.                       *)
BlobMessage(m) ==
    /\ known
    /\ StartStore("dispatch", m)
    /\ used' = used \cup {m}
    /\ UNCHANGED <<known, wipes, cmds, srv, queue, batch, selected, shown, unread, seen, missed>>

BlobStored ==
    /\ step["dispatch"] \in {"ok", "err"}
    /\ srv' = IF step["dispatch"] = "ok" THEN srv + 1 ELSE srv
    /\ Done("dispatch")
    /\ UNCHANGED <<known, used, wipes, cmds, queue, batch, selected, shown, unread, seen, missed>>

BlobPurge ==
    /\ step["dispatch"] = "idle" /\ known /\ wipes < MaxWipe
    /\ RemoveDir
    /\ wipes' = wipes + 1
    /\ missed' = TRUE
    /\ UNCHANGED <<known, used, cmds, srv, queue, batch, selected, shown, unread, seen>>

-----------------------------------------------------------------------------
(* The window.  It handles one message at a time, a drained batch as one.    *)

UiIdle == step["ui"] = "idle" /\ batch = <<>>

(* reload_history of Peer: history() fails at once for an unknown peer.      *)
Reload == IF known
          THEN StartHistory("ui") /\ UNCHANGED missed
          ELSE UNCHANGED store /\ missed' = TRUE

ReloadFailed ==
    /\ HistoryFails("ui")
    /\ missed' = TRUE
    /\ UNCHANGED <<known, used, wipes, cmds, srv, queue, batch, selected, shown, unread, seen>>

ReloadDone ==
    /\ ReadRows("ui")
    /\ shown' = [of |-> Peer, rows |-> History("ui")]
    /\ seen' = seen \cup (Range(History("ui")) \cap Theirs)
    /\ missed' = IF handle["ui"] = dir THEN FALSE ELSE missed
    /\ UNCHANGED <<known, used, wipes, cmds, srv, queue, batch, selected, unread>>

\* mutant: opening the conversation counts as reading one message
SelectReadsOne ==
    /\ UiIdle
    /\ selected' = Peer /\ unread' = unread - 1
    /\ Reload
    /\ UNCHANGED <<known, used, wipes, cmds, srv, queue, batch, shown, seen>>

SelectPeer ==
    /\ UiIdle
    /\ selected' = Peer /\ unread' = 0
    /\ Reload
    /\ UNCHANGED <<known, used, wipes, cmds, srv, queue, batch, shown, seen>>

(* The other contact's conversation, loaded like Peer's from its own chat.db *)
(* and taken here to load.                                                   *)
\* mutant: all badges are cleared
SelectClearsAll ==
    /\ UiIdle
    /\ selected' = Elsewhere /\ unread' = 0
    /\ shown' = [of |-> Elsewhere, rows |-> <<>>]
    /\ UNCHANGED <<store, known, used, wipes, cmds, srv, queue, batch, seen, missed>>

SelectElsewhere ==
    /\ UiIdle
    /\ selected' = Elsewhere
    /\ shown' = [of |-> Elsewhere, rows |-> <<>>]
    /\ UNCHANGED <<store, known, used, wipes, cmds, srv, queue, batch, unread, seen, missed>>

SendDraft(m) ==
    /\ UiIdle /\ selected = Peer
    /\ cmds' = Append(cmds, m)
    /\ used' = used \cup {m}
    /\ UNCHANGED <<store, known, wipes, srv, queue, batch, selected, shown, unread, seen, missed>>

PurgeSelected ==
    /\ UiIdle /\ selected = Peer /\ wipes < MaxWipe
    /\ cmds' = Append(cmds, "purge")
    /\ wipes' = wipes + 1
    /\ shown' = [shown EXCEPT !.rows = <<>>]
    /\ UNCHANGED <<store, known, used, srv, queue, batch, selected, unread, seen, missed>>

RemoveSelected ==
    /\ UiIdle /\ selected = Peer /\ wipes < MaxWipe
    /\ cmds' = Append(cmds, "remove")
    /\ wipes' = wipes + 1
    /\ selected' = None /\ shown' = [of |-> None, rows |-> <<>>] /\ unread' = 0
    /\ UNCHANGED <<store, known, used, srv, queue, batch, seen, missed>>

Tick ==
    /\ UiIdle /\ queue # <<>>
    /\ batch' = queue /\ queue' = <<>>
    /\ UNCHANGED <<store, known, used, wipes, cmds, srv, selected, shown, unread, seen, missed>>

\* mutant: the echo of a message of our own does not reload the history
ApplyTheirs ==
    /\ step["ui"] = "idle" /\ batch # <<>>
    /\ batch' = Tail(batch)
    /\ \/ selected = Peer /\ ~Head(batch) /\ Reload /\ UNCHANGED unread
       \/ Head(batch) /\ UNCHANGED <<store, missed, unread>>
       \/ selected # Peer /\ ~Head(batch) /\ unread' = unread + 1 /\ UNCHANGED <<store, missed>>
    /\ UNCHANGED <<known, used, wipes, cmds, srv, queue, selected, shown, seen>>

(* apply_event for MessageArrived.                                           *)
ApplyEvent ==
    /\ step["ui"] = "idle" /\ batch # <<>>
    /\ batch' = Tail(batch)
    /\ \/ selected = Peer /\ Reload /\ UNCHANGED unread
       \/ selected # Peer /\ Head(batch) /\ UNCHANGED <<store, missed, unread>>
       \/ selected # Peer /\ ~Head(batch) /\ unread' = unread + 1 /\ UNCHANGED <<store, missed>>
    /\ UNCHANGED <<known, used, wipes, cmds, srv, queue, selected, shown, seen>>

-----------------------------------------------------------------------------

Database(u) ==
    /\ OpenToStore(u) \/ StoreFails(u) \/ FindCounter(u) \/ Insert(u) \/ OpenToRead(u)
    /\ UNCHANGED view

Next ==
    \/ \E u \in User : Database(u)
    \/ LoopSend \/ LoopStored \/ LoopPurge \/ LoopRemovePeer \/ LoopBlobStored
    \/ \E m \in Theirs \ (Blobs \cup used) : TaskMessage(m)
    \/ \E m \in Blobs \ used : BlobMessage(m)
    \/ TaskStored \/ BlobStored \/ BlobPurge
    \/ ReloadFailed \/ ReloadDone
    \/ SelectPeer \/ SelectElsewhere
    \/ \E m \in Mine \ used : SendDraft(m)
    \/ PurgeSelected \/ RemoveSelected \/ Tick \/ ApplyEvent

Spec == Init /\ [][Next]_vars

-----------------------------------------------------------------------------
(* Properties.                                                               *)

TypeOK ==
    /\ StoreTypeOK
    /\ known \in BOOLEAN /\ used \subseteq Msg /\ wipes \in 0..MaxWipe
    /\ cmds \in Seq(Mine \cup {"purge", "remove"}) /\ srv \in Nat
    /\ queue \in Seq(BOOLEAN) /\ batch \in Seq(BOOLEAN)
    /\ selected \in {Peer, Elsewhere, None}
    /\ shown \in [of : {Peer, Elsewhere, None}, rows : Seq(Msg)]
    /\ unread \in Nat /\ seen \subseteq Msg /\ missed \in BOOLEAN

Settled ==
    /\ \A u \in User : step[u] = "idle"
    /\ cmds = <<>> /\ srv = 0 /\ queue = <<>> /\ batch = <<>>

OnDisk == IF dir = 0 THEN <<>> ELSE Readable(rows[dir])

Current == shown = [of |-> Peer, rows |-> OnDisk]

(* Once every command and event has been worked off, the screen shows the    *)
(* selected conversation, and no other, as chat.db has it: no interleaving   *)
(* of sends, arrivals, purges and loads leaves an older view behind, unless  *)
(* the last load failed, the other side purged or the peer was removed.      *)
ViewCurrent == (Settled /\ selected = Peer /\ ~missed) => Current

Unseen == (InChat \cap Theirs) \ seen

FromPeer(q) == Cardinality({i \in DOMAIN q : ~q[i]})

JustStored == {u \in {"task", "dispatch"} : step[u] = "ok"}

Announced == unread + FromPeer(queue) + FromPeer(batch) + srv + Cardinality(JustStored)

(* While the conversation is closed, its badge and the events still under    *)
(* way account for every stored message of the peer that was never on the    *)
(* screen, unless opening it failed to load the history.                     *)
BadgeCoversUnseen == (selected # Peer /\ ~missed) => Cardinality(Unseen) <= Announced

-----------------------------------------------------------------------------
(* What makes the properties inductive.                                      *)

(* A load that will show chat.db as it is then.                              *)
Loading == step["ui"] = "load" \/ (step["ui"] = "read" /\ handle["ui"] = dir)

(* An event that makes the window load the history is under way.             *)
Coming ==
    \/ queue # <<>> \/ batch # <<>> \/ srv > 0
    \/ \E u \in {"loop", "task", "dispatch"} : step[u] = "ok"

(* The window emptied the screen, and the purge it asked for is to come.     *)
Purging == known /\ "purge" \in Range(cmds) /\ shown = [of |-> Peer, rows |-> <<>>]

(* Each thread does its own kind of work, and the window loads the history   *)
(* only of the conversation that is open.                                    *)
RoleInv ==
    /\ step["ui"] \in {"idle", "load", "read"}
    /\ \A u \in {"loop", "task", "dispatch"} : step[u] \notin {"load", "read"}
    /\ step["loop"] \in {"store", "count", "insert"} => work["loop"] \in Mine
    /\ step["ui"] # "idle" => selected = Peer
    /\ selected = Peer => unread = 0

(* When the screen is not up to date, an event is coming, a load is running, *)
(* or a purge is: the screen shows its result already.  A load whose files   *)
(* were purged is followed by another one.  After a removal nothing can be   *)
(* loaded, and what is stored then has its event.                            *)
ViewInv ==
    /\ selected = Peer /\ ~missed => Coming \/ Loading \/ Current \/ Purging
    /\ step["ui"] = "read" /\ handle["ui"] # dir /\ ~missed => queue # <<>>
    /\ ~known /\ ((selected = Peer /\ ~missed) \/ step["ui"] # "idle") => Coming \/ InChat = {}

(* The events account for what was not seen, open or closed, except while a  *)
(* load is running that will show it.                                        *)
BadgeInv == ~missed => Loading \/ Cardinality(Unseen) <= Announced
=============================================================================
