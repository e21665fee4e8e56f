----------------------------- MODULE ServerLink -----------------------------
(***************************************************************************)
(* The connections to the relay server: orchestrate (crates/client) with   *)
(* its command queue, and the tasks run_client (crates/serverclient)       *)
(* spawns for a connection: write_loop, read_loop, the presence loop, the  *)
(* dispatch loop, and a monitor that reports the first of them to end.     *)
(* They are joined by bounded channels whose senders wait for room, so     *)
(* each can come to wait for another.  orchestrate leaves a connection     *)
(* without stopping its tasks; they go on until the socket fails them.     *)
(*                                                                         *)
(* One connection, any of those orchestrate makes, is modelled with its    *)
(* tasks; of the others only what orchestrate does while it uses them.     *)
(* The server is external: it reads what it is sent and pushes messages.   *)
(***************************************************************************)
EXTENDS Integers, Sequences, FiniteSets, SequencesExt

CONSTANTS
    Server,     \* relay addresses
    First,      \* the one configured at the start
    Reachable,  \* those that accept connections, if not always
    Blob,       \* messages the user sends while no session is up
    Cap,        \* capacity of the channels
    MaxCmds,    \* bound on commands waiting
    None        \* no message

ASSUME LinkConstants ==
    /\ First \in Server /\ Reachable \subseteq Server
    /\ {None, "quit", "note"} \cap Blob = {} /\ Blob \cap Server = {}
    /\ Cap \in Nat \ {0} /\ MaxCmds \in Nat

Task == {"write", "read", "presence", "dispatch"}
Note == "note"      \* any message to the server but a blob of the user's

VARIABLES
    server,     \* server_address
    cmds,       \* cmd_rx
    loop,       \* orchestrate: connect, select, send, relay, sleep, off
    msg,        \* what it waits to put on the out channel
    on,         \* the connection it uses: this one, another, none
    sock,       \* the socket of this one: none, up, cut
    tasks,      \* its tasks that run
    out,        \* its out channel
    inq,        \* length of its in channel, with what read_loop waits to put there
    todo,       \* what its dispatch loop has yet to send for the message it handles
    evs,        \* its events channel
    listening,  \* orchestrate still holds the receiver of evs
    told,       \* the monitor has reported
    relay,      \* length of the inbound channel of a relayed session, -1 without one
    given,      \* blobs stored in the local history as sent, by way of this connection
    arrived     \* blobs the server got over this connection

link == <<sock, tasks, out, inq, todo, evs, told>>
hist == <<given, arrived>>
vars == <<server, cmds, loop, msg, on, sock, tasks, out, inq, todo, evs, listening, told, relay,
          given, arrived>>

Init ==
    /\ server = First /\ cmds = <<>> /\ loop = "connect" /\ msg = None /\ on = "none"
    /\ sock = "none" /\ tasks = {} /\ out = <<>> /\ inq = 0 /\ todo = <<>> /\ evs = <<>>
    /\ listening = FALSE /\ told = FALSE /\ relay = -1
    /\ given = {} /\ arrived = {}

-----------------------------------------------------------------------------
(* The user and the network.                                                 *)

Command(x) ==
    /\ Len(cmds) < MaxCmds /\ loop # "off"
    /\ cmds' = Append(cmds, x)
    /\ UNCHANGED <<server, loop, msg, on, link, listening, relay, hist>>

UserSends(b) == b \notin given \cup {msg} \cup Range(cmds) /\ Command(b)

UserSetsServer(s) == Command(s)

UserQuits == Command("quit")

Cut ==
    /\ sock = "up" /\ sock' = "cut"
    /\ UNCHANGED <<server, cmds, loop, msg, on, tasks, out, inq, todo, evs, listening, told, relay,
                   hist>>

-----------------------------------------------------------------------------
(* The tasks of the connection.                                              *)

Runs(t) == t \in tasks

End(t) == tasks' = tasks \ {t}

\* mutant: a failed write is reported and skipped
WriteSkips ==
    /\ Runs("write") /\ out # <<>>
    /\ out' = Tail(out)
    /\ arrived' = IF sock = "up" THEN arrived \cup ({Head(out)} \cap Blob) ELSE arrived
    /\ UNCHANGED <<server, cmds, loop, msg, on, sock, tasks, inq, todo, evs, listening, told, relay,
                   given>>

(* write_loop: a message goes to the socket; a failed write ends the task    *)
(* and drops the channel.  recv() cannot return None before: the presence    *)
(* loop keeps its sender.                                                    *)
Write ==
    /\ Runs("write") /\ out # <<>>
    /\ IF sock = "up"
       THEN out' = Tail(out) /\ arrived' = arrived \cup ({Head(out)} \cap Blob) /\ UNCHANGED tasks
       ELSE out' = <<>> /\ End("write") /\ UNCHANGED arrived
    /\ UNCHANGED <<server, cmds, loop, msg, on, sock, inq, todo, evs, listening, told, relay,
                   given>>

(* read_loop takes the next message the server pushed, unless it still waits *)
(* to put the one before on the in channel; it ends when the socket fails or *)
(* the dispatch loop has dropped the channel.                                *)
Reading == Runs("read") /\ inq <= Cap

Read ==
    /\ Reading /\ sock = "up"
    /\ IF Runs("dispatch") THEN inq' = inq + 1 /\ UNCHANGED tasks ELSE End("read") /\ UNCHANGED inq
    /\ UNCHANGED <<server, cmds, loop, msg, on, sock, out, todo, evs, listening, told, relay, hist>>

ReadFails ==
    /\ Runs("read") /\ sock = "cut"
    /\ Reading \/ ~Runs("dispatch")
    /\ End("read")
    /\ UNCHANGED <<server, cmds, loop, msg, on, sock, out, inq, todo, evs, listening, told, relay,
                   hist>>

(* main_dispatch_loop: handle_message sends an event (RelayData, PunchHole,  *)
(* RequestDenied), a response (RequestHolePunch), an event and a response    *)
(* (PendingBlob) or nothing (PeerOnline, PeerOffline).                       *)
Sends == {<<"event">>, <<"answer">>, <<"event", "answer">>, <<>>}

Dispatch ==
    /\ Runs("dispatch") /\ todo = <<>>
    /\ IF inq > 0
       THEN inq' = inq - 1 /\ todo' \in Sends /\ UNCHANGED tasks
       ELSE ~Runs("read") /\ End("dispatch") /\ UNCHANGED <<inq, todo>>
    /\ UNCHANGED <<server, cmds, loop, msg, on, sock, out, evs, listening, told, relay, hist>>

(* events.send(..).await: waits for room, fails at once when orchestrate has *)
(* dropped the receiver.                                                     *)
Report(e) ==
    \/ listening /\ Len(evs) < Cap /\ evs' = Append(evs, e)
    \/ ~listening /\ UNCHANGED evs

DispatchEvent ==
    /\ Runs("dispatch") /\ todo # <<>> /\ Head(todo) = "event"
    /\ Report("event")
    /\ todo' = Tail(todo)
    /\ UNCHANGED <<server, cmds, loop, msg, on, sock, tasks, out, inq, listening, told, relay, hist>>

DispatchAnswer ==
    /\ Runs("dispatch") /\ todo # <<>> /\ Head(todo) = "answer"
    /\ \/ /\ Runs("write") /\ Len(out) < Cap
          /\ out' = Append(out, Note) /\ todo' = Tail(todo)
          /\ UNCHANGED <<tasks, inq>>
       \/ /\ ~Runs("write") /\ End("dispatch")
          /\ todo' = <<>> /\ inq' = 0
          /\ UNCHANGED out
    /\ UNCHANGED <<server, cmds, loop, msg, on, sock, evs, listening, told, relay, hist>>

\* mutant: the announcement does not wait for room
AnnounceAtOnce ==
    /\ Runs("presence")
    /\ \/ Runs("write") /\ Len(out) <= Cap /\ out' = Append(out, Note) /\ UNCHANGED tasks
       \/ ~Runs("write") /\ End("presence") /\ UNCHANGED out
    /\ UNCHANGED <<server, cmds, loop, msg, on, sock, inq, todo, evs, listening, told, relay, hist>>

(* presence_refresh_loop, with one peer to announce to: a tick, and the wait *)
(* for room in the out channel.                                              *)
Announce ==
    /\ Runs("presence")
    /\ \/ Runs("write") /\ Len(out) < Cap /\ out' = Append(out, Note) /\ UNCHANGED tasks
       \/ ~Runs("write") /\ End("presence") /\ UNCHANGED out
    /\ UNCHANGED <<server, cmds, loop, msg, on, sock, inq, todo, evs, listening, told, relay, hist>>

\* mutant: the report is not sent when the channel is full
MonitorTries ==
    /\ sock # "none" /\ tasks # Task /\ ~told
    /\ Report("disconnected") \/ (Len(evs) = Cap /\ UNCHANGED evs)
    /\ told' = TRUE
    /\ UNCHANGED <<server, cmds, loop, msg, on, sock, tasks, out, inq, todo, listening, relay, hist>>

(* The monitor: select! over the four handles, then Disconnected.            *)
Monitor ==
    /\ sock # "none" /\ tasks # Task /\ ~told
    /\ Report("disconnected")
    /\ told' = TRUE
    /\ UNCHANGED <<server, cmds, loop, msg, on, sock, tasks, out, inq, todo, listening, relay, hist>>

-----------------------------------------------------------------------------
(* A session over the relay, should one come up, reads its channel until it  *)
(* ends.                                                                     *)

SessionStarts ==
    /\ relay = -1 /\ relay' = 0 /\ on # "none" /\ loop # "relay"
    /\ UNCHANGED <<server, cmds, loop, msg, on, link, listening, hist>>

SessionReads ==
    /\ relay > 0 /\ relay' = relay - 1
    /\ UNCHANGED <<server, cmds, loop, msg, on, link, listening, hist>>

SessionEnds ==
    /\ relay >= 0 /\ relay' = -1
    /\ UNCHANGED <<server, cmds, loop, msg, on, link, listening, hist>>

-----------------------------------------------------------------------------
(* orchestrate.                                                              *)

(* run_client succeeds; the handshake has sent Authenticated.                *)
Connected ==
    /\ loop = "connect" /\ server \in Reachable
    /\ loop' = "select"
    /\ \/ /\ sock = "none" /\ on' = "this"
          /\ sock' = "up" /\ tasks' = Task /\ evs' = <<"event">> /\ listening' = TRUE
       \/ on' = "other" /\ UNCHANGED <<sock, tasks, evs, listening>>
    /\ UNCHANGED <<server, cmds, msg, out, inq, todo, told, relay, hist>>

(* It fails, at any reachable server too; the loop sleeps, reading nothing.  *)
ConnectFails ==
    /\ loop = "connect" /\ loop' = "sleep"
    /\ UNCHANGED <<server, cmds, msg, on, link, listening, relay, hist>>

(* The backoff is over; the next round has an events channel of its own.     *)
Wake ==
    /\ loop = "sleep" /\ loop' = "connect"
    /\ on' = "none" /\ listening' = FALSE
    /\ UNCHANGED <<server, cmds, msg, link, relay, hist>>

(* retry_ticker: drive_retries sends a punch request.                        *)
RetryTick ==
    /\ loop = "select" /\ loop' = "send" /\ msg' = Note
    /\ UNCHANGED <<server, cmds, on, link, listening, relay, hist>>

(* Disconnected, an event handled on the spot, or RelayData for a session.   *)
TakeEvent ==
    /\ loop = "select" /\ on = "this" /\ evs # <<>>
    /\ evs' = Tail(evs)
    /\ \/ Head(evs) = "disconnected" /\ loop' = "sleep"
       \/ Head(evs) = "event" /\ loop' = "select"
       \/ Head(evs) = "event" /\ relay >= 0 /\ loop' = "relay"
    /\ UNCHANGED <<server, cmds, msg, on, sock, tasks, out, inq, todo, listening, told, relay, hist>>

TakeOtherEvent ==
    /\ loop = "select" /\ on = "other"
    /\ loop' = "sleep" \/ (relay >= 0 /\ loop' = "relay")
    /\ UNCHANGED <<server, cmds, msg, on, link, listening, relay, hist>>

\* mutant: the sender to the session does not notice that it has ended
RelayedAlive ==
    /\ loop = "relay" /\ loop' = "select"
    /\ relay \in 0 .. Cap - 1 /\ relay' = relay + 1
    /\ UNCHANGED <<server, cmds, msg, on, link, listening, hist>>

(* handle_server_event waits for room in the session's channel, no longer    *)
(* than the session lasts.                                                   *)
Relayed ==
    /\ loop = "relay" /\ loop' = "select"
    /\ \/ relay \in 0 .. Cap - 1 /\ relay' = relay + 1
       \/ relay = -1 /\ UNCHANGED relay
    /\ UNCHANGED <<server, cmds, msg, on, link, listening, hist>>

\* mutant: leaving the server stops the tasks of its connection
SetServerAborts ==
    /\ loop = "select" /\ cmds # <<>> /\ cmds' = Tail(cmds)
    /\ \/ /\ Head(cmds) \in Blob \cup {"quit"}
          /\ loop' = "send" /\ msg' = Head(cmds) /\ UNCHANGED <<server, tasks, out>>
       \/ /\ Head(cmds) \in Server
          /\ server' = Head(cmds) /\ loop' = "sleep" /\ UNCHANGED msg
          /\ IF on = "this" THEN tasks' = {} /\ out' = <<>> ELSE UNCHANGED <<tasks, out>>
    /\ UNCHANGED <<on, sock, inq, todo, evs, told, listening, relay, hist>>

(* Send without a session and Shutdown put a message on the out channel;     *)
(* SetServer saves the address and leaves the connection to itself.          *)
TakeCommand ==
    /\ loop = "select" /\ cmds # <<>> /\ cmds' = Tail(cmds)
    /\ \/ /\ Head(cmds) \in Blob \cup {"quit"}
          /\ loop' = "send" /\ msg' = Head(cmds) /\ UNCHANGED server
       \/ /\ Head(cmds) \in Server
          /\ server' = Head(cmds) /\ loop' = "sleep" /\ UNCHANGED msg
    /\ UNCHANGED <<on, link, listening, relay, hist>>

(* server_tx.send(..).await returns: there was room, or write_loop is gone   *)
(* and the message with it.  Its result is ignored: Send goes on to store    *)
(* the message in the history, Shutdown (whose message is an Unannounce) to  *)
(* return.                                                                   *)
Sent ==
    /\ loop = "send"
    /\ \/ /\ on = "this" /\ Runs("write") /\ Len(out) < Cap
          /\ out' = Append(out, IF msg \in Blob THEN msg ELSE Note)
       \/ (on = "other" \/ ~Runs("write")) /\ UNCHANGED out
    /\ given' = IF on = "this" THEN given \cup ({msg} \cap Blob) ELSE given
    /\ msg' = None
    /\ IF msg = "quit" THEN loop' = "off" /\ listening' = FALSE
                       ELSE loop' = "select" /\ UNCHANGED listening
    /\ UNCHANGED <<server, cmds, on, sock, tasks, inq, todo, evs, told, relay, arrived>>

-----------------------------------------------------------------------------

Next ==
    \/ \E b \in Blob : UserSends(b)
    \/ \E s \in Server : UserSetsServer(s)
    \/ UserQuits \/ Cut
    \/ Write \/ Read \/ ReadFails \/ Dispatch \/ DispatchEvent \/ DispatchAnswer \/ Announce \/ Monitor
    \/ SessionReads \/ SessionEnds \/ SessionStarts
    \/ Connected \/ ConnectFails \/ Wake \/ RetryTick \/ TakeEvent \/ TakeOtherEvent
    \/ Relayed \/ TakeCommand \/ Sent

Spec == Init /\ [][Next]_vars

(* The runtime runs every task that can go on.  Strong fairness: a channel   *)
(* serves waiting senders in turn; select! picks at random among the ready   *)
(* branches, so none is passed over for ever; a reachable server does not    *)
(* refuse for ever.  That Write is fair says the server reads its socket.    *)
Fairness ==
    /\ WF_vars(Write) /\ WF_vars(ReadFails) /\ WF_vars(Dispatch) /\ WF_vars(DispatchEvent)
    /\ WF_vars(DispatchAnswer) /\ WF_vars(Announce) /\ WF_vars(Monitor) /\ WF_vars(SessionReads)
    /\ WF_vars(Wake) /\ WF_vars(ConnectFails) /\ WF_vars(Relayed)
    /\ SF_vars(Connected) /\ SF_vars(TakeEvent) /\ SF_vars(TakeCommand) /\ SF_vars(Sent)

LiveSpec == Spec /\ Fairness

-----------------------------------------------------------------------------
(* Properties.                                                               *)

TypeOK ==
    /\ server \in Server /\ cmds \in Seq(Blob \cup Server \cup {"quit"})
    /\ loop \in {"connect", "select", "send", "relay", "sleep", "off"}
    /\ msg \in Blob \cup {"quit", Note, None} /\ on \in {"this", "other", "none"}
    /\ sock \in {"none", "up", "cut"} /\ tasks \subseteq Task
    /\ out \in Seq(Blob \cup {Note}) /\ Len(out) <= Cap /\ inq \in 0 .. Cap + 1
    /\ todo \in Sends /\ evs \in Seq({"event", "disconnected"}) /\ Len(evs) <= Cap
    /\ listening \in BOOLEAN /\ told \in BOOLEAN /\ relay \in -1 .. Cap
    /\ given \subseteq Blob /\ arrived \subseteq given

(* A message stored in the history as sent reaches the server it was given   *)
(* to, or is still on its way there, unless that connection breaks: leaving  *)
(* the connection for another server, or quitting the loop, loses none.      *)
QueuedUntilCut ==
    \A b \in given :
        \/ b \in arrived
        \/ Runs("write") /\ b \in Range(out)
        \/ sock = "cut"

(* What makes QueuedUntilCut inductive: orchestrate hands messages only to a  *)
(* connection that was made, whose write_loop lasts as long as the socket,   *)
(* and the blobs on the out channel are those it was given.                  *)
LinkInv ==
    /\ sock = "none" => on # "this" /\ given = {}
    /\ sock = "up" => Runs("write")
    /\ Range(out) \cap Blob \subseteq given

Using == on = "this" /\ loop \in {"select", "send", "relay"}

(* A broken connection is noticed: orchestrate does not go on using it for   *)
(* ever, whatever the channels between its tasks hold.                       *)
LossNoticed == sock = "cut" ~> ~Using

(* The tasks of a broken connection all end, also when orchestrate has left  *)
(* it: no chain of waiting for room in one another's channels keeps one.     *)
LostTasksEnd == sock = "cut" ~> tasks = {}

(* Every command is carried out, however full the channels are and however   *)
(* slow the session that relayed data is waiting for, as long as the server  *)
(* can be reached at times.                                                  *)
CommandsHandled ==
    \A x \in Blob \cup Server : x \in Range(cmds) ~> (x \notin Range(cmds) \/ loop = "off")

(* "server [host:port]  show, or change + persist, the relay address"        *)
(* (sechat-cli.rs:247): a change of the server takes effect, in particular   *)
(* when the configured one cannot be reached.                                *)
ServerChangeTakesEffect ==
    \A s \in Server : s \in Range(cmds) ~> (server = s \/ loop = "off")
=============================================================================
