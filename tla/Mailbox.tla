------------------------------ MODULE Mailbox -------------------------------
(***************************************************************************)
(* How a client receives offline blobs (crates/serverclient): the drain of *)
(* pending blobs inside server_initial_handshake, the dispatch loop of the *)
(* live connection, the events channel both share with orchestrate, and    *)
(* the redelivery of what was not acknowledged on a later connection.      *)
(*                                                                         *)
(* The server is external: it keeps a blob until its AckBlob arrives,      *)
(* sends all it keeps to a new connection, followed by PendingBlobsEnd,    *)
(* and pushes later blobs as they come.  All blobs are of one sender, so   *)
(* they go to one chat.db, which sled lets only one holder open at a time. *)
(***************************************************************************)
EXTENDS Integers, Sequences, FiniteSets, SequencesExt

CONSTANTS
    Blob,       \* the blobs peers upload
    Poison,     \* those that process_blob rejects before it stores anything
    MaxConn,    \* bound on connections; the last one is never lost
    EventCap,   \* capacity of the events channel
    None,       \* no blob, no holder
    End,        \* PendingBlobsEnd
    Other       \* another user of chat.db: history(), or a session's messages

Conn == 1..MaxConn

ASSUME BlobsFinite == IsFiniteSet(Blob) /\ Poison \subseteq Blob
ASSUME NewValues == None \notin Blob \cup Conn /\ End \notin Blob /\ Other \notin Conn \cup {None}
ASSUME CapPositive == EventCap \in Nat \ {0} /\ MaxConn \in Nat \ {0}

VARIABLES
    arrived,    \* history: blobs uploaded so far
    mailbox,    \* blobs the server keeps
    phase,      \* per connection: new, drain, live, old, failed
    cut,        \* connections whose socket is gone
    wire,       \* per connection: messages on their way to the handler
    acks,       \* per connection: AckBlobs on their way to the server
    cur,        \* per connection: the blob its handler works on
    step,       \* per connection: where in the handling it is
    events,     \* per connection: length of its events channel
    db,         \* who has chat.db open
    stored,     \* blobs in chat.db
    failed      \* history: blobs whose storing failed at least once

vars == <<arrived, mailbox, phase, cut, wire, acks, cur, step, events, db, stored, failed>>

Init ==
    /\ arrived = {} /\ mailbox = {}
    /\ phase = [c \in Conn |-> "new"]
    /\ cut = {}
    /\ wire = [c \in Conn |-> <<>>]
    /\ acks = [c \in Conn |-> {}]
    /\ cur = [c \in Conn |-> None]
    /\ step = [c \in Conn |-> "recv"]
    /\ events = [c \in Conn |-> 0]
    /\ db = None
    /\ stored = {} /\ failed = {}

-----------------------------------------------------------------------------
(* The server and the network.                                               *)

Online(c) == phase[c] \in {"drain", "live"} /\ c \notin cut

(* A peer without a live session sends the blob; it is pushed to a client    *)
(* that is online.                                                           *)
Upload(b) ==
    /\ b \notin arrived
    /\ arrived' = arrived \cup {b}
    /\ mailbox' = mailbox \cup {b}
    /\ wire' = [c \in Conn |-> IF Online(c) THEN Append(wire[c], b) ELSE wire[c]]
    /\ UNCHANGED <<phase, cut, acks, cur, step, events, db, stored, failed>>

ServerAck(c, b) ==
    /\ b \in acks[c]
    /\ acks' = [acks EXCEPT ![c] = @ \ {b}]
    /\ mailbox' = mailbox \ {b}
    /\ UNCHANGED <<arrived, phase, cut, wire, cur, step, events, db, stored, failed>>

(* The socket is lost: acks on their way are, and so is what the client has  *)
(* not yet read; some of it it has.                                          *)
Cut(c) ==
    /\ Online(c) /\ c < MaxConn
    /\ cut' = cut \cup {c}
    /\ acks' = [acks EXCEPT ![c] = {}]
    /\ \E n \in 0..Len(wire[c]) : wire' = [wire EXCEPT ![c] = SubSeq(@, 1, n)]
    /\ UNCHANGED <<arrived, mailbox, phase, cur, step, events, db, stored, failed>>

-----------------------------------------------------------------------------
(* The orchestrate loop.                                                     *)

(* run_client: connect, authenticate, queue the Authenticated event.         *)
Connect(c) ==
    /\ phase[c] = "new"
    /\ \A d \in 1..(c - 1) : phase[d] \in {"old", "failed"}
    /\ phase' = [phase EXCEPT ![c] = "drain"]
    /\ \E q \in SetToSeqs(mailbox) : wire' = [wire EXCEPT ![c] = Append(q, End)]
    /\ events' = [events EXCEPT ![c] = 1]
    /\ UNCHANGED <<arrived, mailbox, cut, acks, cur, step, db, stored, failed>>

(* The handshake of a lost connection returns an error: from receive_message *)
(* or from ack_blob, never while it waits for room in the events channel.    *)
HandshakeFails(c) ==
    /\ phase[c] = "drain" /\ c \in cut /\ step[c] \in {"recv", "ack"}
    /\ phase' = [phase EXCEPT ![c] = "failed"]
    /\ wire' = [wire EXCEPT ![c] = <<>>]
    /\ cur' = [cur EXCEPT ![c] = None]
    /\ step' = [step EXCEPT ![c] = "recv"]
    /\ UNCHANGED <<arrived, mailbox, cut, acks, events, db, stored, failed>>

(* The loop takes an event, which it only does once run_client has returned. *)
HandleEvent(c) ==
    /\ phase[c] = "live" /\ events[c] > 0
    /\ events' = [events EXCEPT ![c] = @ - 1]
    /\ UNCHANGED <<arrived, mailbox, phase, cut, wire, acks, cur, step, db, stored, failed>>

(* The loop reads Disconnected and drops its receiver.  The dispatch loop of *)
(* the lost connection goes on with what was received.                       *)
Disconnected(c) ==
    /\ phase[c] = "live" /\ c \in cut
    /\ phase' = [phase EXCEPT ![c] = "old"]
    /\ UNCHANGED <<arrived, mailbox, cut, wire, acks, cur, step, events, db, stored, failed>>

(* The process dies and is started again; chat.db survives.                  *)
Crash(c) ==
    /\ phase[c] \in {"drain", "live"} /\ c < MaxConn
    /\ phase' = [d \in Conn |-> IF phase[d] = "new" THEN "new" ELSE "failed"]
    /\ cut' = cut \cup {c}
    /\ wire' = [d \in Conn |-> <<>>]
    /\ acks' = [d \in Conn |-> {}]
    /\ cur' = [d \in Conn |-> None]
    /\ step' = [d \in Conn |-> "recv"]
    /\ db' = None
    /\ UNCHANGED <<arrived, mailbox, events, stored, failed>>

-----------------------------------------------------------------------------
(* The handling of blobs: the drain loop of the handshake and the dispatch   *)
(* loop take the same steps.                                                 *)

Receiving(c) == phase[c] \in {"drain", "live", "old"} /\ step[c] = "recv" /\ wire[c] # <<>>

DrainEnds(c) ==
    /\ Receiving(c) /\ phase[c] = "drain" /\ Head(wire[c]) = End
    /\ phase' = [phase EXCEPT ![c] = "live"]
    /\ wire' = [wire EXCEPT ![c] = Tail(@)]
    /\ UNCHANGED <<arrived, mailbox, cut, acks, cur, step, events, db, stored, failed>>

AckOnReceipt(c) ==                              \* mutant: ack before storing
    /\ Receiving(c) /\ Head(wire[c]) \in Blob
    /\ wire' = [wire EXCEPT ![c] = Tail(@)]
    /\ cur' = [cur EXCEPT ![c] = Head(wire[c])]
    /\ step' = [step EXCEPT ![c] = "process"]
    /\ acks' = [acks EXCEPT ![c] = IF c \in cut THEN @ ELSE @ \cup {Head(wire[c])}]
    /\ UNCHANGED <<arrived, mailbox, phase, cut, events, db, stored, failed>>

Receive(c) ==
    /\ Receiving(c) /\ Head(wire[c]) \in Blob
    /\ wire' = [wire EXCEPT ![c] = Tail(@)]
    /\ cur' = [cur EXCEPT ![c] = Head(wire[c])]
    /\ step' = [step EXCEPT ![c] = "process"]
    /\ UNCHANGED <<arrived, mailbox, phase, cut, acks, events, db, stored, failed>>

AbortOnPoison(c) ==                             \* mutant: the error is returned
    /\ step[c] = "process" /\ cur[c] \in Poison
    /\ phase' = [phase EXCEPT ![c] = IF @ = "drain" THEN "failed" ELSE @]
    /\ step' = [step EXCEPT ![c] = "recv"]
    /\ cur' = [cur EXCEPT ![c] = None]
    /\ UNCHANGED <<arrived, mailbox, cut, wire, acks, events, db, stored, failed>>

(* Undecryptable, malformed, too old, of an unknown peer, badly signed.      *)
Reject(c) ==
    /\ step[c] = "process" /\ cur[c] \in Poison
    /\ step' = [step EXCEPT ![c] = "ack"]
    /\ UNCHANGED <<arrived, mailbox, phase, cut, wire, acks, cur, events, db, stored, failed>>

(* load_peer_chat_file.                                                      *)
OpenDb(c) ==
    /\ step[c] = "process" /\ cur[c] \notin Poison
    /\ db = None
    /\ db' = c
    /\ step' = [step EXCEPT ![c] = "insert"]
    /\ UNCHANGED <<arrived, mailbox, phase, cut, wire, acks, cur, events, stored, failed>>

(* Someone else has chat.db open: ChatStorageFailed, and the blob is acked   *)
(* like any other that fails.                                                *)
OpenDbFails(c) ==
    /\ step[c] = "process" /\ cur[c] \notin Poison
    /\ db # None
    /\ failed' = failed \cup {cur[c]}
    /\ step' = [step EXCEPT ![c] = "ack"]
    /\ UNCHANGED <<arrived, mailbox, phase, cut, wire, acks, cur, events, db, stored>>

InsertDb(c) ==
    /\ step[c] = "insert"
    /\ stored' = stored \cup {cur[c]}
    /\ db' = None
    /\ step' = [step EXCEPT ![c] = "notify"]
    /\ UNCHANGED <<arrived, mailbox, phase, cut, wire, acks, cur, events, failed>>

NotifyAtOnce(c) ==                              \* mutant: the capacity is ignored
    /\ step[c] = "notify"
    /\ events' = [events EXCEPT ![c] = IF phase[c] = "old" THEN @ ELSE @ + 1]
    /\ step' = [step EXCEPT ![c] = "ack"]
    /\ UNCHANGED <<arrived, mailbox, phase, cut, wire, acks, cur, db, stored, failed>>

(* events.send waits for room; with the receiver gone it fails at once.      *)
Notify(c) ==
    /\ step[c] = "notify"
    /\ phase[c] = "old" \/ events[c] < EventCap
    /\ events' = [events EXCEPT ![c] = IF phase[c] = "old" THEN @ ELSE @ + 1]
    /\ step' = [step EXCEPT ![c] = "ack"]
    /\ UNCHANGED <<arrived, mailbox, phase, cut, wire, acks, cur, db, stored, failed>>

Ack(c) ==
    /\ step[c] = "ack"
    /\ acks' = [acks EXCEPT ![c] = IF c \in cut THEN @ ELSE @ \cup {cur[c]}]
    /\ cur' = [cur EXCEPT ![c] = None]
    /\ step' = [step EXCEPT ![c] = "recv"]
    /\ UNCHANGED <<arrived, mailbox, phase, cut, wire, events, db, stored, failed>>

OtherOpens ==
    /\ db = None
    /\ db' = Other
    /\ UNCHANGED <<arrived, mailbox, phase, cut, wire, acks, cur, step, events, stored, failed>>

OtherCloses ==
    /\ db = Other
    /\ db' = None
    /\ UNCHANGED <<arrived, mailbox, phase, cut, wire, acks, cur, step, events, stored, failed>>

-----------------------------------------------------------------------------
Handler(c) ==
    \/ DrainEnds(c) \/ Receive(c) \/ Reject(c) \/ OpenDb(c) \/ OpenDbFails(c)
    \/ InsertDb(c) \/ Notify(c) \/ Ack(c)

Loop(c) == Connect(c) \/ HandshakeFails(c) \/ HandleEvent(c) \/ Disconnected(c)

Next ==
    \/ \E b \in Blob : Upload(b)
    \/ \E c \in Conn : \/ Handler(c) \/ Loop(c) \/ Cut(c) \/ Crash(c)
                       \/ \E b \in Blob : ServerAck(c, b)
    \/ OtherOpens \/ OtherCloses

(* Every task that can run does, the client keeps reconnecting, and acks     *)
(* reach the server while the connection lasts.                              *)
Fairness ==
    /\ \A c \in Conn : WF_vars(Handler(c)) /\ WF_vars(Loop(c))
    /\ \A c \in Conn, b \in Blob : WF_vars(ServerAck(c, b))

Spec == Init /\ [][Next]_vars
LiveSpec == Spec /\ Fairness
-----------------------------------------------------------------------------
Message == Blob \cup {End}

TypeOK ==
    /\ arrived \subseteq Blob /\ mailbox \subseteq Blob
    /\ phase \in [Conn -> {"new", "drain", "live", "old", "failed"}]
    /\ cut \subseteq Conn
    /\ wire \in [Conn -> Seq(Message)]
    /\ acks \in [Conn -> SUBSET Blob]
    /\ cur \in [Conn -> Blob \cup {None}]
    /\ step \in [Conn -> {"recv", "process", "insert", "notify", "ack"}]
    /\ events \in [Conn -> 0..EventCap]
    /\ db \in Conn \cup {None, Other}
    /\ stored \subseteq Blob /\ failed \subseteq Blob

(* Handled: the blob is in chat.db, or cannot be, or storing it failed.      *)
Handled == stored \cup failed \cup Poison

(* The server deletes a blob only after a handler is done with it, across    *)
(* lost connections, crashes, redelivery and handlers of a lost connection   *)
(* that run beside the next one.                                             *)
DeletedWasHandled == arrived \ mailbox \subseteq Handled

(* The handshake waits for room in the channel it alone could make room in.  *)
DrainStuck(c) == phase[c] = "drain" /\ step[c] = "notify" /\ events[c] = EventCap

(* No blob stays in the mailbox for ever, poison included, provided the      *)
(* connection finally lasts.  The one obstacle is a drain that has filled    *)
(* the events channel.                                                       *)
MailboxEmpties ==
    \A b \in Blob : b \in mailbox ~> (b \notin mailbox \/ \E c \in Conn : DrainStuck(c))

(* Store in chat.db, then AckBlob, then the server deletes the blob.         *)
DeletedWasStored == arrived \ mailbox \subseteq stored \cup Poison

(* The drain of the pending blobs ends.                                      *)
DrainCompletes == \A c \in Conn : phase[c] = "drain" ~> phase[c] # "drain"

-----------------------------------------------------------------------------
(* The inductive invariant behind DeletedWasHandled: an ack is sent for a    *)
(* handled blob only, and a handler that is past the storing has handled the *)
(* blob it holds.                                                            *)
AcksAreHandled == \A c \in Conn : acks[c] \subseteq Handled

HandlerHoldsBlob ==
    \A c \in Conn : /\ step[c] # "recv" => cur[c] \in Blob
                    /\ step[c] \in {"notify", "ack"} => cur[c] \in Handled

IndInv == TypeOK /\ DeletedWasHandled /\ AcksAreHandled /\ HandlerHoldsBlob
=============================================================================
