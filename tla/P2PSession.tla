----------------------------- MODULE P2PSession -----------------------------
(***************************************************************************)
(* The peer-to-peer protocol of crates/p2p between the two ends of one     *)
(* contact: hole punching, the signed Init exchange (direct, then over the *)
(* relay), and the encrypted session with its reader and writer tasks.     *)
(*                                                                         *)
(* A punch brokered by the server starts at most one connect attempt at    *)
(* each end; attempt n of peer p is the session <<p, n>>.  Attempts of one *)
(* peer never overlap (the `connecting` reservation of crates/client, see  *)
(* module Connections), but the reader of an earlier session may still run *)
(* beside a later attempt.                                                 *)
(*                                                                         *)
(* The network is the set of all frames ever sent.  Receiving does not     *)
(* remove a frame, and no frame has to be received: frames are lost,       *)
(* duplicated, reordered and delayed at will, within the 120 seconds in    *)
(* which frame_is_fresh accepts them (a stale frame is a lost one).        *)
(* Resending a ping or an Init therefore changes nothing.  Heartbeats only *)
(* postpone the idle timeout, which here may fire at any time.             *)
(***************************************************************************)
EXTENDS Integers, Sequences

CONSTANTS
    PeerA,      \* the peer whose public key is the greater one (am_i_first)
    PeerB,
    Punch,      \* the punches the server brokers (their timestamps)
    Text,       \* message texts
    MaxChat,    \* bound on the messages of one session
    RelayRouted \* whether inbound RelayData reaches a relay handshake

ASSUME PeersDiffer == PeerA # PeerB
ASSUME BoundIsNat == MaxChat \in Nat
ASSUME RelayRoutedIsBool == RelayRouted \in BOOLEAN

Peer == {PeerA, PeerB}
Session == Peer \X Punch
Other(p) == IF p = PeerA THEN PeerB ELSE PeerA

VARIABLES
    phase,      \* progress of each connect attempt
    via,        \* transport of each attempt: the UDP socket or the relay
    key,        \* session key of each session ({} before the handshake)
    reader,     \* the reader task of each session
    writer,     \* the writer task of each session
    counter,    \* counter of the last chat frame the writer sent
    last,       \* last_counter of the reader
    sent,       \* history: the texts the writer sent
    delivered,  \* history: what the reader handed to the application
    net         \* every frame sent so far

vars == <<phase, via, key, reader, writer, counter, last, sent, delivered, net>>

-----------------------------------------------------------------------------
(* Keys.  generate_x25519 gives every attempt an ephemeral of its own.  Two  *)
(* ends that hold each other's ephemeral derive the same secret, so a        *)
(* session key is the set of the two ephemerals; a directional key adds the  *)
(* label of the sender's direction.                                          *)

StaticEphemeral(s) == <<s[1], CHOOSE n \in Punch : TRUE>>     \* mutant
Ephemeral(s) == s

ZeroRemote(s, remote) == {Ephemeral(s), <<Other(s[1]), 0>>}  \* mutant
derive_session_key(s, remote) == {Ephemeral(s), remote}

SharedLabel(p) == "a2b"                         \* mutant: one key for both ways
SendLabel(p) == IF p = PeerA THEN "a2b" ELSE "b2a"

SendKey(s) == [secret |-> key[s], label |-> SendLabel(s[1])]
RecvKey(s) == [secret |-> key[s], label |-> SendLabel(Other(s[1]))]

(* Frames.  Every frame is signed by its sender: only frames a peer really   *)
(* sent pass PeerMessage::verify, so `from` is authentic.  A chat frame      *)
(* names the key it is encrypted under; only the holder of that key reads    *)
(* it.  End frames carry nothing that tells one session from another.        *)
Ping(s) == [type |-> "ping", from |-> s[1], stamp |-> s[2]]
InitFrame(s, t) == [type |-> "init", from |-> s[1], via |-> t, ephermal |-> Ephemeral(s)]
ChatFrame(s, n, text) ==
    [type |-> "chat", from |-> s[1], via |-> via[s], key |-> SendKey(s),
     counter |-> n, text |-> text]
EndFrame(s) == [type |-> "end", from |-> s[1], via |-> via[s]]

Transport == {"direct", "relay"}
Secret == SUBSET Session
DirectionalKey == [secret : Secret, label : {"a2b", "b2a"}]
Chat == [type : {"chat"}, from : Peer, via : Transport, key : DirectionalKey,
         counter : Nat, text : Text]
Frame ==
    [type : {"ping"}, from : Peer, stamp : Punch]
      \cup [type : {"init"}, from : Peer, via : Transport, ephermal : Session]
      \cup Chat
      \cup [type : {"end"}, from : Peer, via : Transport]

-----------------------------------------------------------------------------
Init ==
    /\ phase = [s \in Session |-> "none"]
    /\ via = [s \in Session |-> "direct"]
    /\ key = [s \in Session |-> {}]
    /\ reader = [s \in Session |-> "off"]
    /\ writer = [s \in Session |-> "off"]
    /\ counter = [s \in Session |-> 0]
    /\ last = [s \in Session |-> -1]
    /\ sent = [s \in Session |-> <<>>]
    /\ delivered = [s \in Session |-> <<>>]
    /\ net = {}

Connecting(s) == phase[s] \in {"punch", "handshake"}

(* connect_session holds the reservation of its peer from here to the end of *)
(* the handshake.  The attempts of a peer may run in any order (each is a    *)
(* task of its own), and some never run.                                     *)
StartAttempt(s) ==
    /\ phase[s] = "none"
    /\ \A t \in Session : t[1] = s[1] => ~Connecting(t)
    /\ phase' = [phase EXCEPT ![s] = "punch"]
    /\ UNCHANGED <<via, key, reader, writer, counter, last, sent, delivered, net>>

(* The ticker of punch_hole.                                                 *)
PunchTick(s) ==
    /\ phase[s] = "punch"
    /\ Ping(s) \notin net
    /\ net' = net \cup {Ping(s)}
    /\ UNCHANGED <<phase, via, key, reader, writer, counter, last, sent, delivered>>

(* Begin initial_handshake or relay_handshake over transport t: the first    *)
(* Init leaves before the wait for the peer's.                               *)
BeginHandshake(s, t) ==
    /\ phase' = [phase EXCEPT ![s] = "handshake"]
    /\ via' = [via EXCEPT ![s] = t]
    /\ net' = net \cup {InitFrame(s, t)}
    /\ UNCHANGED <<key, reader, writer, counter, last, sent, delivered>>

PunchRecv(s) ==
    /\ phase[s] = "punch"
    /\ Ping(<<Other(s[1]), s[2]>>) \in net
    /\ BeginHandshake(s, "direct")

(* The 20 second deadline, or a receive error: fall back to the relay.       *)
PunchTimeout(s) ==
    /\ phase[s] = "punch"
    /\ BeginHandshake(s, "relay")

(* A verified, fresh Init from the peer completes the handshake, and         *)
(* start_session spawns the reader and the writer.                           *)
HandshakeRecv(s) ==
    /\ phase[s] = "handshake"
    /\ via[s] = "direct" \/ RelayRouted
    /\ \E f \in net :
          /\ f.type = "init" /\ f.from = Other(s[1]) /\ f.via = via[s]
          /\ key' = [key EXCEPT ![s] = derive_session_key(s, f.ephermal)]
    /\ phase' = [phase EXCEPT ![s] = "session"]
    /\ reader' = [reader EXCEPT ![s] = "open"]
    /\ writer' = [writer EXCEPT ![s] = "open"]
    /\ UNCHANGED <<via, counter, last, sent, delivered, net>>

DirectTimeout(s) ==
    /\ phase[s] = "handshake" /\ via[s] = "direct"
    /\ BeginHandshake(s, "relay")

RelayTimeout(s) ==
    /\ phase[s] = "handshake" /\ via[s] = "relay"
    /\ phase' = [phase EXCEPT ![s] = "failed"]
    /\ UNCHANGED <<via, key, reader, writer, counter, last, sent, delivered, net>>

-----------------------------------------------------------------------------
(* The writer task.                                                          *)

SendChat(s, text) ==
    /\ writer[s] = "open"
    /\ counter[s] < MaxChat
    /\ counter' = [counter EXCEPT ![s] = @ + 1]
    /\ net' = net \cup {ChatFrame(s, counter[s] + 1, text)}
    /\ sent' = [sent EXCEPT ![s] = Append(@, text)]
    /\ UNCHANGED <<phase, via, key, reader, writer, last, delivered>>

(* Every sender of the outbound channel is gone (the SessionEntry was        *)
(* dropped): out_rx.recv returns None, the writer sends End and stops.       *)
CloseWriter(s) ==
    /\ writer[s] = "open"
    /\ writer' = [writer EXCEPT ![s] = "closed"]
    /\ net' = net \cup {EndFrame(s)}
    /\ UNCHANGED <<phase, via, key, reader, counter, last, sent, delivered>>

(* A send fails: the writer stops without an End, having used up a counter   *)
(* when the failure hit a chat frame.                                        *)
WriterError(s) ==
    /\ writer[s] = "open"
    /\ writer' = [writer EXCEPT ![s] = "closed"]
    /\ UNCHANGED <<phase, via, key, reader, counter, last, sent, delivered, net>>

(* The reader task: handle_inbound_frame on a frame of the peer.             *)

(* What a delivered frame is in the history: the session that made it is the *)
(* sender's half of the key.                                                 *)
Item(f) == [from |-> CHOOSE t \in f.key.secret : t[1] = f.from,
            pos |-> f.counter, text |-> f.text]

AcceptsReplay(s, f) == f.counter >= last[s] /\ f.key = RecvKey(s)   \* mutant
AcceptsAnyKey(s, f) == f.counter > last[s]                          \* mutant
AcceptsChat(s, f) ==
    /\ f.counter > last[s]
    /\ f.key = RecvKey(s)

(* Mutant: last_counter is the next counter expected.                        *)
RecvAhead(s) ==
    /\ reader[s] = "open"
    /\ \E f \in net :
          /\ f.type = "chat" /\ f.from = Other(s[1]) /\ f.via = via[s]
          /\ AcceptsChat(s, f)
          /\ last' = [last EXCEPT ![s] = f.counter + 1]
          /\ delivered' = [delivered EXCEPT ![s] = Append(@, Item(f))]
    /\ UNCHANGED <<phase, via, key, reader, writer, counter, sent, net>>

RecvChat(s) ==
    /\ reader[s] = "open"
    /\ \E f \in net :
          /\ f.type = "chat" /\ f.from = Other(s[1]) /\ f.via = via[s]
          /\ AcceptsChat(s, f)
          /\ last' = [last EXCEPT ![s] = f.counter]
          /\ delivered' = [delivered EXCEPT ![s] = Append(@, Item(f))]
    /\ UNCHANGED <<phase, via, key, reader, writer, counter, sent, net>>

RecvAnyEnd(s) ==                                \* mutant: the signer is not checked
    /\ reader[s] = "open"
    /\ \E f \in net : f.type = "end" /\ f.via = via[s]
    /\ reader' = [reader EXCEPT ![s] = "ended"]
    /\ UNCHANGED <<phase, via, key, writer, counter, last, sent, delivered, net>>

RecvEnd(s) ==
    /\ reader[s] = "open"
    /\ \E f \in net : f.type = "end" /\ f.from = Other(s[1]) /\ f.via = via[s]
    /\ reader' = [reader EXCEPT ![s] = "ended"]
    /\ UNCHANGED <<phase, via, key, writer, counter, last, sent, delivered, net>>

(* SESSION_IDLE_TIMEOUT_SECS without a datagram, or a receive error.         *)
IdleTimeout(s) ==
    /\ reader[s] = "open"
    /\ reader' = [reader EXCEPT ![s] = "idle"]
    /\ UNCHANGED <<phase, via, key, writer, counter, last, sent, delivered, net>>

Next ==
    \E s \in Session :
        \/ StartAttempt(s) \/ PunchTick(s) \/ PunchRecv(s) \/ PunchTimeout(s)
        \/ HandshakeRecv(s) \/ DirectTimeout(s) \/ RelayTimeout(s)
        \/ \E text \in Text : SendChat(s, text)
        \/ CloseWriter(s) \/ WriterError(s)
        \/ RecvChat(s) \/ RecvEnd(s) \/ IdleTimeout(s)

Spec == Init /\ [][Next]_vars

-----------------------------------------------------------------------------
Channel == INSTANCE LossyChannel WITH got <- delivered

(* Types.  The counters stay in range: no frame and no last_counter is ever  *)
(* ahead of MaxChat.                                                         *)
TypeOK ==
    /\ phase \in [Session -> {"none", "punch", "handshake", "session", "failed"}]
    /\ via \in [Session -> Transport]
    /\ key \in [Session -> Secret]
    /\ reader \in [Session -> {"off", "open", "ended", "idle"}]
    /\ writer \in [Session -> {"off", "open", "closed"}]
    /\ counter \in [Session -> 0..MaxChat]
    /\ last \in [Session -> -1..MaxChat]
    /\ sent \in [Session -> Seq(Text)]
    /\ delivered \in [Session -> Seq(Channel!Item)]
    /\ net \subseteq Frame

ChatFrames == {f \in net : f.type = "chat"}

(* No nonce is used twice.  encrypt_message_for_chat derives the nonce from  *)
(* the directional key and the counter alone, so over all attempts and both  *)
(* directions two chat frames with the same key and counter must be the same *)
(* frame, and no two writers may send under the same key.                    *)
NonceUnique ==
    /\ \A f, g \in ChatFrames : f.key = g.key /\ f.counter = g.counter => f = g
    /\ \A s, t \in Session :
          sent[s] # <<>> /\ sent[t] # <<>> /\ SendKey(s) = SendKey(t) => s = t

(* What a reader hands to the application was sent to it: a session that     *)
(* delivered a message shares its key with exactly one session of the peer,  *)
(* whose writer has sent at least that many messages.                        *)
DeliveredByCounterpart ==
    \A s \in Session : delivered[s] # <<>> =>
        \E t \in Session :
            /\ t[1] = Other(s[1])
            /\ key[t] = key[s]
            /\ last[s] <= counter[t]
            /\ \A u \in Session : key[u] = key[s] => u \in {s, t}

(* The session layer implements LossyChannel: whatever the network does and  *)
(* however often the two ends reconnect, a session hands out texts of one    *)
(* session of the peer only, unaltered, in order and at most once, and no    *)
(* two sessions hand out the texts of the same one.                          *)
ImplementsChannel == Channel!Spec

(* A reader that handle_inbound_frame stops on an End stops because the peer *)
(* has ended a session on that transport, though not always this one: no End *)
(* of its own side, and none that was never sent, closes a session.          *)
EndedByPeer ==
    \A s \in Session : reader[s] = "ended" =>
        \E t \in Session :
            t[1] = Other(s[1]) /\ via[t] = via[s] /\ writer[t] = "closed"

(* A reader that stops on an End frame stops because the writer at the other *)
(* end of its own session stopped.  P2PStaleEnd shows that it need not.      *)
EndedByCounterpart ==
    \A s \in Session : reader[s] = "ended" =>
        \E t \in Session :
            t[1] = Other(s[1]) /\ key[t] = key[s] /\ writer[t] = "closed"

-----------------------------------------------------------------------------
(* The inductive invariant behind the properties above.                      *)

Established(s) == phase[s] = "session"

(* Nothing of a session exists before its handshake completes.               *)
IdleUntilSession ==
    \A s \in Session : ~Established(s) =>
        /\ key[s] = {} /\ reader[s] = "off" /\ writer[s] = "off"
        /\ sent[s] = <<>> /\ delivered[s] = <<>>

(* A session key joins the ephemeral of its session with one of the peer's.  *)
KeysPairPeers ==
    \A s \in Session : Established(s) =>
        \E t \in Session : t[1] = Other(s[1]) /\ key[s] = {s, t}

InitsCarryOwnEphemeral ==
    \A f \in net : f.type = "init" => f.ephermal[1] = f.from

CountersCountSent ==
    \A s \in Session : counter[s] = Len(sent[s])

(* Chat frame f was made by the writer of session t.                         *)
MadeBy(f, t) ==
    /\ Established(t)
    /\ f.from = t[1] /\ f.via = via[t] /\ f.key = SendKey(t)
    /\ f.counter \in 1..counter[t]
    /\ f.text = sent[t][f.counter]

ChatsHaveWriter ==
    \A f \in ChatFrames : \E t \in Session : MadeBy(f, t)

(* Item d of session s comes from the session that shares its key.           *)
FromCounterpart(s, d) ==
    /\ Established(d.from)
    /\ d.from[1] = Other(s[1]) /\ key[d.from] = key[s]
    /\ d.pos \in 1..last[s] /\ last[s] <= counter[d.from]
    /\ d.text = sent[d.from][d.pos]

DeliveredFromCounterpart ==
    \A s \in Session : \A i \in DOMAIN delivered[s] : FromCounterpart(s, delivered[s][i])

IndInv ==
    /\ TypeOK /\ IdleUntilSession /\ KeysPairPeers /\ InitsCarryOwnEphemeral
    /\ CountersCountSent /\ ChatsHaveWriter /\ DeliveredFromCounterpart

(* An End comes from a writer that has stopped; with EndedByPeer, inductive. *)
EndsHaveWriter ==
    \A f \in net : f.type = "end" =>
        \E t \in Session : t[1] = f.from /\ via[t] = f.via /\ writer[t] = "closed"
=============================================================================
