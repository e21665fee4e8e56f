-------------------------- MODULE P2PSessionProofs --------------------------
(***************************************************************************)
(* Proofs about P2PSession, for any number of punches, texts and messages. *)
(***************************************************************************)
EXTENDS P2PSession, TLAPS

(* The two peers: each is the other's other, and their send labels differ    *)
(* (am_i_first is true at exactly one end).                                  *)
LEMMA OtherPeer ==
    ASSUME NEW p \in Peer
    PROVE  /\ Other(p) \in Peer
           /\ Other(p) # p
           /\ Other(Other(p)) = p
           /\ \A q \in Peer : q # p => q = Other(p)
           /\ \A q \in Peer : SendLabel(p) = SendLabel(q) => p = q
BY PeersDiffer DEF Peer, Other, SendLabel

(* A session is a peer and a punch, and the punch has a session at the other *)
(* end too (connect_session runs once at each end of a brokered punch).      *)
LEMMA SessionPeer ==
    ASSUME NEW s \in Session
    PROVE  /\ s[1] \in Peer
           /\ s[2] \in Punch
           /\ s = <<s[1], s[2]>>
           /\ Other(s[1]) \in Peer
           /\ <<Other(s[1]), s[2]>> \in Session
BY OtherPeer DEF Session

(* What the histories sent and delivered rely on: appending keeps every      *)
(* earlier element in place and adds one.                                    *)
LEMMA AppendFacts ==
    ASSUME NEW S, NEW q \in Seq(S), NEW e \in S
    PROVE  /\ Append(q, e) \in Seq(S)
           /\ Len(q) \in Nat
           /\ Len(Append(q, e)) = Len(q) + 1
           /\ Append(q, e)[Len(q) + 1] = e
           /\ DOMAIN q = 1..Len(q)
           /\ DOMAIN Append(q, e) = 1..(Len(q) + 1)
           /\ \A n \in 1..Len(q) : Append(q, e)[n] = q[n]
OBVIOUS

(* The frames a step may add to the network have the types of Frame.         *)
LEMMA FrameTypes ==
    ASSUME TypeOK, NEW s \in Session
    PROVE  /\ Ping(s) \in Frame
           /\ \A t \in Transport : InitFrame(s, t) \in Frame
           /\ \A n \in 1..MaxChat, text \in Text : ChatFrame(s, n, text) \in Frame
           /\ EndFrame(s) \in Frame
<1>1. s[1] \in Peer /\ s[2] \in Punch
  BY SessionPeer
<1>2. Ping(s) \in Frame
  BY <1>1 DEF Ping, Frame
<1>3. ASSUME NEW t \in Transport PROVE InitFrame(s, t) \in Frame
  BY <1>1 DEF InitFrame, Frame, Ephemeral
<1>4. ASSUME NEW n \in 1..MaxChat, NEW text \in Text
      PROVE  ChatFrame(s, n, text) \in Frame
  <2>1. SendKey(s) \in DirectionalKey
    BY DEF SendKey, SendLabel, DirectionalKey, TypeOK
  <2>2. via[s] \in Transport /\ n \in Nat
    BY BoundIsNat DEF TypeOK
  <2> QED  BY <1>1, <2>1, <2>2 DEF ChatFrame, Frame, Chat
<1>5. EndFrame(s) \in Frame
  BY <1>1 DEF EndFrame, Frame, TypeOK
<1> QED  BY <1>2, <1>3, <1>4, <1>5

(* A received frame has the fields of its type.                              *)
LEMMA FrameFields ==
    ASSUME NEW f \in Frame
    PROVE  /\ f.type = "init" => f.ephermal \in Session /\ f.from \in Peer
           /\ f.type = "chat" => f \in Chat
BY DEF Frame, Chat

-----------------------------------------------------------------------------
(* Lemmas about keys in a state of the invariant.                            *)

(* No two established sessions send under the same directional key: equal    *)
(* labels put both at one end, and each key names that end's own ephemeral.  *)
LEMMA SendKeyInjective ==
    ASSUME KeysPairPeers, NEW s \in Session, NEW t \in Session,
           Established(s), Established(t), SendKey(s) = SendKey(t)
    PROVE  s = t
<1>1. s[1] = t[1] /\ key[s] = key[t]
  <2>1. SendLabel(s[1]) = SendLabel(t[1]) /\ key[s] = key[t]
    BY DEF SendKey
  <2> QED  BY <2>1, OtherPeer, SessionPeer
<1>2. PICK u \in Session : u[1] = Other(s[1]) /\ key[s] = {s, u}
  BY DEF KeysPairPeers
<1>3. PICK v \in Session : v[1] = Other(t[1]) /\ key[t] = {t, v}
  BY DEF KeysPairPeers
<1>4. s \in {t, v}
  BY <1>1, <1>2, <1>3
<1> QED  BY <1>1, <1>3, <1>4, OtherPeer, SessionPeer

(* The session whose frames s can decrypt is the other half of its key.      *)
LEMMA RecvKeyCounterpart ==
    ASSUME KeysPairPeers, NEW s \in Session, NEW t \in Session,
           Established(s), Established(t), SendKey(t) = RecvKey(s)
    PROVE  t[1] = Other(s[1]) /\ key[t] = key[s] /\ key[s] = {s, t}
<1>1. t[1] = Other(s[1]) /\ key[t] = key[s]
  <2>1. SendLabel(t[1]) = SendLabel(Other(s[1])) /\ key[t] = key[s]
    BY DEF SendKey, RecvKey
  <2> QED  BY <2>1, OtherPeer, SessionPeer
<1>2. PICK u \in Session : u[1] = Other(s[1]) /\ key[s] = {s, u}
  BY DEF KeysPairPeers
<1>3. PICK v \in Session : v[1] = Other(t[1]) /\ key[t] = {t, v}
  BY DEF KeysPairPeers
<1>4. t = u
  <2>1. t # s
    BY <1>1, OtherPeer, SessionPeer
  <2>2. t \in {s, u}
    BY <1>1, <1>2, <1>3
  <2> QED  BY <2>1, <2>2
<1> QED  BY <1>1, <1>2, <1>4

(* Two sessions of one peer that share a key are the same session.           *)
LEMMA KeyInjective ==
    ASSUME KeysPairPeers, NEW s \in Session, NEW t \in Session,
           Established(s), Established(t), s[1] = t[1], key[s] = key[t]
    PROVE  s = t
BY SendKeyInjective DEF SendKey

(* The item a delivered frame becomes names the session that made the frame. *)
LEMMA ItemSender ==
    ASSUME KeysPairPeers, NEW s \in Session, NEW t \in Session, NEW f,
           Established(s), MadeBy(f, t), f.key = RecvKey(s)
    PROVE  /\ t[1] = Other(s[1]) /\ key[t] = key[s] /\ key[s] = {s, t}
           /\ Item(f) = [from |-> t, pos |-> f.counter, text |-> f.text]
<1>1. t[1] = Other(s[1]) /\ key[t] = key[s] /\ key[s] = {s, t}
  BY RecvKeyCounterpart DEF MadeBy
<1>2. f.key.secret = {s, t} /\ f.from = t[1]
  BY <1>1 DEF MadeBy, SendKey
<1>3. s[1] # t[1]
  BY <1>1, OtherPeer, SessionPeer
<1>4. (CHOOSE u \in f.key.secret : u[1] = f.from) = t
  BY <1>2, <1>3
<1> QED  BY <1>1, <1>4 DEF Item

(* What a reader handed out names a session, a position and a text.          *)
LEMMA ItemType ==
    ASSUME TypeOK, NEW s \in Session, NEW i \in DOMAIN delivered[s]
    PROVE  /\ delivered[s][i] \in Channel!Item
           /\ delivered[s][i].from \in Session
           /\ delivered[s][i].pos \in Nat
<1>1. delivered[s] \in Seq(Channel!Item)
  BY DEF TypeOK
<1>2. delivered[s][i] \in Channel!Item
  BY <1>1
<1> QED  BY <1>2 DEF Channel!Item

-----------------------------------------------------------------------------
(* A step that moves no key, counter or history, starts no session and adds  *)
(* only frames that are neither chats nor foreign Inits keeps the invariant. *)
Quiet(N) ==
    /\ TypeOK'
    /\ UNCHANGED <<key, counter, last, sent, delivered>>
    /\ net' = net \cup N
    /\ \A f \in N : f.type # "chat" /\ (f.type = "init" => f.ephermal[1] = f.from)
    /\ \A s \in Session : Established(s)' <=> Established(s)
    /\ \A s \in Session : Established(s) => via'[s] = via[s]
    /\ \A s \in Session : ~Established(s) => reader'[s] = reader[s] /\ writer'[s] = writer[s]

(* Steps of the punch, the handshakes and the closing of a session, which    *)
(* send at most one frame that is no chat frame, keep the invariant.         *)
LEMMA QuietStep ==
    ASSUME IndInv, NEW N, Quiet(N)
    PROVE  IndInv'
<1> USE DEF Quiet
<1>1. IdleUntilSession'
  BY DEF IndInv, IdleUntilSession
<1>2. KeysPairPeers'
  BY DEF IndInv, KeysPairPeers
<1>3. InitsCarryOwnEphemeral'
  BY DEF IndInv, InitsCarryOwnEphemeral
<1>4. CountersCountSent'
  BY DEF IndInv, CountersCountSent
<1>5. ChatsHaveWriter'
  <2> SUFFICES ASSUME NEW f \in ChatFrames'
               PROVE  \E t \in Session : MadeBy(f, t)'
    BY DEF ChatsHaveWriter
  <2>1. f \in ChatFrames
    BY DEF ChatFrames
  <2>2. PICK t \in Session : MadeBy(f, t)
    BY <2>1 DEF IndInv, ChatsHaveWriter
  <2>3. MadeBy(f, t)'
    BY <2>2 DEF MadeBy, SendKey
  <2> QED  BY <2>3
<1>6. DeliveredFromCounterpart'
  <2> SUFFICES ASSUME NEW s \in Session, NEW i \in DOMAIN delivered[s]
               PROVE  FromCounterpart(s, delivered[s][i])'
    BY DEF DeliveredFromCounterpart
  <2>1. FromCounterpart(s, delivered[s][i])
    BY DEF IndInv, DeliveredFromCounterpart
  <2>2. delivered[s][i].from \in Session
    BY ItemType DEF IndInv
  <2> QED  BY <2>1, <2>2 DEF FromCounterpart
<1> QED  BY <1>1, <1>2, <1>3, <1>4, <1>5, <1>6 DEF IndInv

(* The invariant holds before any attempt was started.                       *)
LEMMA InitHolds == Init => IndInv
<1> SUFFICES ASSUME Init PROVE IndInv
  OBVIOUS
<1>1. TypeOK
  BY BoundIsNat DEF Init, TypeOK, Transport, Secret
<1>2. IdleUntilSession /\ KeysPairPeers
  BY DEF Init, IdleUntilSession, KeysPairPeers, Established
<1>3. InitsCarryOwnEphemeral /\ ChatsHaveWriter
  BY DEF Init, InitsCarryOwnEphemeral, ChatsHaveWriter, ChatFrames
<1>4. CountersCountSent /\ DeliveredFromCounterpart
  BY DEF Init, CountersCountSent, DeliveredFromCounterpart
<1> QED  BY <1>1, <1>2, <1>3, <1>4 DEF IndInv

(* The steps of a connect attempt up to the handshake.                       *)
LEMMA AttemptStep ==
    ASSUME IndInv, NEW s \in Session,
           \/ StartAttempt(s) \/ PunchTick(s) \/ PunchRecv(s) \/ PunchTimeout(s)
           \/ DirectTimeout(s) \/ RelayTimeout(s)
    PROVE  IndInv'
<1> USE DEF IndInv
<1>1. CASE StartAttempt(s) \/ RelayTimeout(s)
  <2>1. TypeOK'
    BY <1>1 DEF StartAttempt, RelayTimeout, TypeOK
  <2>2. \A t \in Session : Established(t)' <=> Established(t)
    BY <1>1 DEF StartAttempt, RelayTimeout, TypeOK, Established
  <2>3. net' = net \cup {}
    BY <1>1 DEF StartAttempt, RelayTimeout
  <2>4. Quiet({})
    BY <1>1, <2>1, <2>2, <2>3 DEF StartAttempt, RelayTimeout, Quiet
  <2> QED  BY <2>4, QuietStep
<1>2. CASE PunchTick(s)
  <2>1. TypeOK'
    BY <1>2, FrameTypes DEF PunchTick, TypeOK
  <2>2. \A f \in {Ping(s)} : f.type # "chat" /\ f.type # "init"
    BY DEF Ping
  <2>3. Quiet({Ping(s)})
    BY <1>2, <2>1, <2>2 DEF PunchTick, Established, Quiet
  <2> QED  BY <2>3, QuietStep
<1>3. ASSUME NEW t \in Transport, BeginHandshake(s, t), ~Established(s)
      PROVE  IndInv'
  <2>1. TypeOK'
    BY <1>3, FrameTypes DEF BeginHandshake, TypeOK
  <2>2. \A u \in Session : Established(u)' <=> Established(u)
    BY <1>3 DEF BeginHandshake, TypeOK, Established
  <2>3. \A u \in Session : Established(u) => via'[u] = via[u]
    BY <1>3 DEF BeginHandshake, TypeOK, Established
  <2>4. \A f \in {InitFrame(s, t)} : f.type # "chat" /\ f.ephermal[1] = f.from
    BY DEF InitFrame, Ephemeral
  <2>5. Quiet({InitFrame(s, t)})
    BY <1>3, <2>1, <2>2, <2>3, <2>4 DEF BeginHandshake, Quiet
  <2> QED  BY <2>5, QuietStep
<1>4. CASE PunchRecv(s) \/ PunchTimeout(s) \/ DirectTimeout(s)
  BY <1>3, <1>4 DEF PunchRecv, PunchTimeout, DirectTimeout, Transport, Established
<1> QED  BY <1>1, <1>2, <1>4

(* The steps that only stop a reader or a writer.                            *)
LEMMA StopStep ==
    ASSUME IndInv, NEW s \in Session,
           CloseWriter(s) \/ WriterError(s) \/ RecvEnd(s) \/ IdleTimeout(s)
    PROVE  IndInv'
<1>1. TypeOK'
  BY FrameTypes DEF CloseWriter, WriterError, RecvEnd, IdleTimeout, TypeOK, IndInv
<1>2. \A t \in Session : ~Established(t) => reader'[t] = reader[t] /\ writer'[t] = writer[t]
  BY DEF CloseWriter, WriterError, RecvEnd, IdleTimeout, TypeOK, IndInv, IdleUntilSession
<1>3. CASE CloseWriter(s)
  <2>1. \A f \in {EndFrame(s)} : f.type # "chat" /\ f.type # "init"
    BY DEF EndFrame
  <2>2. Quiet({EndFrame(s)})
    BY <1>1, <1>2, <1>3, <2>1 DEF CloseWriter, Established, Quiet
  <2> QED  BY <2>2, QuietStep
<1>4. CASE WriterError(s) \/ RecvEnd(s) \/ IdleTimeout(s)
  <2>1. net' = net \cup {}
    BY <1>4 DEF WriterError, RecvEnd, IdleTimeout
  <2>2. Quiet({})
    BY <1>1, <1>2, <1>4, <2>1 DEF WriterError, RecvEnd, IdleTimeout, Established, Quiet
  <2> QED  BY <2>2, QuietStep
<1> QED  BY <1>3, <1>4

(* The handshake completes: the key pairs the attempt's own ephemeral with   *)
(* the one of a verified Init, which is the peer's.                          *)
LEMMA HandshakeStep ==
    ASSUME IndInv, NEW s \in Session, HandshakeRecv(s)
    PROVE  IndInv'
<1> USE DEF IndInv
<1>1. PICK f \in net :
          /\ f.type = "init" /\ f.from = Other(s[1])
          /\ key' = [key EXCEPT ![s] = derive_session_key(s, f.ephermal)]
  BY DEF HandshakeRecv
<1>2. f.ephermal \in Session /\ f.ephermal[1] = Other(s[1])
  BY <1>1, FrameFields DEF InitsCarryOwnEphemeral, TypeOK
<1>3. key' = [key EXCEPT ![s] = {s, f.ephermal}]
  BY <1>1 DEF derive_session_key, Ephemeral
<1>4. ~Established(s) /\ Established(s)'
  BY DEF HandshakeRecv, Established, TypeOK
<1>5. \A t \in Session \ {s} : (Established(t)' <=> Established(t)) /\ key'[t] = key[t]
  BY <1>3 DEF HandshakeRecv, Established, TypeOK
<1>6. \A t \in Session : Established(t) => t # s
  BY <1>4
<1>7. TypeOK'
  BY <1>2, <1>3 DEF HandshakeRecv, TypeOK, Secret
<1>8. IdleUntilSession'
  BY <1>4, <1>5 DEF HandshakeRecv, IdleUntilSession, TypeOK
<1>9. KeysPairPeers'
  <2> SUFFICES ASSUME NEW t \in Session, Established(t)'
               PROVE  \E u \in Session : u[1] = Other(t[1]) /\ key'[t] = {t, u}
    BY DEF KeysPairPeers
  <2>1. CASE t = s
    BY <2>1, <1>2, <1>3 DEF TypeOK
  <2>2. CASE t # s
    BY <2>2, <1>5 DEF KeysPairPeers
  <2> QED  BY <2>1, <2>2
<1>10. InitsCarryOwnEphemeral' /\ CountersCountSent'
  BY DEF HandshakeRecv, InitsCarryOwnEphemeral, CountersCountSent
<1>11. ChatsHaveWriter'
  <2> SUFFICES ASSUME NEW g \in ChatFrames
               PROVE  \E t \in Session : MadeBy(g, t)'
    BY DEF HandshakeRecv, ChatsHaveWriter, ChatFrames
  <2>1. PICK t \in Session : MadeBy(g, t)
    BY DEF ChatsHaveWriter
  <2>2. t # s
    BY <2>1, <1>6 DEF MadeBy
  <2>3. MadeBy(g, t)'
    BY <2>1, <2>2, <1>5 DEF MadeBy, SendKey, HandshakeRecv
  <2> QED  BY <2>3
<1>12. DeliveredFromCounterpart'
  <2> SUFFICES ASSUME NEW t \in Session, NEW i \in DOMAIN delivered[t]
               PROVE  FromCounterpart(t, delivered[t][i])'
    BY DEF HandshakeRecv, DeliveredFromCounterpart
  <2>1. FromCounterpart(t, delivered[t][i])
    BY DEF DeliveredFromCounterpart
  <2>2. t # s
    BY <1>4 DEF IdleUntilSession
  <2>3. delivered[t][i].from \in Session \ {s}
    BY <2>1, <1>6, ItemType DEF FromCounterpart
  <2> QED  BY <2>1, <2>2, <2>3, <1>5 DEF FromCounterpart, HandshakeRecv
<1> QED  BY <1>7, <1>8, <1>9, <1>10, <1>11, <1>12

(* A writer sends: the new frame is made by that session, and the streams of *)
(* all sessions only grow.                                                   *)
LEMMA SendStep ==
    ASSUME IndInv, NEW s \in Session, NEW text \in Text, SendChat(s, text)
    PROVE  IndInv'
<1> USE DEF IndInv
<1>1. Established(s)
  BY DEF SendChat, IdleUntilSession
<1>2. counter[s] = Len(sent[s]) /\ counter[s] + 1 \in 1..MaxChat
  BY BoundIsNat DEF SendChat, CountersCountSent, TypeOK
<1>3. \A t \in Session : counter'[t] = IF t = s THEN counter[s] + 1 ELSE counter[t]
  BY DEF SendChat, TypeOK
<1>4. \A t \in Session : sent'[t] = IF t = s THEN Append(sent[s], text) ELSE sent[t]
  BY DEF SendChat, TypeOK
<1>5. \A t \in Session : sent[t] \in Seq(Text)
  BY DEF TypeOK
<1>6. /\ sent'[s][counter[s] + 1] = text
      /\ Len(sent'[s]) = counter[s] + 1
      /\ \A n \in 1..counter[s] : sent'[s][n] = sent[s][n]
  <2>1. sent[s] \in Seq(Text) /\ sent'[s] = Append(sent[s], text)
    BY <1>4, <1>5
  <2>2. /\ Append(sent[s], text)[Len(sent[s]) + 1] = text
        /\ Len(Append(sent[s], text)) = Len(sent[s]) + 1
        /\ \A n \in 1..Len(sent[s]) : Append(sent[s], text)[n] = sent[s][n]
    BY <2>1, AppendFacts
  <2> QED  BY <1>2, <2>1, <2>2
<1>7. \A t \in Session : \A n \in 1..counter[t] : sent'[t][n] = sent[t][n]
  <2> SUFFICES ASSUME NEW t \in Session, NEW n \in 1..counter[t]
               PROVE  sent'[t][n] = sent[t][n]
    OBVIOUS
  <2> QED  BY <1>4, <1>6
<1>8. TypeOK'
  <2>1. net' \subseteq Frame
    BY <1>2, FrameTypes DEF SendChat, TypeOK
  <2>2. counter' \in [Session -> 0..MaxChat]
    BY <1>2 DEF SendChat, TypeOK
  <2>3. sent' \in [Session -> Seq(Text)]
    BY DEF SendChat, TypeOK
  <2> QED  BY <2>1, <2>2, <2>3 DEF SendChat, TypeOK
<1>9. IdleUntilSession'
  BY <1>1, <1>4 DEF SendChat, IdleUntilSession, Established
<1>10. KeysPairPeers'
  BY DEF SendChat, KeysPairPeers, Established
<1>11. InitsCarryOwnEphemeral'
  BY DEF SendChat, InitsCarryOwnEphemeral, ChatFrame
<1>12. CountersCountSent'
  BY <1>3, <1>4, <1>6 DEF CountersCountSent
<1>13. ChatsHaveWriter'
  <2> SUFFICES ASSUME NEW f \in ChatFrames'
               PROVE  \E t \in Session : MadeBy(f, t)'
    BY DEF ChatsHaveWriter
  <2>1. CASE f \in ChatFrames
    <3>1. PICK t \in Session : MadeBy(f, t)
      BY <2>1 DEF ChatsHaveWriter
    <3>2. f.counter \in 1..counter'[t]
      <4>1. counter[t] \in Nat /\ f.counter \in 1..counter[t]
        BY <3>1 DEF MadeBy, TypeOK
      <4>2. counter'[t] = counter[t] \/ counter'[t] = counter[t] + 1
        BY <1>3
      <4> QED  BY <4>1, <4>2
    <3>3. MadeBy(f, t)'
      BY <3>1, <3>2, <1>7 DEF MadeBy, SendKey, Established, SendChat
    <3> QED  BY <3>3
  <2>2. CASE f \notin ChatFrames
    <3>1. f = ChatFrame(s, counter[s] + 1, text)
      BY <2>2 DEF ChatFrames, SendChat
    <3>2. MadeBy(f, s)'
      <4>1. /\ f.from = s[1] /\ f.via = via[s] /\ f.key = SendKey(s)
            /\ f.counter = counter[s] + 1 /\ f.text = text
        BY <3>1 DEF ChatFrame
      <4>2. Established(s)' /\ via' = via /\ SendKey(s)' = SendKey(s)
        BY <1>1 DEF Established, SendKey, SendChat
      <4>3. f.counter \in 1..counter'[s] /\ f.text = sent'[s][f.counter]
        BY <4>1, <1>2, <1>3, <1>6
      <4> QED  BY <4>1, <4>2, <4>3 DEF MadeBy
    <3> QED  BY <3>2
  <2> QED  BY <2>1, <2>2
<1>14. DeliveredFromCounterpart'
  <2> SUFFICES ASSUME NEW t \in Session, NEW i \in DOMAIN delivered[t]
               PROVE  FromCounterpart(t, delivered[t][i])'
    BY DEF SendChat, DeliveredFromCounterpart
  <2> DEFINE d == delivered[t][i]
  <2>1. FromCounterpart(t, d)
    BY DEF DeliveredFromCounterpart
  <2>2. d.from \in Session /\ d.pos \in Nat
    BY ItemType
  <2>3. last[t] \in Int /\ counter[d.from] \in Nat
    BY <2>2 DEF TypeOK
  <2>4. last[t] <= counter'[d.from]
    BY <2>1, <2>2, <2>3, <1>3 DEF FromCounterpart
  <2>5. d.pos \in 1..counter[d.from]
    BY <2>1, <2>2, <2>3 DEF FromCounterpart
  <2>6. sent'[d.from][d.pos] = sent[d.from][d.pos]
    BY <2>2, <2>5, <1>7
  <2>7. UNCHANGED <<key, phase, last, delivered>>
    BY DEF SendChat
  <2> QED  BY <2>1, <2>4, <2>6, <2>7 DEF FromCounterpart, Established
<1> QED  BY <1>8, <1>9, <1>10, <1>11, <1>12, <1>13, <1>14

(* A reader that accepts a chat frame accepts it from its counterpart: the   *)
(* frame was made by session t, which shares the reader's key, it is one of  *)
(* the texts of t, and it lies beyond everything delivered before.           *)
LEMMA AcceptedFrame ==
    ASSUME IndInv, NEW s \in Session, RecvChat(s)
    PROVE  \E f \in ChatFrames, t \in Session :
              /\ Established(s) /\ MadeBy(f, t) /\ f \in Chat
              /\ t[1] = Other(s[1]) /\ key[t] = key[s] /\ key[s] = {s, t}
              /\ f.counter > last[s]
              /\ last' = [last EXCEPT ![s] = f.counter]
              /\ delivered' = [delivered EXCEPT ![s] = Append(@,
                    [from |-> t, pos |-> f.counter, text |-> sent[t][f.counter]])]
<1> USE DEF IndInv
<1>1. PICK f \in net :
          /\ f.type = "chat" /\ f.key = RecvKey(s) /\ f.counter > last[s]
          /\ last' = [last EXCEPT ![s] = f.counter]
          /\ delivered' = [delivered EXCEPT ![s] = Append(@, Item(f))]
  BY DEF RecvChat, AcceptsChat
<1>2. f \in ChatFrames /\ f \in Chat
  BY <1>1, FrameFields DEF ChatFrames, TypeOK
<1>3. Established(s)
  BY DEF RecvChat, IdleUntilSession
<1>4. PICK t \in Session : MadeBy(f, t)
  BY <1>2 DEF ChatsHaveWriter
<1>5. /\ t[1] = Other(s[1]) /\ key[t] = key[s] /\ key[s] = {s, t}
      /\ Item(f) = [from |-> t, pos |-> f.counter, text |-> f.text]
  BY <1>1, <1>3, <1>4, ItemSender
<1>6. f.text = sent[t][f.counter]
  BY <1>4 DEF MadeBy
<1>7. Item(f) = [from |-> t, pos |-> f.counter, text |-> sent[t][f.counter]]
  BY <1>5, <1>6
<1> QED  BY <1>1, <1>2, <1>3, <1>4, <1>5, <1>7

(* RecvChat, the chat branch of handle_inbound_frame, keeps the invariant.   *)
LEMMA RecvStep ==
    ASSUME IndInv, NEW s \in Session, RecvChat(s)
    PROVE  IndInv'
<1> USE DEF IndInv
<1>1. PICK f \in ChatFrames, t \in Session :
          /\ Established(s) /\ MadeBy(f, t) /\ f \in Chat
          /\ t[1] = Other(s[1]) /\ key[t] = key[s] /\ key[s] = {s, t}
          /\ f.counter > last[s]
          /\ last' = [last EXCEPT ![s] = f.counter]
          /\ delivered' = [delivered EXCEPT ![s] = Append(@,
                [from |-> t, pos |-> f.counter, text |-> sent[t][f.counter]])]
  BY AcceptedFrame
<1>0. PICK new : new = [from |-> t, pos |-> f.counter, text |-> sent[t][f.counter]]
  OBVIOUS
<1>2. UNCHANGED <<phase, via, key, reader, writer, counter, sent, net>>
  BY DEF RecvChat
<1>3. /\ f.counter \in Nat /\ f.counter \in 1..counter[t] /\ counter[t] \in 0..MaxChat
      /\ last[s] \in Int
  BY <1>1 DEF MadeBy, Chat, TypeOK
<1>4. new \in Channel!Item /\ new.from = t /\ new.pos = f.counter
      /\ new.text = sent[t][f.counter]
  <2>1. f.text \in Text /\ f.text = sent[t][f.counter]
    BY <1>1 DEF Chat, MadeBy
  <2> QED  BY <1>0, <1>3, <2>1 DEF Channel!Item
<1>5. \A u \in Session : last'[u] = IF u = s THEN f.counter ELSE last[u]
  BY <1>1 DEF TypeOK
<1>6. \A u \in Session : delivered'[u] = IF u = s THEN Append(delivered[s], new) ELSE delivered[u]
  BY <1>0, <1>1 DEF TypeOK
<1>7. TypeOK'
  <2>1. last' \in [Session -> -1..MaxChat]
    BY <1>1, <1>3, BoundIsNat DEF TypeOK
  <2>2. delivered' \in [Session -> Seq(Channel!Item)]
    <3>1. delivered' = [delivered EXCEPT ![s] = Append(delivered[s], new)]
      BY <1>0, <1>1
    <3>2. Append(delivered[s], new) \in Seq(Channel!Item)
      BY <1>4 DEF TypeOK
    <3> QED  BY <3>1, <3>2 DEF TypeOK
  <2> QED  BY <1>2, <2>1, <2>2 DEF TypeOK
<1>8. IdleUntilSession'
  BY <1>1, <1>2, <1>6 DEF IdleUntilSession, Established
<1>9. KeysPairPeers' /\ InitsCarryOwnEphemeral' /\ CountersCountSent'
  BY <1>2 DEF KeysPairPeers, InitsCarryOwnEphemeral, CountersCountSent, Established
<1>10. ChatsHaveWriter'
  BY <1>2 DEF ChatsHaveWriter, ChatFrames, MadeBy, SendKey, Established
<1>11. DeliveredFromCounterpart'
  <2> SUFFICES ASSUME NEW u \in Session, NEW i \in DOMAIN delivered'[u]
               PROVE  FromCounterpart(u, delivered[u][i])'
    BY DEF DeliveredFromCounterpart
  <2>0. PICK d : d = delivered'[u][i]
    OBVIOUS
  <2>1. CASE u # s
    <3>1. i \in DOMAIN delivered[u] /\ d = delivered[u][i]
      BY <2>0, <2>1, <1>6
    <3>2. FromCounterpart(u, d)
      BY <3>1 DEF DeliveredFromCounterpart
    <3>3. FromCounterpart(u, d)'
      BY <2>1, <3>2, <1>2, <1>5 DEF FromCounterpart, Established
    <3> QED  BY <2>0, <3>3
  <2>2. CASE u = s
    <3>1. delivered[s] \in Seq(Channel!Item) /\ delivered'[s] = Append(delivered[s], new)
      BY <1>6 DEF TypeOK
    <3>2. /\ DOMAIN delivered[s] = 1..Len(delivered[s]) /\ Len(delivered[s]) \in Nat
          /\ DOMAIN Append(delivered[s], new) = 1..(Len(delivered[s]) + 1)
          /\ Append(delivered[s], new)[Len(delivered[s]) + 1] = new
          /\ \A n \in 1..Len(delivered[s]) : Append(delivered[s], new)[n] = delivered[s][n]
      BY <3>1, <1>4, AppendFacts
    <3>3. CASE i = Len(delivered[s]) + 1
      <4>1. d = new
        BY <2>0, <2>2, <3>1, <3>2, <3>3
      <4>2. Established(t)
        BY <1>1 DEF MadeBy
      <4>3. FromCounterpart(s, d)'
        <5>1. d.from = t /\ d.pos = f.counter /\ d.text = sent'[t][f.counter] /\ last'[s] = f.counter
          BY <4>1, <1>2, <1>4, <1>5
        <5>2. f.counter \in 1..f.counter /\ f.counter <= counter'[t]
          BY <1>2, <1>3
        <5>3. t[1] = Other(s[1]) /\ key'[t] = key'[s] /\ Established(t)'
          BY <4>2, <1>1, <1>2 DEF Established
        <5> QED  BY <5>1, <5>2, <5>3 DEF FromCounterpart
      <4> QED  BY <2>0, <2>2, <4>3
    <3>4. CASE i \in DOMAIN delivered[s]
      <4>1. d = delivered[s][i]
        BY <2>0, <2>2, <3>1, <3>2, <3>4
      <4>2. FromCounterpart(s, d) /\ d.from \in Session /\ d.pos \in Nat
        BY <3>4, <4>1, ItemType DEF DeliveredFromCounterpart
      <4>3. d.from = t
        BY <4>2, <1>1, KeyInjective DEF FromCounterpart, MadeBy
      <4>4. d.pos \in 1..f.counter /\ f.counter <= counter[t]
        <5>1. d.pos \in 1..last[s]
          BY <4>2 DEF FromCounterpart
        <5>2. f.counter > last[s]
          BY <1>1
        <5> QED  BY <5>1, <5>2, <1>3
      <4>5. FromCounterpart(s, d)'
        BY <4>2, <4>3, <4>4, <1>2, <1>5 DEF FromCounterpart, Established
      <4> QED  BY <2>0, <2>2, <4>5
    <3> QED  BY <2>2, <3>1, <3>2, <3>3, <3>4
  <2> QED  BY <2>1, <2>2
<1> QED  BY <1>7, <1>8, <1>9, <1>10, <1>11

(* Every step of the protocol keeps the invariant.                           *)
LEMMA NextStep == IndInv /\ [Next]_vars => IndInv'
<1> SUFFICES ASSUME IndInv, [Next]_vars PROVE IndInv'
  OBVIOUS
<1>1. CASE UNCHANGED vars
  <2>1. TypeOK' /\ net' = net \cup {}
    BY <1>1 DEF vars, IndInv, TypeOK
  <2>2. Quiet({})
    BY <1>1, <2>1 DEF vars, Quiet, Established
  <2> QED  BY <2>2, QuietStep
<1>2. ASSUME NEW s \in Session, NEW text \in Text, SendChat(s, text)
      PROVE  IndInv'
  BY <1>2, SendStep
<1>3. ASSUME NEW s \in Session, RecvChat(s) PROVE IndInv'
  BY <1>3, RecvStep
<1>4. ASSUME NEW s \in Session, HandshakeRecv(s) PROVE IndInv'
  BY <1>4, HandshakeStep
<1>5. ASSUME NEW s \in Session,
             CloseWriter(s) \/ WriterError(s) \/ RecvEnd(s) \/ IdleTimeout(s)
      PROVE  IndInv'
  BY <1>5, StopStep
<1>6. ASSUME NEW s \in Session,
             \/ StartAttempt(s) \/ PunchTick(s) \/ PunchRecv(s) \/ PunchTimeout(s)
             \/ DirectTimeout(s) \/ RelayTimeout(s)
      PROVE  IndInv'
  BY <1>6, AttemptStep
<1> QED  BY <1>1, <1>2, <1>3, <1>4, <1>5, <1>6 DEF Next

(* The invariant holds in every reachable state, for any number of punches,  *)
(* texts and messages.                                                       *)
THEOREM Invariance == Spec => []IndInv
<1>1. Init => IndInv
  BY InitHolds
<1>2. IndInv /\ [Next]_vars => IndInv'
  BY NextStep
<1> QED  BY <1>1, <1>2, PTL DEF Spec

(* Type correctness: in particular no last_counter overtakes the counters    *)
(* that the other end can send.                                              *)
THEOREM TypeCorrect == Spec => []TypeOK
<1>1. IndInv => TypeOK
  BY DEF IndInv
<1> QED  BY <1>1, Invariance, PTL

(* Nonce discipline: over all reconnects and in both directions no directional *)
(* key and counter pair encrypts two frames, so the nonce that               *)
(* encrypt_message_for_chat derives from them is never reused.               *)
THEOREM NonceDiscipline == Spec => []NonceUnique
<1>1. IndInv => NonceUnique
  <2> SUFFICES ASSUME IndInv PROVE NonceUnique
    OBVIOUS
  <2> USE DEF IndInv
  <2>1. ASSUME NEW f \in ChatFrames, NEW g \in ChatFrames, f.key = g.key, f.counter = g.counter
        PROVE  f = g
    <3>1. PICK s \in Session : MadeBy(f, s)
      BY DEF ChatsHaveWriter
    <3>2. PICK t \in Session : MadeBy(g, t)
      BY DEF ChatsHaveWriter
    <3>3. s = t
      BY <2>1, <3>1, <3>2, SendKeyInjective DEF MadeBy
    <3>4. f \in Chat /\ g \in Chat
      BY FrameFields DEF ChatFrames, TypeOK
    <3>5. f.from = g.from /\ f.via = g.via /\ f.text = g.text
      BY <2>1, <3>1, <3>2, <3>3 DEF MadeBy
    <3> QED  BY <2>1, <3>4, <3>5 DEF Chat
  <2>2. ASSUME NEW s \in Session, NEW t \in Session,
               sent[s] # <<>>, sent[t] # <<>>, SendKey(s) = SendKey(t)
        PROVE  s = t
    BY <2>2, SendKeyInjective DEF IdleUntilSession
  <2> QED  BY <2>1, <2>2 DEF NonceUnique
<1> QED  BY <1>1, Invariance, PTL

(* Whatever a reader hands to the application was sent to it by the one      *)
(* session of the peer that shares its key.                                  *)
THEOREM DeliveryIntegrity == Spec => []DeliveredByCounterpart
<1>1. IndInv => DeliveredByCounterpart
  <2> SUFFICES ASSUME IndInv, NEW s \in Session, delivered[s] # <<>>
               PROVE  \E t \in Session :
                         /\ t[1] = Other(s[1])
                         /\ key[t] = key[s]
                         /\ last[s] <= counter[t]
                         /\ \A u \in Session : key[u] = key[s] => u \in {s, t}
    BY DEF DeliveredByCounterpart
  <2> USE DEF IndInv
  <2>1. delivered[s] \in Seq(Channel!Item) /\ 1 \in DOMAIN delivered[s]
    BY DEF TypeOK
  <2>2. PICK t \in Session : t = delivered[s][1].from
    BY <2>1, ItemType
  <2>3. FromCounterpart(s, delivered[s][1])
    BY <2>1 DEF DeliveredFromCounterpart
  <2>4. /\ Established(t) /\ t[1] = Other(s[1]) /\ key[t] = key[s] /\ last[s] <= counter[t]
    BY <2>2, <2>3 DEF FromCounterpart
  <2>5. Established(s)
    BY DEF IdleUntilSession
  <2>6. ASSUME NEW u \in Session, key[u] = key[s] PROVE u \in {s, t}
    <3>1. key[s] # {}
      BY <2>5 DEF KeysPairPeers
    <3>2. Established(u)
      BY <2>6, <3>1 DEF IdleUntilSession
    <3>3. u[1] = s[1] \/ u[1] = t[1]
      BY <2>4, SessionPeer, OtherPeer
    <3> QED  BY <2>4, <2>5, <2>6, <3>2, <3>3, KeyInjective
  <2> QED  BY <2>4, <2>6
<1> QED  BY <1>1, Invariance, PTL

-----------------------------------------------------------------------------
(* The steps that leave both histories alone.                                *)
LEMMA HistoriesKept ==
    ASSUME NEW s \in Session,
           \/ StartAttempt(s) \/ PunchTick(s) \/ PunchRecv(s) \/ PunchTimeout(s)
           \/ HandshakeRecv(s) \/ DirectTimeout(s) \/ RelayTimeout(s)
           \/ CloseWriter(s) \/ WriterError(s) \/ RecvEnd(s) \/ IdleTimeout(s)
    PROVE  UNCHANGED <<sent, delivered>>
BY DEF StartAttempt, PunchTick, PunchRecv, PunchTimeout, HandshakeRecv, DirectTimeout,
       RelayTimeout, CloseWriter, WriterError, RecvEnd, IdleTimeout, BeginHandshake

(* An accepted chat frame is a delivery of the channel: the reader has read  *)
(* from no other stream, nobody else reads this one, and the position lies   *)
(* beyond all the earlier ones.                                              *)
LEMMA RecvIsDeliver ==
    ASSUME IndInv, NEW s \in Session, RecvChat(s)
    PROVE  \E t \in Session : \E n \in DOMAIN sent[t] : Channel!Deliver(s, t, n)
<1> USE DEF IndInv
<1>1. PICK f \in ChatFrames, t \in Session :
          /\ Established(s) /\ MadeBy(f, t) /\ f \in Chat
          /\ t[1] = Other(s[1]) /\ key[t] = key[s] /\ key[s] = {s, t}
          /\ f.counter > last[s]
          /\ last' = [last EXCEPT ![s] = f.counter]
          /\ delivered' = [delivered EXCEPT ![s] = Append(@,
                [from |-> t, pos |-> f.counter, text |-> sent[t][f.counter]])]
  BY AcceptedFrame
<1>2. Established(t) /\ f.counter \in 1..counter[t] /\ f.counter \in Nat
  BY <1>1 DEF MadeBy, Chat
<1>3. f.counter \in DOMAIN sent[t]
  <2>1. sent[t] \in Seq(Text) /\ counter[t] = Len(sent[t])
    BY DEF TypeOK, CountersCountSent
  <2> QED  BY <2>1, <1>2
<1>4. s # t
  BY <1>1, SessionPeer, OtherPeer
<1>5. ASSUME NEW q \in Session, NEW i \in DOMAIN delivered[q]
      PROVE  /\ delivered[q][i].from \in Session /\ Established(delivered[q][i].from)
             /\ delivered[q][i].from[1] = Other(q[1])
             /\ key[delivered[q][i].from] = key[q]
             /\ delivered[q][i].pos \in 1..last[q]
  BY ItemType DEF DeliveredFromCounterpart, FromCounterpart
<1>6. Channel!ReadBy(s) \subseteq {t}
  <2> SUFFICES ASSUME NEW i \in DOMAIN delivered[s] PROVE delivered[s][i].from = t
    BY DEF Channel!ReadBy
  <2>1. PICK u \in Session : u = delivered[s][i].from
    BY <1>5
  <2>2. Established(u) /\ u[1] = t[1] /\ key[u] = key[t]
    BY <2>1, <1>1, <1>5
  <2> QED  BY <2>1, <2>2, <1>2, KeyInjective
<1>7. ASSUME NEW q \in Session \ {s}, t \in Channel!ReadBy(q) PROVE FALSE
  <2>1. key[t] = key[q] /\ t[1] = Other(q[1]) /\ delivered[q] # <<>>
    BY <1>5, <1>7 DEF Channel!ReadBy
  <2>2. q[1] = s[1] /\ Established(q)
    BY <2>1, <1>1, OtherPeer, SessionPeer DEF IdleUntilSession
  <2> QED  BY <2>1, <2>2, <1>1, KeyInjective
<1>8. \A i \in DOMAIN delivered[s] : delivered[s][i].pos < f.counter
  <2> SUFFICES ASSUME NEW i \in DOMAIN delivered[s] PROVE delivered[s][i].pos < f.counter
    OBVIOUS
  <2>1. last[s] \in Int
    BY DEF TypeOK
  <2>2. delivered[s][i].pos \in 1..last[s]
    BY <1>5
  <2>3. f.counter > last[s]
    BY <1>1
  <2> QED  BY <2>1, <2>2, <2>3, <1>2
<1>9. UNCHANGED sent
  BY DEF RecvChat
<1>10. Channel!Deliver(s, t, f.counter)
  BY <1>1, <1>3, <1>4, <1>6, <1>7, <1>8, <1>9 DEF Channel!Deliver
<1> QED  BY <1>3, <1>10

(* The session layer implements the lossy channel, however many times the    *)
(* two ends reconnect and whatever the network does to their frames.         *)
THEOREM Refinement == Spec => ImplementsChannel
<1>1. Init => Channel!Init
  BY DEF Init, Channel!Init
<1>2. IndInv /\ [Next]_vars => [Channel!Next]_<<sent, delivered>>
  <2> SUFFICES ASSUME IndInv, [Next]_vars
               PROVE  Channel!Next \/ UNCHANGED <<sent, delivered>>
    OBVIOUS
  <2>1. CASE UNCHANGED vars
    BY <2>1 DEF vars
  <2>2. ASSUME NEW s \in Session, NEW text \in Text, SendChat(s, text)
        PROVE  Channel!Next
    BY <2>2 DEF SendChat, Channel!Next, Channel!Send
  <2>3. ASSUME NEW s \in Session, RecvChat(s) PROVE Channel!Next
    BY <2>3, RecvIsDeliver DEF Channel!Next
  <2> QED  BY <2>1, <2>2, <2>3, HistoriesKept DEF Next
<1> QED  BY <1>1, <1>2, Invariance, PTL DEF Spec, ImplementsChannel, Channel!Spec

(* A writer that has stopped stays so, and its transport stays what it was:  *)
(* only connect_session changes either, before there is a session.           *)
LEMMA StoppedStays ==
    ASSUME IndInv, [Next]_vars, NEW t \in Session, writer[t] = "closed"
    PROVE  writer'[t] = "closed" /\ via'[t] = via[t]
<1>1. phase[t] = "session"
  BY DEF IndInv, IdleUntilSession, Established
<1>2. CASE UNCHANGED vars
  BY <1>2 DEF vars
<1>3. ASSUME NEW s \in Session, NEW text \in Text, SendChat(s, text)
      PROVE  writer'[t] = "closed" /\ via'[t] = via[t]
  BY <1>3 DEF SendChat
<1>4. ASSUME NEW s \in Session, CloseWriter(s) \/ WriterError(s)
      PROVE  writer'[t] = "closed" /\ via'[t] = via[t]
  BY <1>4 DEF CloseWriter, WriterError, IndInv, TypeOK
<1>5. ASSUME NEW s \in Session, RecvChat(s) \/ RecvEnd(s) \/ IdleTimeout(s)
      PROVE  writer'[t] = "closed" /\ via'[t] = via[t]
  BY <1>5 DEF RecvChat, RecvEnd, IdleTimeout
<1>6. ASSUME NEW s \in Session,
             StartAttempt(s) \/ PunchTick(s) \/ PunchRecv(s) \/ PunchTimeout(s)
               \/ HandshakeRecv(s) \/ DirectTimeout(s) \/ RelayTimeout(s)
      PROVE  writer'[t] = "closed" /\ via'[t] = via[t]
  <2>1. s # t
    BY <1>1, <1>6 DEF StartAttempt, PunchTick, PunchRecv, PunchTimeout, HandshakeRecv,
       DirectTimeout, RelayTimeout
  <2> QED
    BY <1>6, <2>1 DEF StartAttempt, PunchTick, PunchRecv, PunchTimeout, HandshakeRecv,
       DirectTimeout, RelayTimeout, BeginHandshake, IndInv, TypeOK
<1> QED  BY <1>2, <1>3, <1>4, <1>5, <1>6 DEF Next

(* Only CloseWriter puts an End on the network.                              *)
LEMMA NewEnd ==
    ASSUME IndInv, [Next]_vars, NEW f \in net', f.type = "end", f \notin net
    PROVE  \E t \in Session : CloseWriter(t) /\ f = EndFrame(t)
<1>1. CASE UNCHANGED vars
  BY <1>1 DEF vars
<1>2. ASSUME NEW s \in Session, NEW text \in Text, SendChat(s, text) PROVE FALSE
  <2>1. net' = net \cup {ChatFrame(s, counter[s] + 1, text)}
    BY <1>2 DEF SendChat
  <2>2. f = ChatFrame(s, counter[s] + 1, text)
    BY <2>1
  <2> QED  BY <2>2 DEF ChatFrame
<1>3. ASSUME NEW s \in Session, CloseWriter(s)
      PROVE  \E t \in Session : CloseWriter(t) /\ f = EndFrame(t)
  <2>1. f = EndFrame(s)
    BY <1>3 DEF CloseWriter
  <2> QED  BY <1>3, <2>1
<1>4. ASSUME NEW s \in Session, WriterError(s) \/ RecvChat(s) \/ RecvEnd(s) \/ IdleTimeout(s)
      PROVE  FALSE
  BY <1>4 DEF WriterError, RecvChat, RecvEnd, IdleTimeout
<1>5. ASSUME NEW s \in Session,
             StartAttempt(s) \/ PunchTick(s) \/ PunchRecv(s) \/ PunchTimeout(s)
               \/ HandshakeRecv(s) \/ DirectTimeout(s) \/ RelayTimeout(s)
      PROVE  FALSE
  <2>1. f = Ping(s) \/ \E v \in Transport : f = InitFrame(s, v)
    BY <1>5 DEF StartAttempt, PunchTick, PunchRecv, PunchTimeout, HandshakeRecv,
       DirectTimeout, RelayTimeout, BeginHandshake, Transport
  <2> QED  BY <2>1 DEF Ping, InitFrame
<1> QED  BY <1>1, <1>2, <1>3, <1>4, <1>5 DEF Next

(* A reader stops on an End of the peer only, and only in a session.         *)
LEMMA ReaderEnds ==
    ASSUME IndInv, [Next]_vars, NEW s \in Session, reader'[s] = "ended"
    PROVE  /\ phase[s] = "session" /\ via'[s] = via[s]
           /\ reader[s] = "ended" \/ RecvEnd(s)
<1>1. CASE UNCHANGED vars
  BY <1>1 DEF vars, IndInv, IdleUntilSession, Established
<1>2. ASSUME NEW r \in Session, NEW text \in Text, SendChat(r, text)
      PROVE  reader[s] = "ended" /\ via' = via
  BY <1>2 DEF SendChat
<1>3. ASSUME NEW r \in Session, CloseWriter(r) \/ WriterError(r) \/ RecvChat(r)
      PROVE  reader[s] = "ended" /\ via' = via
  BY <1>3 DEF CloseWriter, WriterError, RecvChat
<1>4. ASSUME NEW r \in Session, IdleTimeout(r)
      PROVE  reader[s] = "ended" /\ via' = via
  BY <1>4 DEF IdleTimeout, IndInv, TypeOK
<1>5. ASSUME NEW r \in Session, RecvEnd(r)
      PROVE  (reader[s] = "ended" \/ RecvEnd(s)) /\ via' = via
  BY <1>5 DEF RecvEnd, IndInv, TypeOK
<1>6. ASSUME NEW r \in Session,
             StartAttempt(r) \/ PunchTick(r) \/ PunchRecv(r) \/ PunchTimeout(r)
               \/ HandshakeRecv(r) \/ DirectTimeout(r) \/ RelayTimeout(r)
      PROVE  reader[s] = "ended" /\ via'[s] = via[s]
  <2>1. reader[s] = "ended"
    BY <1>6 DEF StartAttempt, PunchTick, PunchRecv, PunchTimeout, HandshakeRecv,
       DirectTimeout, RelayTimeout, BeginHandshake, IndInv, TypeOK
  <2>2. phase[s] = "session"
    BY <2>1 DEF IndInv, IdleUntilSession, Established
  <2>3. s # r
    BY <1>6, <2>2 DEF StartAttempt, PunchTick, PunchRecv, PunchTimeout, HandshakeRecv,
       DirectTimeout, RelayTimeout
  <2> QED
    BY <1>6, <2>1, <2>3 DEF StartAttempt, PunchTick, PunchRecv, PunchTimeout, HandshakeRecv,
       DirectTimeout, RelayTimeout, BeginHandshake, IndInv, TypeOK
<1>7. /\ via'[s] = via[s]
      /\ reader[s] = "ended" \/ RecvEnd(s)
  BY <1>1, <1>2, <1>3, <1>4, <1>5, <1>6 DEF Next, vars
<1>8. phase[s] = "session"
  BY <1>7 DEF RecvEnd, IndInv, IdleUntilSession, Established
<1> QED  BY <1>7, <1>8

(* Whoever ends a session, it was the peer: no reader stops on an End that   *)
(* the peer's writers have not sent.                                         *)
THEOREM EndIntegrity == Spec => []EndedByPeer
<1> DEFINE Ends == EndsHaveWriter /\ EndedByPeer
<1>1. Init => Ends
  BY DEF Init, EndsHaveWriter, EndedByPeer
<1>2. IndInv /\ Ends /\ [Next]_vars => Ends'
  <2> SUFFICES ASSUME IndInv, EndsHaveWriter, EndedByPeer, [Next]_vars
               PROVE  EndsHaveWriter' /\ EndedByPeer'
    OBVIOUS
  <2>1. EndsHaveWriter'
    <3> SUFFICES ASSUME NEW f \in net', f.type = "end"
                 PROVE  \E t \in Session :
                           t[1] = f.from /\ via'[t] = f.via /\ writer'[t] = "closed"
      BY DEF EndsHaveWriter
    <3>1. CASE f \in net
      BY <3>1, StoppedStays DEF EndsHaveWriter
    <3>2. CASE f \notin net
      <4>1. PICK t \in Session : CloseWriter(t) /\ f = EndFrame(t)
        BY <3>2, NewEnd
      <4>2. t[1] = f.from /\ via'[t] = f.via /\ writer'[t] = "closed"
        BY <4>1 DEF CloseWriter, EndFrame, IndInv, TypeOK
      <4> QED  BY <4>2
    <3> QED  BY <3>1, <3>2
  <2>2. EndedByPeer'
    <3> SUFFICES ASSUME NEW s \in Session, reader'[s] = "ended"
                 PROVE  \E t \in Session :
                           t[1] = Other(s[1]) /\ via'[t] = via'[s] /\ writer'[t] = "closed"
      BY DEF EndedByPeer
    <3>1. phase[s] = "session" /\ via'[s] = via[s] /\ (reader[s] = "ended" \/ RecvEnd(s))
      BY ReaderEnds
    <3>2. \E t \in Session : t[1] = Other(s[1]) /\ via[t] = via[s] /\ writer[t] = "closed"
      BY <3>1 DEF EndedByPeer, EndsHaveWriter, RecvEnd
    <3> QED  BY <3>1, <3>2, StoppedStays
  <2> QED  BY <2>1, <2>2
<1> QED  BY <1>1, <1>2, Invariance, PTL DEF Spec
=============================================================================
