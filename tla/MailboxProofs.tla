--------------------------- MODULE MailboxProofs ----------------------------
(***************************************************************************)
(* Proofs about Mailbox, for any set of blobs, any number of connections   *)
(* and any capacity of the events channel.                                 *)
(***************************************************************************)
EXTENDS Mailbox, FiniteSetTheorems, TLAPS

(* The sequence in which the server sends its pending blobs is one of        *)
(* messages.                                                                 *)
LEMMA PendingType ==
    ASSUME NEW S \in SUBSET Blob, NEW q \in SetToSeqs(S)
    PROVE  Append(q, End) \in Seq(Message)
<1>1. IsFiniteSet(S)
  BY BlobsFinite, FS_Subset
<1>2. Cardinality(S) \in Nat
  BY <1>1, FS_CardinalityType
<1>3. q \in [1..Cardinality(S) -> S]
  BY DEF SetToSeqs
<1>4. q \in Seq(Message)
  BY <1>2, <1>3 DEF Message
<1> QED  BY <1>4 DEF Message

(* The initial state satisfies the invariant.                                *)
LEMMA InitHolds == Init => IndInv
BY CapPositive DEF Init, IndInv, TypeOK, DeletedWasHandled, AcksAreHandled, HandlerHoldsBlob,
       Handled, Conn

(* A step that does not touch the mailbox, the acks, or what the handlers    *)
(* hold, and forgets nothing that was handled.                               *)
LEMMA QuietStep ==
    ASSUME IndInv, TypeOK', UNCHANGED <<arrived, mailbox, cur, step>>,
           \A c \in Conn : acks'[c] \subseteq acks[c],
           stored' = stored, failed' = failed
    PROVE  IndInv'
BY DEF IndInv, DeletedWasHandled, AcksAreHandled, HandlerHoldsBlob, Handled, TypeOK

(* What happens between the client and the network keeps the invariant.      *)
LEMMA NetworkStep ==
    ASSUME IndInv, NEW c \in Conn, Cut(c) \/ Connect(c) \/ DrainEnds(c)
    PROVE  IndInv'
<1>1. CASE Cut(c)
  <2>1. PICK n \in 0..Len(wire[c]) : wire' = [wire EXCEPT ![c] = SubSeq(@, 1, n)]
    BY <1>1 DEF Cut
  <2>2. wire[c] \in Seq(Message)
    BY DEF IndInv, TypeOK
  <2>3. SubSeq(wire[c], 1, n) \in Seq(Message)
    BY <2>2
  <2>4. TypeOK'
    BY <1>1, <2>1, <2>3 DEF IndInv, TypeOK, Cut
  <2>5. \A d \in Conn : acks'[d] \subseteq acks[d]
    BY <1>1 DEF IndInv, TypeOK, Cut
  <2> QED  BY <1>1, <2>4, <2>5, QuietStep DEF Cut
<1>2. CASE Connect(c)
  <2>1. PICK q \in SetToSeqs(mailbox) : wire' = [wire EXCEPT ![c] = Append(q, End)]
    BY <1>2 DEF Connect
  <2>2. Append(q, End) \in Seq(Message)
    BY PendingType DEF IndInv, TypeOK
  <2>3. wire' \in [Conn -> Seq(Message)]
    BY <2>1, <2>2 DEF IndInv, TypeOK
  <2>4. events' \in [Conn -> 0..EventCap]
    BY <1>2, CapPositive DEF IndInv, TypeOK, Connect
  <2>5. TypeOK'
    BY <1>2, <2>3, <2>4 DEF IndInv, TypeOK, Connect
  <2>6. \A d \in Conn : acks'[d] \subseteq acks[d]
    BY <1>2 DEF Connect
  <2> QED  BY <1>2, <2>5, <2>6, QuietStep DEF Connect
<1>3. CASE DrainEnds(c)
  <2>1. wire[c] \in Seq(Message) /\ wire[c] # <<>>
    BY <1>3 DEF IndInv, TypeOK, DrainEnds, Receiving
  <2>2. Tail(wire[c]) \in Seq(Message)
    BY <2>1
  <2>3. TypeOK'
    BY <1>3, <2>2 DEF IndInv, TypeOK, DrainEnds
  <2> QED  BY <1>3, <2>3, QuietStep DEF DrainEnds
<1> QED  BY <1>1, <1>2, <1>3

(* The loop and the other users of chat.db.                                  *)
LEMMA LoopStep ==
    ASSUME IndInv,
           \/ \E c \in Conn : HandleEvent(c) \/ Disconnected(c)
           \/ OtherOpens \/ OtherCloses \/ UNCHANGED vars
    PROVE  IndInv'
<1>1. TypeOK'
  <2>1. CASE \E c \in Conn : HandleEvent(c)
    <3>1. PICK c \in Conn : HandleEvent(c)
      BY <2>1
    <3>2. events[c] \in 0..EventCap /\ events[c] > 0
      BY <3>1 DEF IndInv, TypeOK, HandleEvent
    <3>3. events[c] - 1 \in 0..EventCap
      BY <3>2, CapPositive
    <3>4. events' \in [Conn -> 0..EventCap]
      BY <3>1, <3>3 DEF IndInv, TypeOK, HandleEvent
    <3> QED  BY <3>1, <3>4 DEF IndInv, TypeOK, HandleEvent
  <2>2. CASE \E c \in Conn : Disconnected(c)
    BY <2>2 DEF IndInv, TypeOK, Disconnected
  <2>3. CASE OtherOpens \/ OtherCloses \/ UNCHANGED vars
    BY <2>3 DEF IndInv, TypeOK, OtherOpens, OtherCloses, vars
  <2> QED  BY <2>1, <2>2, <2>3
<1>2. UNCHANGED <<arrived, mailbox, cur, step, acks, stored, failed>>
  BY DEF HandleEvent, Disconnected, OtherOpens, OtherCloses, vars
<1> QED  BY <1>1, <1>2, QuietStep

(* A connection that ends takes the blob its handler holds with it.          *)
LEMMA EndStep ==
    ASSUME IndInv, NEW c \in Conn, HandshakeFails(c) \/ Crash(c)
    PROVE  IndInv'
<1> USE DEF IndInv
<1>1. TypeOK'
  <2>1. <<>> \in Seq(Message)
    OBVIOUS
  <2>2. CASE HandshakeFails(c)
    BY <2>1, <2>2 DEF TypeOK, HandshakeFails
  <2>3. CASE Crash(c)
    BY <2>1, <2>3 DEF TypeOK, Crash
  <2> QED  BY <2>2, <2>3
<1>2. \A d \in Conn : acks'[d] \subseteq acks[d]
  BY DEF TypeOK, HandshakeFails, Crash
<1>3. \A d \in Conn : step'[d] = "recv" \/ (step'[d] = step[d] /\ cur'[d] = cur[d])
  BY DEF TypeOK, HandshakeFails, Crash
<1>4. UNCHANGED <<arrived, mailbox, stored, failed>>
  BY DEF HandshakeFails, Crash
<1>5. DeletedWasHandled' /\ AcksAreHandled'
  BY <1>2, <1>4 DEF DeletedWasHandled, AcksAreHandled, Handled
<1>6. HandlerHoldsBlob'
  BY <1>3, <1>4 DEF HandlerHoldsBlob, Handled
<1> QED  BY <1>1, <1>5, <1>6

(* Uploads and acknowledgments.                                              *)
LEMMA ServerStep ==
    ASSUME IndInv, NEW b \in Blob, Upload(b) \/ \E c \in Conn : ServerAck(c, b)
    PROVE  IndInv'
<1> USE DEF IndInv
<1>1. CASE Upload(b)
  <2>1. \A c \in Conn : Append(wire[c], b) \in Seq(Message)
    BY DEF TypeOK, Message
  <2>2. TypeOK'
    BY <1>1, <2>1 DEF TypeOK, Upload
  <2>3. DeletedWasHandled' /\ AcksAreHandled' /\ HandlerHoldsBlob'
    BY <1>1 DEF Upload, DeletedWasHandled, AcksAreHandled, HandlerHoldsBlob, Handled
  <2> QED  BY <2>2, <2>3
<1>2. ASSUME NEW c \in Conn, ServerAck(c, b) PROVE IndInv'
  <2>1. b \in Handled
    BY <1>2 DEF ServerAck, AcksAreHandled
  <2>2. TypeOK'
    BY <1>2 DEF TypeOK, ServerAck
  <2>3. \A d \in Conn : acks'[d] \subseteq acks[d]
    BY <1>2 DEF TypeOK, ServerAck
  <2>4. UNCHANGED <<arrived, cur, step, stored, failed>> /\ mailbox' = mailbox \ {b}
    BY <1>2 DEF ServerAck
  <2>5. DeletedWasHandled'
    BY <2>1, <2>4 DEF DeletedWasHandled, Handled
  <2>6. AcksAreHandled' /\ HandlerHoldsBlob'
    BY <2>3, <2>4 DEF AcksAreHandled, HandlerHoldsBlob, Handled
  <2> QED  BY <2>2, <2>5, <2>6
<1> QED  BY <1>1, <1>2

(* The steps of a handler: it acknowledges only what it has handled.         *)
LEMMA HandlerStep ==
    ASSUME IndInv, NEW c \in Conn,
           \/ Receive(c) \/ Reject(c) \/ OpenDb(c) \/ OpenDbFails(c)
           \/ InsertDb(c) \/ Notify(c) \/ Ack(c)
    PROVE  IndInv'
<1> USE DEF IndInv
<1>1. TypeOK'
  <2>1. CASE Receive(c)
    <3>1. wire[c] \in Seq(Message) /\ wire[c] # <<>>
      BY <2>1 DEF TypeOK, Receive, Receiving
    <3>2. Tail(wire[c]) \in Seq(Message)
      BY <3>1
    <3> QED  BY <2>1, <3>2 DEF TypeOK, Receive
  <2>2. CASE Reject(c) \/ OpenDb(c)
    BY <2>2 DEF TypeOK, Reject, OpenDb
  <2>3. CASE OpenDbFails(c) \/ InsertDb(c)
    BY <2>3 DEF TypeOK, OpenDbFails, InsertDb, HandlerHoldsBlob
  <2>4. CASE Notify(c)
    <3>1. phase[c] = "old" \/ events[c] + 1 \in 0..EventCap
      BY <2>4, CapPositive DEF TypeOK, Notify
    <3>2. events' \in [Conn -> 0..EventCap]
      BY <2>4, <3>1 DEF TypeOK, Notify
    <3> QED  BY <2>4, <3>2 DEF TypeOK, Notify
  <2>5. CASE Ack(c)
    BY <2>5 DEF TypeOK, Ack, HandlerHoldsBlob
  <2> QED  BY <2>1, <2>2, <2>3, <2>4, <2>5
<1>2. Handled \subseteq Handled'
  BY DEF Handled, Receive, Reject, OpenDb, OpenDbFails, InsertDb, Notify, Ack
<1>3. UNCHANGED <<arrived, mailbox>>
  BY DEF Receive, Reject, OpenDb, OpenDbFails, InsertDb, Notify, Ack
<1>4. DeletedWasHandled'
  BY <1>2, <1>3 DEF DeletedWasHandled
<1>5. AcksAreHandled'
  <2>1. CASE Ack(c)
    <3>1. cur[c] \in Handled
      BY <2>1 DEF Ack, HandlerHoldsBlob
    <3>2. \A d \in Conn : acks'[d] \subseteq acks[d] \cup {cur[c]}
      BY <2>1 DEF TypeOK, Ack
    <3> QED  BY <3>1, <3>2, <1>2 DEF AcksAreHandled
  <2>2. CASE ~Ack(c)
    <3>1. UNCHANGED acks
      BY <2>2 DEF Receive, Reject, OpenDb, OpenDbFails, InsertDb, Notify
    <3> QED  BY <3>1, <1>2 DEF AcksAreHandled
  <2> QED  BY <2>1, <2>2
<1>6. HandlerHoldsBlob'
  <2> SUFFICES ASSUME NEW d \in Conn
               PROVE  /\ step'[d] # "recv" => cur'[d] \in Blob
                      /\ step'[d] \in {"notify", "ack"} => cur'[d] \in Handled'
    BY DEF HandlerHoldsBlob
  <2>1. CASE d # c
    <3>1. step'[d] = step[d] /\ cur'[d] = cur[d]
      BY <2>1 DEF TypeOK, Receive, Reject, OpenDb, OpenDbFails, InsertDb, Notify, Ack
    <3> QED  BY <3>1, <1>2 DEF HandlerHoldsBlob
  <2>2. CASE d = c
    <3>1. CASE Receive(c)
      BY <2>2, <3>1 DEF TypeOK, Receive
    <3>2. CASE Reject(c) \/ OpenDb(c)
      BY <2>2, <3>2 DEF TypeOK, Reject, OpenDb, HandlerHoldsBlob, Handled
    <3>3. CASE OpenDbFails(c) \/ InsertDb(c)
      BY <2>2, <3>3 DEF TypeOK, OpenDbFails, InsertDb, HandlerHoldsBlob, Handled
    <3>4. CASE Notify(c)
      BY <2>2, <3>4, <1>2 DEF TypeOK, Notify, HandlerHoldsBlob
    <3>5. CASE Ack(c)
      BY <2>2, <3>5 DEF TypeOK, Ack
    <3> QED  BY <3>1, <3>2, <3>3, <3>4, <3>5
  <2> QED  BY <2>1, <2>2
<1> QED  BY <1>1, <1>4, <1>5, <1>6

(* The invariant holds in every reachable state.                             *)
THEOREM Invariance == Spec => []IndInv
<1>1. IndInv /\ [Next]_vars => IndInv'
  <2> SUFFICES ASSUME IndInv, [Next]_vars PROVE IndInv'
    OBVIOUS
  <2>1. CASE UNCHANGED vars \/ OtherOpens \/ OtherCloses
    BY <2>1, LoopStep
  <2>2. ASSUME NEW b \in Blob, Upload(b) \/ \E c \in Conn : ServerAck(c, b)
        PROVE  IndInv'
    BY <2>2, ServerStep
  <2>3. ASSUME NEW c \in Conn, Handler(c) PROVE IndInv'
    BY <2>3, NetworkStep, HandlerStep DEF Handler
  <2>4. ASSUME NEW c \in Conn, Loop(c) PROVE IndInv'
    BY <2>4, NetworkStep, LoopStep, EndStep DEF Loop
  <2>5. ASSUME NEW c \in Conn, Cut(c) \/ Crash(c) PROVE IndInv'
    BY <2>5, NetworkStep, EndStep
  <2> QED  BY <2>1, <2>2, <2>3, <2>4, <2>5 DEF Next
<1> QED  BY <1>1, InitHolds, PTL DEF Spec

(* Types: no events channel ever holds more than its capacity.               *)
THEOREM TypeCorrect == Spec => []TypeOK
<1>1. IndInv => TypeOK
  BY DEF IndInv
<1> QED  BY <1>1, Invariance, PTL

(* At-least-once handling: whatever connections are lost and whenever the    *)
(* process dies, the server has deleted only blobs that a handler finished.  *)
THEOREM AtLeastOnce == Spec => []DeletedWasHandled
<1>1. IndInv => DeletedWasHandled
  BY DEF IndInv
<1> QED  BY <1>1, Invariance, PTL
=============================================================================
