-------------------------- MODULE ServerLinkProofs ---------------------------
(***************************************************************************)
(* Theorems about ServerLink, for any servers, messages and capacity of    *)
(* the channels: no channel exceeds its capacity, and no message that is   *)
(* stored as sent gets lost on a connection that does not break.           *)
(***************************************************************************)
EXTENDS ServerLink, SequenceTheorems, TLAPS

USE LinkConstants

-----------------------------------------------------------------------------
(* What a channel holds after a send, and after a receive.                   *)
LEMMA RangeOfAppend ==
    ASSUME NEW S, NEW q \in Seq(S), NEW x \in S
    PROVE  Range(Append(q, x)) = Range(q) \cup {x}
<1>1. Append(q, x) \in Seq(S) /\ DOMAIN Append(q, x) = 1 .. Len(q) + 1 /\ DOMAIN q = 1 .. Len(q)
  BY AppendProperties, LenProperties
<1>2. /\ \A i \in 1 .. Len(q) : Append(q, x)[i] = q[i]
      /\ Append(q, x)[Len(q) + 1] = x
  BY AppendProperties
<1>3. Len(q) \in Nat
  BY LenProperties
<1> QED  BY <1>1, <1>2, <1>3 DEF Range

LEMMA RangeOfTail ==
    ASSUME NEW S, NEW q \in Seq(S), q # <<>>
    PROVE  Range(q) = {Head(q)} \cup Range(Tail(q))
<1>1. Len(q) \in Nat \ {0} /\ DOMAIN q = 1 .. Len(q)
  BY EmptySeq, LenProperties
<1>2. /\ Head(q) = q[1] /\ Tail(q) \in Seq(S)
      /\ DOMAIN Tail(q) = 1 .. Len(q) - 1
      /\ \A i \in 1 .. Len(q) - 1 : Tail(q)[i] = q[i + 1]
  BY <1>1, HeadTailProperties, LenProperties
<1>3. Range(q) \subseteq {Head(q)} \cup Range(Tail(q))
  <2> SUFFICES ASSUME NEW i \in 1 .. Len(q), i # 1 PROVE q[i] \in Range(Tail(q))
    BY <1>1, <1>2 DEF Range
  <2>1. i - 1 \in 1 .. Len(q) - 1 /\ Tail(q)[i - 1] = q[i]
    BY <1>1, <1>2
  <2> QED  BY <1>2, <2>1 DEF Range
<1>4. {Head(q)} \cup Range(Tail(q)) \subseteq Range(q)
  BY <1>1, <1>2 DEF Range
<1> QED  BY <1>3, <1>4

-----------------------------------------------------------------------------
(* The types, the state of the connection and the place of every message     *)
(* given to it hold together: a step of write_loop, of the tasks that send,  *)
(* or of orchestrate needs all three to preserve each.                       *)
THEOREM Invariance == Spec => [](TypeOK /\ LinkInv /\ QueuedUntilCut)
<1> DEFINE Inv == TypeOK /\ LinkInv /\ QueuedUntilCut
<1>1. Init => Inv
  <2> SUFFICES ASSUME Init PROVE Inv
    OBVIOUS
  <2>1. Range(out) = {}
    BY DEF Init, Range
  <2>2. LinkInv /\ QueuedUntilCut
    BY <2>1 DEF Init, LinkInv, QueuedUntilCut
  <2>3. todo \in Sends /\ Len(out) = 0 /\ Len(evs) = 0
    BY DEF Init, Sends
  <2>4. listening \in BOOLEAN /\ told \in BOOLEAN
    BY DEF Init
  <2>5. out \in Seq(Blob \cup {Note}) /\ evs \in Seq({"event", "disconnected"})
    BY DEF Init
  <2>6. TypeOK
    BY <2>3, <2>4, <2>5 DEF Init, TypeOK
  <2> QED  BY <2>2, <2>6
<1>2. Inv /\ [Next]_vars => Inv'
  <2> SUFFICES ASSUME TypeOK, LinkInv, QueuedUntilCut, [Next]_vars
               PROVE  TypeOK' /\ LinkInv' /\ QueuedUntilCut'
    OBVIOUS
  <2>0. ASSUME UNCHANGED <<on, sock, tasks, out, given, arrived>>
        PROVE  LinkInv' /\ QueuedUntilCut'
    BY <2>0 DEF LinkInv, QueuedUntilCut, Runs, Range
  <2>1. ASSUME NEW x \in Blob \cup Server \cup {"quit"}, Command(x) PROVE Inv'
    <3>1. cmds' \in Seq(Blob \cup Server \cup {"quit"})
      BY <2>1, AppendProperties DEF Command, TypeOK
    <3> QED  BY <2>0, <2>1, <3>1 DEF Command, TypeOK, link, hist
  <2>2. CASE Cut
    BY <2>2 DEF Cut, TypeOK, LinkInv, QueuedUntilCut, hist, Range, Runs
  <2>3. CASE Write
    <3>1. CASE sock = "up"
      <4>1. /\ out # <<>> /\ out' = Tail(out) /\ arrived' = arrived \cup ({Head(out)} \cap Blob)
            /\ UNCHANGED <<server, cmds, loop, msg, on, sock, tasks, inq, todo, evs, listening,
                           told, relay, given>>
        BY <2>3, <3>1 DEF Write
      <4>2. out' \in Seq(Blob \cup {Note}) /\ Len(out') = Len(out) - 1 /\ Len(out) \in Nat
        BY <4>1, HeadTailProperties, LenProperties DEF TypeOK
      <4>3. Range(out) = {Head(out)} \cup Range(out')
        BY <4>1, RangeOfTail DEF TypeOK
      <4>4. TypeOK'
        BY <4>1, <4>2, <4>3 DEF TypeOK, LinkInv
      <4>5. LinkInv'
        BY <4>1, <4>3 DEF LinkInv, Runs
      <4>6. QueuedUntilCut'
        BY <4>1, <4>3 DEF QueuedUntilCut, Runs, TypeOK
      <4> QED  BY <4>4, <4>5, <4>6
    <3>2. CASE sock # "up"
      <4>1. /\ out' = <<>> /\ tasks' = tasks \ {"write"}
            /\ UNCHANGED <<server, cmds, loop, msg, on, sock, inq, todo, evs, listening,
                           told, relay, given, arrived>>
        BY <2>3, <3>2 DEF Write, End
      <4>2. Range(out') = {}
        BY <4>1 DEF Range
      <4>3. TypeOK'
        BY <4>1 DEF TypeOK
      <4>4. LinkInv' /\ QueuedUntilCut'
        BY <3>2, <4>1, <4>2 DEF LinkInv, QueuedUntilCut, TypeOK
      <4> QED  BY <4>3, <4>4
    <3> QED  BY <3>1, <3>2
  <2>4. ASSUME UNCHANGED <<on, sock, out, hist>>, tasks' = tasks \/ \E t \in Task \ {"write"} : End(t)
        PROVE  LinkInv' /\ QueuedUntilCut'
    BY <2>4 DEF LinkInv, QueuedUntilCut, Runs, Range, End, hist
  <2>5. CASE Read \/ ReadFails
    <3>1. LinkInv' /\ QueuedUntilCut'
      BY <2>4, <2>5 DEF Read, ReadFails, Task
    <3>2. TypeOK'
      BY <2>5 DEF Read, ReadFails, Reading, TypeOK, End, hist
    <3> QED  BY <3>1, <3>2
  <2>6. CASE Dispatch
    <3>1. LinkInv' /\ QueuedUntilCut'
      BY <2>4, <2>6 DEF Dispatch, Task
    <3>2. todo' \in Sends /\ tasks' \subseteq Task
      BY <2>6 DEF Dispatch, TypeOK, End
    <3>3. TypeOK'
      BY <2>6, <3>2 DEF Dispatch, TypeOK, hist
    <3> QED  BY <3>1, <3>3
  <2>7. ASSUME NEW e \in {"event", "disconnected"}, Report(e)
        PROVE  evs' \in Seq({"event", "disconnected"}) /\ Len(evs') <= Cap
    <3>1. evs \in Seq({"event", "disconnected"}) /\ Len(evs) <= Cap
      BY DEF TypeOK
    <3>2. CASE evs' = evs
      BY <3>1, <3>2
    <3>3. CASE Len(evs) < Cap /\ evs' = Append(evs, e)
      <4>1. evs' \in Seq({"event", "disconnected"}) /\ Len(evs') = Len(evs) + 1
        BY <3>1, <3>3, AppendProperties
      <4>2. Len(evs) \in Nat
        BY <3>1, LenProperties
      <4> QED  BY <3>3, <4>1, <4>2
    <3> QED  BY <2>7, <3>2, <3>3 DEF Report
  <2>8. ASSUME todo # <<>> PROVE Tail(todo) \in Sends
    <3>1. Tail(<<"event">>) = <<>> /\ Tail(<<"answer">>) = <<>>
      OBVIOUS
    <3>2. Tail(<<"event", "answer">>) = <<"answer">>
      OBVIOUS
    <3> QED  BY <2>8, <3>1, <3>2 DEF TypeOK, Sends
  <2>9. CASE DispatchEvent
    <3>1. LinkInv' /\ QueuedUntilCut'
      BY <2>4, <2>9 DEF DispatchEvent
    <3>2. /\ evs' \in Seq({"event", "disconnected"}) /\ Len(evs') <= Cap
          /\ todo' \in Sends
      BY <2>7, <2>8, <2>9 DEF DispatchEvent
    <3>3. TypeOK'
      BY <2>9, <3>2 DEF DispatchEvent, TypeOK, hist
    <3> QED  BY <3>1, <3>3
  <2>10. ASSUME Runs("write"), Len(out) < Cap, NEW x \in Blob \cup {Note},
                x \in Blob => x \in given', out' = Append(out, x), given \subseteq given',
                sock = "none" => given' = {}, given' \subseteq given \cup {x},
                UNCHANGED <<on, sock, tasks, arrived>>
         PROVE  LinkInv' /\ QueuedUntilCut' /\ out' \in Seq(Blob \cup {Note}) /\ Len(out') <= Cap
    <3>1. Range(out') = Range(out) \cup {x}
      <4>1. out \in Seq(Blob \cup {Note})
        BY DEF TypeOK
      <4> QED  BY <2>10, <4>1, RangeOfAppend
    <3>2. LinkInv'
      BY <2>10, <3>1 DEF LinkInv, Runs
    <3>3. QueuedUntilCut'
      BY <2>10, <3>1 DEF QueuedUntilCut, Runs
    <3>4. out' \in Seq(Blob \cup {Note}) /\ Len(out') <= Cap
      BY <2>10, AppendProperties, LenProperties DEF TypeOK
    <3> QED  BY <3>2, <3>3, <3>4
  <2>11. CASE DispatchAnswer
    <3>1. CASE Runs("write")
      <4>1. LinkInv' /\ QueuedUntilCut' /\ out' \in Seq(Blob \cup {Note}) /\ Len(out') <= Cap
        BY <2>10, <2>11, <3>1 DEF DispatchAnswer, hist, Note, LinkInv
      <4>2. TypeOK'
        BY <2>8, <2>11, <3>1, <4>1 DEF DispatchAnswer, TypeOK, hist
      <4> QED  BY <4>1, <4>2
    <3>2. CASE ~Runs("write")
      <4>1. LinkInv' /\ QueuedUntilCut'
        BY <2>4, <2>11, <3>2 DEF DispatchAnswer, Task
      <4>2. TypeOK'
        BY <2>11, <3>2 DEF DispatchAnswer, TypeOK, End, Sends, hist
      <4> QED  BY <4>1, <4>2
    <3> QED  BY <3>1, <3>2
  <2>12. CASE Announce
    <3>1. CASE Runs("write")
      <4>1. LinkInv' /\ QueuedUntilCut' /\ out' \in Seq(Blob \cup {Note}) /\ Len(out') <= Cap
        BY <2>10, <2>12, <3>1 DEF Announce, hist, Note, LinkInv
      <4>2. TypeOK'
        BY <2>12, <3>1, <4>1 DEF Announce, TypeOK, hist
      <4> QED  BY <4>1, <4>2
    <3>2. CASE ~Runs("write")
      <4>1. LinkInv' /\ QueuedUntilCut'
        BY <2>4, <2>12, <3>2 DEF Announce, Task
      <4>2. TypeOK'
        BY <2>12, <3>2 DEF Announce, TypeOK, End, hist
      <4> QED  BY <4>1, <4>2
    <3> QED  BY <3>1, <3>2
  <2>13. CASE Monitor
    BY <2>4, <2>7, <2>13 DEF Monitor, TypeOK, hist
  <2>14. CASE SessionReads \/ SessionEnds \/ SessionStarts
    BY <2>0, <2>14 DEF SessionReads, SessionEnds, SessionStarts, TypeOK, link, hist
  <2>15. CASE Connected
    <3>1. TypeOK'
      <4>1. <<"event">> \in Seq({"event", "disconnected"}) /\ Len(<<"event">>) = 1
        OBVIOUS
      <4>2. evs' \in Seq({"event", "disconnected"}) /\ Len(evs') <= Cap
        <5>1. evs' = <<"event">> \/ evs' = evs
          BY <2>15 DEF Connected
        <5>2. CASE evs' = <<"event">>
          BY <4>1, <5>2
        <5>3. CASE evs' = evs
          BY <5>3 DEF TypeOK
        <5> QED  BY <5>1, <5>2, <5>3
      <4> QED  BY <2>15, <4>2 DEF Connected, TypeOK, hist
    <3>2. LinkInv'
      BY <2>15 DEF Connected, LinkInv, Runs, Task, Range, hist
    <3>3. QueuedUntilCut'
      BY <2>15 DEF Connected, LinkInv, QueuedUntilCut, Runs, Task, Range, hist
    <3> QED  BY <3>1, <3>2, <3>3
  <2>16. CASE ConnectFails \/ RetryTick
    BY <2>0, <2>16 DEF ConnectFails, RetryTick, TypeOK, link, hist
  <2>17. CASE Wake
    BY <2>17 DEF Wake, TypeOK, LinkInv, QueuedUntilCut, Runs, Range, link, hist
  <2>18. CASE TakeEvent
    <3>1. evs' \in Seq({"event", "disconnected"}) /\ Len(evs') <= Cap
      BY <2>18, HeadTailProperties, LenProperties DEF TakeEvent, TypeOK
    <3> QED  BY <2>0, <2>18, <3>1 DEF TakeEvent, TypeOK, hist
  <2>19. CASE TakeOtherEvent \/ Relayed
    BY <2>0, <2>19 DEF TakeOtherEvent, Relayed, TypeOK, link, hist
  <2>20. CASE TakeCommand
    <3>1. cmds' \in Seq(Blob \cup Server \cup {"quit"})
      BY <2>20, HeadTailProperties DEF TakeCommand, TypeOK
    <3> QED  BY <2>0, <2>20, <3>1 DEF TakeCommand, TypeOK, link, hist
  <2>21. CASE Sent
    <3>1. /\ given' = IF on = "this" THEN given \cup ({msg} \cap Blob) ELSE given
          /\ UNCHANGED <<server, cmds, on, sock, tasks, inq, todo, evs, told, relay, arrived>>
          /\ msg' = None /\ loop' \in {"off", "select"} /\ listening' \in BOOLEAN
      BY <2>21 DEF Sent, TypeOK
    <3>2. given' \subseteq Blob /\ given \subseteq given' /\ (sock = "none" => given' = {})
      BY <3>1 DEF TypeOK, LinkInv
    <3>3. CASE out' = out
      <4>1. LinkInv'
        BY <3>1, <3>2, <3>3 DEF LinkInv, Runs
      <4>2. given' = given \/ sock = "cut"
        BY <2>21, <3>1, <3>3, AppendProperties DEF Sent, TypeOK, LinkInv
      <4>3. QueuedUntilCut'
        BY <3>1, <3>3, <4>2 DEF QueuedUntilCut, Runs
      <4>4. TypeOK'
        BY <3>1, <3>2, <3>3 DEF TypeOK
      <4> QED  BY <4>1, <4>3, <4>4
    <3>4. CASE out' # out
      <4>1. /\ on = "this" /\ Runs("write") /\ Len(out) < Cap
            /\ out' = Append(out, IF msg \in Blob THEN msg ELSE Note)
        BY <2>21, <3>4 DEF Sent
      <4>2. LinkInv' /\ QueuedUntilCut' /\ out' \in Seq(Blob \cup {Note}) /\ Len(out') <= Cap
        <5>1. CASE msg \in Blob
          BY <2>10, <3>1, <3>2, <4>1, <5>1
        <5>2. CASE msg \notin Blob
          BY <2>10, <3>1, <3>2, <4>1, <5>2 DEF Note
        <5> QED  BY <5>1, <5>2
      <4>3. TypeOK'
        BY <3>1, <3>2, <4>2 DEF TypeOK
      <4> QED  BY <4>2, <4>3
    <3> QED  BY <3>3, <3>4
  <2>22. CASE UNCHANGED vars
    BY <2>0, <2>22 DEF vars, TypeOK
  <2> QED
    BY <2>1, <2>2, <2>3, <2>5, <2>6, <2>9, <2>11, <2>12, <2>13, <2>14, <2>15, <2>16, <2>17,
       <2>18, <2>19, <2>20, <2>21, <2>22 DEF Next, UserSends, UserSetsServer, UserQuits
<1> QED  BY <1>1, <1>2, PTL DEF Spec

(* Every variable keeps its type: no channel exceeds its capacity, whichever *)
(* of write_loop, read_loop, the dispatch loop, the presence loop, the       *)
(* monitor and orchestrate send to it, and the server has got only what was  *)
(* stored as sent.                                                           *)
THEOREM TypeCorrect == Spec => []TypeOK
BY Invariance, PTL

(* A message stored in the history as sent has reached the server or is on   *)
(* the out channel of a running write_loop, for any number of messages, any  *)
(* capacity and any servers, unless the connection broke: neither SetServer  *)
(* nor Shutdown nor a failed reconnect loses one.                            *)
THEOREM NothingLost == Spec => []QueuedUntilCut
BY Invariance, PTL
=============================================================================
