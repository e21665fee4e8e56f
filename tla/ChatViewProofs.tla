--------------------------- MODULE ChatViewProofs ----------------------------
(***************************************************************************)
(* Theorems about one conversation from chat.db to the screen, for any     *)
(* messages, any number of incarnations of chat.db and any number of       *)
(* purges and removals.                                                    *)
(***************************************************************************)
EXTENDS ChatView, ChatStoreProofs

Own == {"loop", "task", "dispatch"}

-----------------------------------------------------------------------------
(* What the threads of the client do to chat.db, the store's specification   *)
(* allows, so what it guarantees holds here.                                 *)
LEMMA StoreStep == [Next]_vars => [StoreNext]_store
<1> SUFFICES ASSUME [Next]_vars PROVE StoreNext \/ UNCHANGED store
  OBVIOUS
<1>1. "loop" \in User /\ "task" \in User /\ "dispatch" \in User /\ "ui" \in User /\ Mine \subseteq Msg
  BY ViewConstants
<1>2. ASSUME NEW u \in User, Database(u) PROVE StoreNext
  BY <1>2 DEF Database, StoreNext
<1>3. CASE LoopSend
  BY <1>1, <1>3 DEF LoopSend, StoreNext, StartStore
<1>4. CASE LoopStored \/ TaskStored \/ BlobStored
  BY <1>1, <1>4, Zenon DEF LoopStored, TaskStored, BlobStored, StoreNext
<1>5. CASE LoopPurge \/ LoopRemovePeer \/ BlobPurge
  BY <1>5 DEF LoopPurge, LoopRemovePeer, BlobPurge, StoreNext
<1>6. ASSUME NEW m \in Msg, TaskMessage(m) \/ BlobMessage(m) PROVE StoreNext
  BY <1>1, <1>6 DEF TaskMessage, BlobMessage, StoreNext, StartStore
<1>7. CASE ReloadFailed \/ ReloadDone
  BY <1>1, <1>7, Zenon DEF ReloadFailed, ReloadDone, StoreNext
<1>8. CASE SelectPeer \/ ApplyEvent
  BY <1>1, <1>8 DEF SelectPeer, ApplyEvent, UiIdle, Reload, StoreNext
<1>9. ASSUME \/ LoopBlobStored \/ SelectElsewhere \/ PurgeSelected \/ RemoveSelected \/ Tick
             \/ \E m \in Msg : SendDraft(m)
      PROVE  UNCHANGED store
  BY <1>9 DEF LoopBlobStored, SelectElsewhere, PurgeSelected, RemoveSelected, Tick, SendDraft
<1>10. CASE UNCHANGED vars
  BY <1>10 DEF vars
<1>11. Theirs \ (Blobs \cup used) \subseteq Msg /\ Blobs \ used \subseteq Msg /\ Mine \ used \subseteq Msg
  BY ViewConstants DEF Theirs
<1> QED  BY <1>2, <1>3, <1>4, <1>5, <1>6, <1>7, <1>8, <1>9, <1>10, <1>11 DEF Next

(* The loop, the event task, the dispatch task and the window do with        *)
(* chat.db only what ChatStore lets its users do: persist_message,           *)
(* handle_blob, history, and purge_peer_chat or delete_peer at any moment.   *)
THEOREM UsesStore == Spec => StoreSpec
BY StoreStep, PTL DEF Spec, StoreSpec, Init

(* A message stored by the loop, an event task or the dispatch task is in    *)
(* chat.db until a purge or a removal, whatever the window loads meanwhile.  *)
THEOREM StoredStays == Spec => []StoredUntilPurged
BY UsesStore, NothingOverwritten, PTL

(* The conversation is an append-only log to all the threads of the client.  *)
THEOREM ChatIsLog == Spec => ImplementsLog
BY UsesStore, StoreImplementsLog, PTL

-----------------------------------------------------------------------------
(* The types of the window's state, which depend on those of chat.db.        *)
Cmd == Mine \cup {"purge", "remove"}

LEMMA Rest ==
    ASSUME NEW S, NEW q \in Seq(S), q # <<>>
    PROVE  Head(q) \in S /\ Tail(q) \in Seq(S)
BY HeadTailProperties

LEMMA LoadedType ==
    ASSUME StoreSafe, step["ui"] = "read"
    PROVE  History("ui") \in Seq(Msg)
<1>1. "ui" \in User /\ HasOpen("ui")
  BY ViewConstants DEF HasOpen
<1>2. PICK r : r = rows[handle["ui"]]
  OBVIOUS
<1>3. Consecutive(r) /\ \A k \in DOMAIN r : r[k] \in Row
  BY <1>1, <1>2, OpenFiles
<1>4. Consecutive(Decrypted(r)) /\ \A k \in DOMAIN Decrypted(r) : Decrypted(r)[k] \in Msg
  BY <1>3, ReadDrops, ReadableRows
<1> QED  BY <1>2, <1>4, OrderedType DEF History, Readable

LEMMA Typing ==
    ASSUME TypeOK, StoreSafe, StoreSafe', [Next]_vars
    PROVE  TypeOK'
<1> USE ViewConstants
<1> USE DEF Cmd, TypeOK
<1>0. StoreTypeOK' /\ wipes \in 0 .. MaxWipe /\ cmds \in Seq(Cmd) /\ Mine \subseteq Msg
  BY DEF StoreSafe
<1>1. ASSUME NEW u \in User, Database(u) PROVE TypeOK'
  BY <1>0, <1>1 DEF Database, view
<1>2. cmds # <<>> => Tail(cmds) \in Seq(Cmd)
  BY <1>0, Rest
<1>3. CASE LoopSend
  BY <1>0, <1>2, <1>3 DEF LoopSend
<1>4. \A b \in BOOLEAN : Append(queue, b) \in Seq(BOOLEAN)
  BY AppendProperties
<1>5. CASE LoopStored
  BY <1>0, <1>4, <1>5, Zenon DEF LoopStored
<1>6. CASE LoopPurge
  BY <1>0, <1>2, <1>4, <1>6 DEF LoopPurge
<1>7. CASE LoopRemovePeer
  BY <1>0, <1>2, <1>7 DEF LoopRemovePeer
<1>8. CASE LoopBlobStored
  <2>1. srv' \in Nat
    BY <1>8 DEF LoopBlobStored
  <2> QED  BY <1>0, <1>4, <1>8, <2>1 DEF LoopBlobStored
<1>9. ASSUME NEW m \in Msg, TaskMessage(m) \/ BlobMessage(m) PROVE TypeOK'
  BY <1>0, <1>9 DEF TaskMessage, BlobMessage
<1>10. CASE TaskStored
  BY <1>0, <1>4, <1>10 DEF TaskStored
<1>11. CASE BlobStored
  BY <1>0, <1>11 DEF BlobStored
<1>12. wipes < MaxWipe => wipes + 1 \in 0 .. MaxWipe
  BY <1>0
<1>13. CASE BlobPurge
  BY <1>0, <1>12, <1>13 DEF BlobPurge
<1>14. CASE ReloadFailed
  BY <1>0, <1>14 DEF ReloadFailed
<1>15. CASE ReloadDone
  <2>1. History("ui") \in Seq(Msg)
    BY <1>15, LoadedType DEF ReloadDone, ReadRows
  <2>2. shown' \in [of : {Peer, Elsewhere, None}, rows : Seq(Msg)]
    BY <1>15, <2>1 DEF ReloadDone
  <2>3. seen' \subseteq Msg
    BY <1>15 DEF ReloadDone, Theirs
  <2>4. missed' \in BOOLEAN
    BY <1>15, Zenon DEF ReloadDone
  <2> QED  BY <1>0, <1>15, <2>2, <2>3, <2>4, Zenon DEF ReloadDone
<1>16. Reload => missed' \in BOOLEAN
  BY DEF Reload
<1>17. CASE SelectPeer
  BY <1>0, <1>16, <1>17 DEF SelectPeer
<1>18. CASE SelectElsewhere
  <2>1. <<>> \in Seq(Msg)
    BY EmptySeq
  <2>2. shown' \in [of : {Peer, Elsewhere, None}, rows : Seq(Msg)]
    BY <1>18, <2>1 DEF SelectElsewhere
  <2> QED  BY <1>0, <1>18, <2>2 DEF SelectElsewhere
<1>19. ASSUME NEW m \in Mine, SendDraft(m) PROVE TypeOK'
  <2>1. cmds' \in Seq(Cmd)
    BY <1>0, <1>19, AppendProperties DEF SendDraft
  <2> QED  BY <1>0, <1>19, <2>1 DEF SendDraft
<1>20. CASE PurgeSelected
  <2>1. <<>> \in Seq(Msg)
    BY EmptySeq
  <2>2. shown' \in [of : {Peer, Elsewhere, None}, rows : Seq(Msg)]
    BY <1>20, <2>1 DEF PurgeSelected
  <2>3. cmds' \in Seq(Cmd)
    BY <1>0, <1>20, AppendProperties DEF PurgeSelected
  <2> QED  BY <1>0, <1>12, <1>20, <2>2, <2>3 DEF PurgeSelected
<1>21. CASE RemoveSelected
  <2>1. <<>> \in Seq(Msg)
    BY EmptySeq
  <2>2. shown' \in [of : {Peer, Elsewhere, None}, rows : Seq(Msg)]
    BY <1>21, <2>1 DEF RemoveSelected
  <2>3. cmds' \in Seq(Cmd)
    BY <1>0, <1>21, AppendProperties DEF RemoveSelected
  <2> QED  BY <1>0, <1>12, <1>21, <2>2, <2>3 DEF RemoveSelected
<1>22. CASE Tick
  <2>1. <<>> \in Seq(BOOLEAN)
    BY EmptySeq
  <2> QED  BY <1>0, <1>22, <2>1 DEF Tick
<1>23. CASE ApplyEvent
  <2>1. batch' \in Seq(BOOLEAN)
    BY <1>23, Rest DEF ApplyEvent
  <2>2. missed' \in BOOLEAN
    BY <1>16, <1>23 DEF ApplyEvent
  <2>3. unread' \in Nat
    <3>1. unread' = unread \/ unread' = unread + 1
      BY <1>23, Zenon DEF ApplyEvent
    <3>2. unread \in Nat
      OBVIOUS
    <3> QED  BY ONLY <3>1, <3>2
  <2> QED  BY <1>0, <1>23, <2>1, <2>2, <2>3 DEF ApplyEvent
<1>24. CASE UNCHANGED vars
  BY <1>0, <1>24 DEF vars, view
<1>25. Theirs \ (Blobs \cup used) \subseteq Msg /\ Blobs \ used \subseteq Msg
  BY DEF Theirs
<1> HIDE DEF TypeOK
<1> QED  BY <1>1, <1>3, <1>5, <1>6, <1>7, <1>8, <1>9, <1>10, <1>11, <1>13, <1>14, <1>15,
            <1>17, <1>18, <1>19, <1>20, <1>21, <1>22, <1>23, <1>24, <1>25 DEF Next

LEMMA TypeStart == Init => TypeOK
<1> SUFFICES ASSUME Init PROVE TypeOK
  OBVIOUS
<1>1. StoreTypeOK
  BY StoreStart DEF Init, StoreSafe
<1>2. /\ <<>> \in Seq(Mine \cup {"purge", "remove"}) /\ <<>> \in Seq(BOOLEAN)
      /\ <<>> \in Seq(Msg)
  BY EmptySeq
<1>3. shown \in [of : {Peer, Elsewhere, None}, rows : Seq(Msg)]
  BY <1>2 DEF Init
<1>4. wipes \in 0 .. MaxWipe /\ srv \in Nat /\ unread \in Nat
  BY ViewConstants DEF Init
<1>5. known \in BOOLEAN /\ missed \in BOOLEAN
  BY DEF Init
<1>6. used \subseteq Msg /\ seen \subseteq Msg /\ selected \in {Peer, Elsewhere, None}
  BY DEF Init
<1> QED  BY <1>1, <1>2, <1>3, <1>4, <1>5, <1>6 DEF Init, TypeOK

LEMMA TypesAndStore == Spec => [](TypeOK /\ StoreSafe)
<1>1. TypeOK /\ StoreSafe /\ StoreSafe' /\ [Next]_vars => TypeOK'
  BY Typing
<1> QED  BY <1>1, TypeStart, UsesStore, StoreInvariance, PTL DEF Spec

(* Every variable of the window and of chat.db keeps its type; the badge     *)
(* never goes below zero.                                                    *)
THEOREM TypeCorrect == Spec => []TypeOK
BY TypesAndStore, PTL

-----------------------------------------------------------------------------
(* Who does what: the window only reads, and only the open conversation; the *)
(* others only store, and orchestrate's loop only the user's messages.       *)
LEMMA Threads == User = Own \cup {"ui"} /\ "ui" \notin Own /\ Own = {"loop", "task", "dispatch"}
BY ViewConstants DEF Own

LEMMA StepOf ==
    ASSUME TypeOK, NEW u \in User, NEW s, step' = [step EXCEPT ![u] = s]
    PROVE  step'[u] = s /\ \A v \in User : v # u => step'[v] = step[v]
BY DEF TypeOK, StoreTypeOK

LEMMA UiStep ==
    ASSUME TypeOK, NEW s, step' = [step EXCEPT !["ui"] = s]
    PROVE  step'["ui"] = s /\ \A v \in Own : step'[v] = step[v]
<1>1. "ui" \in User /\ Own \subseteq User /\ "ui" \notin Own
  BY Threads
<1>2. step'["ui"] = s /\ \A v \in User : v # "ui" => step'[v] = step[v]
  BY <1>1, StepOf
<1> QED  BY <1>1, <1>2

LEMMA DatabaseMoves ==
    ASSUME TypeOK, RoleInv, NEW u \in User, Database(u)
    PROVE  \/ u = "ui" /\ OpenToRead("ui")
           \/ /\ u \in Own /\ (OpenToStore(u) \/ StoreFails(u) \/ FindCounter(u) \/ Insert(u))
              /\ step[u] \in {"store", "count", "insert"} /\ work' = work
              /\ \E s \in {"count", "err", "insert", "ok"} : step' = [step EXCEPT ![u] = s]
<1>1. CASE OpenToRead(u)
  <2>1. step[u] = "load"
    BY <1>1 DEF OpenToRead
  <2> QED  BY <1>1, <2>1, Threads DEF RoleInv
<1>2. CASE OpenToStore(u) \/ StoreFails(u) \/ FindCounter(u) \/ Insert(u)
  <2>1. step[u] \in {"store", "count", "insert"}
    BY <1>2 DEF OpenToStore, StoreFails, FindCounter, Insert
  <2>2. u \in Own
    BY <2>1, Threads DEF RoleInv
  <2>3. work' = work /\ \E s \in {"count", "err", "insert", "ok"} : step' = [step EXCEPT ![u] = s]
    BY <1>2 DEF OpenToStore, StoreFails, FindCounter, Insert, SledOpen
  <2> QED  BY <1>2, <2>1, <2>2, <2>3
<1> QED  BY <1>1, <1>2 DEF Database

LEMMA Roles ==
    ASSUME TypeOK, RoleInv, [Next]_vars
    PROVE  RoleInv'
<1>0. "ui" \in User /\ \A u \in Own : u \in User /\ u # "ui"
  BY Threads
<1>1. ASSUME step'["ui"] = step["ui"],
             \A u \in Own : step'[u] \in {step[u], "idle", "err", "ok", "store", "count", "insert"},
             step'["loop"] \in {"store", "count", "insert"} => work'["loop"] \in Mine,
             selected' = selected, unread' = unread
      PROVE  RoleInv'
  BY <1>1 DEF RoleInv, Own
<1>2. ASSUME step'["ui"] \in {"idle", "load", "read"}, \A u \in Own : step'[u] = step[u],
             work' = work, step'["ui"] # "idle" => selected' = Peer,
             selected' = Peer => unread' = 0
      PROVE  RoleInv'
  BY <1>2 DEF RoleInv, Own
<1>3. ASSUME NEW u \in User, Database(u) PROVE RoleInv'
  <2>1. selected' = selected /\ unread' = unread
    BY <1>3 DEF Database, view
  <2>2. CASE u = "ui" /\ OpenToRead("ui")
    <3>1. step["ui"] = "load" /\ step' = [step EXCEPT !["ui"] = "read"] /\ work' = work
      BY <2>2 DEF OpenToRead, SledOpen
    <3>2. step'["ui"] = "read" /\ \A v \in Own : step'[v] = step[v]
      BY <3>1, UiStep
    <3> QED  BY <1>2, <2>1, <3>1, <3>2 DEF RoleInv
  <2>3. CASE /\ u \in Own /\ step[u] \in {"store", "count", "insert"} /\ work' = work
             /\ \E s \in {"count", "err", "insert", "ok"} : step' = [step EXCEPT ![u] = s]
    <3>1. PICK s \in {"count", "err", "insert", "ok"} : step' = [step EXCEPT ![u] = s]
      BY <2>3, Zenon
    <3>2. step'[u] = s /\ \A v \in User : v # u => step'[v] = step[v]
      BY <3>1, StepOf
    <3>3. step'["ui"] = step["ui"]
      BY <1>0, <2>3, <3>2
    <3>4. step'["loop"] \in {"store", "count", "insert"} => step["loop"] \in {"store", "count", "insert"}
      BY <2>3, <3>2, Threads
    <3>5. step'["loop"] \in {"store", "count", "insert"} => work'["loop"] \in Mine
      BY <2>3, <3>4 DEF RoleInv
    <3>6. \A v \in Own : step'[v] \in {step[v], "idle", "err", "ok", "store", "count", "insert"}
      BY <1>0, <3>2
    <3> QED  BY <1>1, <2>1, <3>3, <3>5, <3>6
  <2> QED  BY <1>3, <2>2, <2>3, DatabaseMoves
<1>4. ASSUME NEW u \in Own, NEW s \in {"idle", "store"}, step' = [step EXCEPT ![u] = s],
             u = "loop" /\ s = "store" => work'["loop"] \in Mine,
             u # "loop" => work'["loop"] = work["loop"],
             selected' = selected, unread' = unread
      PROVE  RoleInv'
  <2>1. step'[u] = s /\ \A v \in User : v # u => step'[v] = step[v]
    BY <1>0, <1>4, StepOf
  <2>2. step'["ui"] = step["ui"] /\ "loop" \in User
    BY <1>0, <2>1, Threads
  <2>3. step'["loop"] \in {"store", "count", "insert"} => work'["loop"] \in Mine
    BY <1>4, <2>1, <2>2 DEF RoleInv
  <2>4. \A v \in Own : step'[v] \in {step[v], "idle", "err", "ok", "store", "count", "insert"}
    BY <1>0, <2>1
  <2> QED  BY <1>1, <1>4, <2>2, <2>3, <2>4
<1>5. work \in [User -> Msg \cup {None}]
  BY DEF TypeOK, StoreTypeOK
<1>6. ASSUME UNCHANGED store, selected' = selected, unread' = unread PROVE RoleInv'
  <2>1. step' = step /\ work' = work
    BY <1>6 DEF store
  <2> QED  BY <1>6, <2>1 DEF RoleInv
<1>7. CASE LoopSend
  <2>1. CASE UNCHANGED store
    BY <1>6, <1>7, <2>1 DEF LoopSend
  <2>2. CASE StartStore("loop", Head(cmds))
    <3>1. work'["loop"] \in Mine /\ step' = [step EXCEPT !["loop"] = "store"]
      BY <1>5, <1>7, <2>2, Threads DEF LoopSend, StartStore
    <3> QED  BY <1>4, <1>7, <3>1, Threads DEF LoopSend
  <2> QED  BY <1>7, <2>1, <2>2 DEF LoopSend
<1>8. CASE LoopStored \/ TaskStored \/ BlobStored
  <2>1. PICK u \in Own : Done(u)
    BY <1>8, Threads DEF LoopStored, TaskStored, BlobStored
  <2>2. step' = [step EXCEPT ![u] = "idle"] /\ (u # "loop" => work'["loop"] = work["loop"])
    BY <1>5, <2>1, Threads DEF Done
  <2>3. selected' = selected /\ unread' = unread
    BY <1>8, Zenon DEF LoopStored, TaskStored, BlobStored
  <2> QED  BY <1>4, <2>2, <2>3, Zenon
<1>9. CASE LoopPurge \/ LoopRemovePeer \/ BlobPurge \/ LoopBlobStored
  <2>1. selected' = selected /\ unread' = unread
    BY <1>9 DEF LoopPurge, LoopRemovePeer, BlobPurge, LoopBlobStored
  <2>2. step' = step /\ work' = work
    BY <1>9, Zenon DEF LoopPurge, LoopRemovePeer, BlobPurge, LoopBlobStored, RemoveDir, store
  <2> QED  BY <2>1, <2>2 DEF RoleInv
<1>10. ASSUME NEW m \in Msg, TaskMessage(m) \/ BlobMessage(m) PROVE RoleInv'
  <2>1. PICK u \in {"task", "dispatch"} : StartStore(u, m)
    BY <1>10 DEF TaskMessage, BlobMessage
  <2>2. step' = [step EXCEPT ![u] = "store"] /\ work'["loop"] = work["loop"] /\ u \in Own
    BY <1>5, <2>1, Threads DEF StartStore
  <2>3. selected' = selected /\ unread' = unread
    BY <1>10 DEF TaskMessage, BlobMessage
  <2> QED  BY <1>4, <2>1, <2>2, <2>3
<1>11. CASE ReloadFailed \/ ReloadDone
  <2>1. step' = [step EXCEPT !["ui"] = "idle"] /\ work' = work
    BY <1>11, Zenon DEF ReloadFailed, ReloadDone, HistoryFails, ReadRows
  <2>2. selected' = selected /\ unread' = unread
    BY <1>11 DEF ReloadFailed, ReloadDone
  <2>3. step'["ui"] = "idle" /\ \A v \in Own : step'[v] = step[v]
    BY <2>1, UiStep
  <2> QED  BY <1>2, <2>1, <2>2, <2>3 DEF RoleInv
<1>12. ASSUME Reload, step["ui"] = "idle"
       PROVE  /\ work' = work /\ \A v \in Own : step'[v] = step[v]
              /\ step'["ui"] \in {"idle", "load"}
  <2>1. CASE UNCHANGED store
    BY <1>12, <2>1 DEF store
  <2>2. CASE StartHistory("ui")
    <3>1. step' = [step EXCEPT !["ui"] = "load"] /\ work' = work
      BY <2>2 DEF StartHistory
    <3> QED  BY <3>1, UiStep
  <2> QED  BY <1>12, <2>1, <2>2 DEF Reload
<1>13. CASE SelectPeer
  <2>1. selected' = Peer /\ unread' = 0 /\ Reload /\ step["ui"] = "idle"
    BY <1>13 DEF SelectPeer, UiIdle
  <2> QED  BY <1>2, <1>12, <2>1
<1>14. CASE SelectElsewhere
  <2>1. selected' # Peer /\ step' = step /\ work' = work /\ step["ui"] = "idle"
    BY <1>14, ViewConstants DEF SelectElsewhere, UiIdle, store
  <2> QED  BY <1>2, <2>1
<1>15. CASE (\E m \in Msg : SendDraft(m)) \/ PurgeSelected \/ Tick
  BY <1>6, <1>15 DEF SendDraft, PurgeSelected, Tick
<1>16. CASE RemoveSelected
  <2>1. selected' # Peer /\ step' = step /\ work' = work /\ step["ui"] = "idle"
    BY <1>16, ViewConstants DEF RemoveSelected, UiIdle, store
  <2> QED  BY <1>2, <2>1
<1>17. CASE ApplyEvent
  <2>1. step["ui"] = "idle" /\ selected' = selected
    BY <1>17 DEF ApplyEvent
  <2>2. CASE selected = Peer /\ Reload /\ UNCHANGED unread
    BY <1>2, <1>12, <2>1, <2>2 DEF RoleInv
  <2>3. CASE selected # Peer /\ UNCHANGED store
    <3>1. step' = step /\ work' = work
      BY <2>3 DEF store
    <3> QED  BY <1>2, <2>1, <2>3, <3>1
  <2> QED  BY <1>17, <2>2, <2>3 DEF ApplyEvent
<1>18. CASE UNCHANGED vars
  BY <1>6, <1>18 DEF vars, view
<1>19. /\ Theirs \ (Blobs \cup used) \subseteq Msg /\ Blobs \ used \subseteq Msg
       /\ Mine \ used \subseteq Msg
  BY ViewConstants DEF Theirs
<1> QED  BY <1>3, <1>7, <1>8, <1>9, <1>10, <1>11, <1>13, <1>14, <1>15, <1>16, <1>17,
            <1>18, <1>19 DEF Next

-----------------------------------------------------------------------------
(* What the steps of the store do to the rows that a load would show.        *)
LEMMA NothingReadable ==
    ASSUME NEW r, \A k \in DOMAIN r : r[k] = Old
    PROVE  Readable(r) = <<>>
<1>1. DOMAIN Decrypted(r) = {}
  BY DEF Decrypted
<1> QED  BY <1>1, FS_EmptySet DEF Readable, InOrder

LEMMA EmptyOnDisk ==
    ASSUME StoreSafe, InChat = {}
    PROVE  OnDisk = <<>>
BY NothingReadable DEF InChat, OnDisk

LEMMA DiskKept ==
    ASSUME dir' = dir, rows' = rows
    PROVE  InChat' = InChat /\ OnDisk' = OnDisk
BY DEF InChat, OnDisk

LEMMA OpenKeeps ==
    ASSUME StoreSafe, NEW u \in User, NEW next, SledOpen(u, next)
    PROVE  InChat' = InChat /\ OnDisk' = OnDisk /\ (dir # 0 => dir' = dir)
<1>1. rows' = rows /\ (dir # 0 => dir' = dir)
  BY DEF SledOpen
<1>2. CASE dir # 0
  BY <1>1, <1>2, DiskKept
<1>3. CASE dir = 0
  <2>1. gen \in Gen /\ gen < MaxGen /\ dir' = gen + 1
    BY <1>3 DEF SledOpen, StoreSafe, StoreTypeOK
  <2>2. gen + 1 \in Gen /\ gen + 1 > gen /\ gen + 1 # 0
    BY <2>1, StoreConstants DEF Gen
  <2>3. rows'[dir'] = NoRows /\ dir' # 0
    BY <1>1, <2>1, <2>2 DEF StoreSafe, StoreInv
  <2>4. InChat' = {} /\ InChat = {}
    BY <1>3, <2>3, NoRowsFollow DEF InChat
  <2>5. OnDisk' = <<>> /\ OnDisk = <<>>
    BY <1>3, <2>3, NoRowsFollow, NothingReadable DEF OnDisk
  <2> QED  BY <1>3, <2>4, <2>5
<1> QED  BY <1>2, <1>3

(* A load of the files that are there shows what they then hold; the rows it *)
(* drops were no messages.                                                   *)
LEMMA Loaded ==
    ASSUME StoreSafe, ReadRows("ui"), handle["ui"] = dir
    PROVE  OnDisk' = History("ui") /\ InChat = Range(History("ui"))
<1>1. "ui" \in User /\ HasOpen("ui")
  BY ViewConstants DEF ReadRows, HasOpen
<1>2. PICK r, d : r = rows[dir] /\ d = Decrypted(r)
  OBVIOUS
<1>3. handle["ui"] \in Gen /\ Consecutive(r) /\ \A k \in DOMAIN r : r[k] \in Row
  BY <1>1, <1>2, OpenFiles
<1>4. dir' = dir /\ dir # 0 /\ rows'[dir] = d /\ dir \in Gen
  BY <1>2, <1>3 DEF ReadRows, Gen, StoreSafe, StoreTypeOK
<1>5. /\ Consecutive(d) /\ Decrypted(d) = d /\ \A k \in DOMAIN d : d[k] \in Msg
      /\ {d[k] : k \in DOMAIN d} = {r[k] : k \in DOMAIN r} \ {Old}
  <2>1. Consecutive(d)
    BY <1>2, <1>3, ReadDrops
  <2>2. Decrypted(d) = d /\ \A k \in DOMAIN d : d[k] \in Msg
    BY <1>2, <1>3, ReadableRows
  <2>3. {d[k] : k \in DOMAIN d} = {r[k] : k \in DOMAIN r} \ {Old}
    BY <1>2, <1>3, ReadableRows
  <2> QED  BY <2>1, <2>2, <2>3
<1>6. OnDisk' = InOrder(d) /\ History("ui") = InOrder(d)
  BY <1>2, <1>4, <1>5 DEF OnDisk, History, Readable
<1>7. InChat = {d[k] : k \in DOMAIN d}
  BY <1>2, <1>4, <1>5 DEF InChat
<1>8. Range(InOrder(d)) = {d[k] : k \in DOMAIN d}
  BY <1>5, OrderedType
<1> QED  BY <1>6, <1>7, <1>8

LEMMA Appended ==
    ASSUME NEW S, NEW q \in Seq(S), NEW x \in S
    PROVE  Append(q, x) # <<>> /\ \A y \in Range(q) : y \in Range(Append(q, x))
<1>1. /\ Append(q, x) \in Seq(S) /\ Len(Append(q, x)) = Len(q) + 1
      /\ \A i \in 1 .. Len(q) : Append(q, x)[i] = q[i]
  BY AppendProperties
<1>2. Len(q) \in Nat /\ DOMAIN q = 1 .. Len(q) /\ DOMAIN Append(q, x) = 1 .. Len(q) + 1
  BY <1>1, LenProperties
<1>3. Append(q, x) # <<>>
  <2>1. 1 \in DOMAIN Append(q, x) /\ DOMAIN << >> = {}
    BY <1>2
  <2> QED  BY <2>1
<1>4. \A i \in 1 .. Len(q) : i \in 1 .. Len(q) + 1
  BY <1>2
<1> QED  BY <1>1, <1>2, <1>3, <1>4 DEF Range

LEMMA StillThere ==
    ASSUME NEW S, NEW q \in Seq(S), q # <<>>, NEW x \in Range(q), x # Head(q)
    PROVE  x \in Range(Tail(q))
<1>1. PICK i \in 1 .. Len(q) : q[i] = x
  BY LenProperties DEF Range
<1>2. Len(q) \in Nat /\ q[1] # x
  BY LenProperties, HeadTailProperties
<1>3. PICK j : j = i - 1 /\ j \in 1 .. Len(q) - 1 /\ j + 1 = i
  BY <1>1, <1>2
<1>4. Tail(q) \in Seq(S) /\ Len(Tail(q)) = Len(q) - 1 /\ Tail(q)[j] = q[j + 1]
  BY <1>3, HeadTailProperties
<1>5. j \in DOMAIN Tail(q)
  BY <1>3, <1>4, LenProperties
<1> QED  BY <1>1, <1>3, <1>4, <1>5 DEF Range

-----------------------------------------------------------------------------
(* The screen.                                                               *)
LEMMA ViewKept ==
    ASSUME ViewInv, UNCHANGED <<known, selected, missed>>,
           Coming => Coming', Loading => Loading', Current => Current', Purging => Purging',
           queue # <<>> => queue' # <<>>, InChat = {} => InChat' = {},
           step'["ui"] # "idle" => step["ui"] # "idle",
           step'["ui"] = "read" /\ handle'["ui"] # dir' => step["ui"] = "read" /\ handle["ui"] # dir
    PROVE  ViewInv'
BY DEF ViewInv

LEMMA ViewComing ==
    ASSUME Coming',
           step'["ui"] = "read" /\ handle'["ui"] # dir' /\ ~missed' => queue' # <<>>
    PROVE  ViewInv'
BY DEF ViewInv

LEMMA ViewClosed ==
    ASSUME step'["ui"] = "idle", ~(selected' = Peer /\ ~missed')
    PROVE  ViewInv'
BY DEF ViewInv

(* Steps that leave the files, and what the window does with them, alone.    *)
LEMMA OtherThread ==
    ASSUME TypeOK, NEW u \in Own, NEW s, step' = [step EXCEPT ![u] = s],
           UNCHANGED <<dir, rows, handle, shown>>
    PROVE  /\ Loading' = Loading /\ Current' = Current /\ InChat' = InChat
           /\ step'["ui"] = step["ui"] /\ handle'["ui"] = handle["ui"] /\ dir' = dir
           /\ step'[u] = s /\ \A v \in Own : v # u => step'[v] = step[v]
<1>1. step'["ui"] = step["ui"] /\ step'[u] = s /\ \A v \in Own : v # u => step'[v] = step[v]
  <2>1. u \in User /\ u # "ui" /\ "ui" \in User /\ Own \subseteq User
    BY Threads
  <2>2. step'[u] = s /\ \A v \in User : v # u => step'[v] = step[v]
    BY <2>1, StepOf
  <2> QED  BY <2>1, <2>2
<1> QED  BY <1>1, DiskKept DEF Loading, Current

LEMMA Untouched ==
    ASSUME UNCHANGED <<store, shown>>
    PROVE  /\ Loading' = Loading /\ Current' = Current /\ InChat' = InChat
           /\ step' = step /\ handle' = handle /\ dir' = dir
BY DiskKept DEF store, Loading, Current

LEMMA OpenOther ==
    ASSUME TypeOK, StoreSafe, NEW u \in Own, OpenToStore(u)
    PROVE  /\ (Loading => Loading') /\ InChat' = InChat /\ OnDisk' = OnDisk
           /\ step'["ui"] = step["ui"] /\ step[u] = "store" /\ step'[u] = "count"
           /\ \A v \in Own : v # u => step'[v] = step[v]
           /\ step'["ui"] = "read" /\ handle'["ui"] # dir' => step["ui"] = "read" /\ handle["ui"] # dir
<1>1. /\ step[u] = "store" /\ SledOpen(u, "count")
      /\ step' = [step EXCEPT ![u] = "count"] /\ handle' = [handle EXCEPT ![u] = dir']
  BY DEF OpenToStore, SledOpen
<1>2. u \in User /\ u # "ui" /\ "ui" \in User /\ Own \subseteq User
  BY Threads
<1>3. step'[u] = "count" /\ \A v \in User : v # u => step'[v] = step[v]
  BY <1>1, <1>2, StepOf
<1>4. handle'["ui"] = handle["ui"]
  BY <1>1, <1>2 DEF TypeOK, StoreTypeOK
<1>5. InChat' = InChat /\ OnDisk' = OnDisk /\ (dir # 0 => dir' = dir)
  BY <1>1, <1>2, OpenKeeps
<1>6. step["ui"] = "read" => handle["ui"] # 0
  BY <1>2 DEF StoreSafe, StoreInv, HasOpen
<1>7. step'["ui"] = step["ui"]
  BY <1>2, <1>3
<1>8. Loading => Loading'
  BY <1>4, <1>5, <1>6, <1>7 DEF Loading
<1> QED  BY <1>1, <1>2, <1>3, <1>4, <1>5, <1>6, <1>7, <1>8

LEMMA ViewDatabase ==
    ASSUME TypeOK, StoreSafe, RoleInv, ViewInv, NEW u \in User, Database(u)
    PROVE  ViewInv'
<1>1. UNCHANGED <<known, cmds, srv, queue, batch, selected, shown, missed>>
  BY DEF Database, view
<1>2. Purging' = Purging
  BY <1>1 DEF Purging
<1>3. CASE u = "ui" /\ OpenToRead("ui")
  <2>1. /\ step["ui"] = "load" /\ SledOpen("ui", "read") /\ "ui" \in User
        /\ step' = [step EXCEPT !["ui"] = "read"] /\ handle' = [handle EXCEPT !["ui"] = dir']
    BY <1>3 DEF OpenToRead, SledOpen
  <2>2. step'["ui"] = "read" /\ \A v \in Own : step'[v] = step[v]
    BY <2>1, UiStep
  <2>3. handle'["ui"] = dir'
    BY <2>1 DEF TypeOK, StoreTypeOK
  <2>4. Coming => Coming'
    BY <1>1, <2>2 DEF Coming, Own
  <2>5. InChat' = InChat /\ OnDisk' = OnDisk
    BY <2>1, OpenKeeps
  <2> QED  BY <1>1, <1>2, <2>1, <2>2, <2>3, <2>4, <2>5, ViewKept DEF Loading, Current
<1>4. CASE u \in Own /\ OpenToStore(u)
  <2>1. /\ (Loading => Loading') /\ InChat' = InChat /\ OnDisk' = OnDisk
        /\ step'["ui"] = step["ui"] /\ step[u] = "store" /\ step'[u] = "count"
        /\ \A v \in Own : v # u => step'[v] = step[v]
        /\ step'["ui"] = "read" /\ handle'["ui"] # dir' => step["ui"] = "read" /\ handle["ui"] # dir
    BY <1>4, OpenOther
  <2>2. Coming => Coming'
    BY <1>1, <2>1 DEF Coming, Own
  <2> QED  BY <1>1, <1>2, <2>1, <2>2, ViewKept DEF Current
<1>5. CASE u \in Own /\ (StoreFails(u) \/ FindCounter(u))
  <2>1. PICK s \in {"err", "insert"} : step' = [step EXCEPT ![u] = s]
    BY <1>5 DEF StoreFails, FindCounter
  <2>2. step[u] # "ok" /\ UNCHANGED <<dir, rows, handle, shown>>
    BY <1>1, <1>5 DEF StoreFails, FindCounter
  <2>3. /\ Loading' = Loading /\ Current' = Current /\ InChat' = InChat
        /\ step'["ui"] = step["ui"] /\ handle'["ui"] = handle["ui"] /\ dir' = dir
        /\ step'[u] = s /\ \A v \in Own : v # u => step'[v] = step[v]
    BY <1>5, <2>1, <2>2, OtherThread, Zenon
  <2>4. Coming => Coming'
    BY <1>1, <2>2, <2>3 DEF Coming, Own
  <2> QED  BY <1>1, <1>2, <2>3, <2>4, ViewKept
<1>6. CASE u \in Own /\ Insert(u)
  <2>1. /\ step' = [step EXCEPT ![u] = "ok"] /\ dir' = dir
        /\ handle' = [handle EXCEPT ![u] = 0]
    BY <1>6 DEF Insert, Close
  <2>2. step'[u] = "ok" /\ step'["ui"] = step["ui"]
    BY <1>6, <2>1, StepOf, Threads
  <2>3. handle'["ui"] = handle["ui"]
    BY <1>6, <2>1, Threads DEF TypeOK, StoreTypeOK
  <2>4. Coming'
    BY <1>6, <2>2 DEF Coming, Own
  <2> QED  BY <1>1, <2>1, <2>2, <2>3, <2>4, ViewComing DEF ViewInv
<1> QED  BY <1>3, <1>4, <1>5, <1>6, DatabaseMoves

(* The loop, the event task and the dispatch task.                           *)
LEMMA ViewThreads ==
    ASSUME TypeOK, StoreSafe, RoleInv, ViewInv,
           \/ LoopSend \/ LoopStored \/ LoopPurge \/ LoopRemovePeer \/ LoopBlobStored
           \/ (\E m \in Msg : TaskMessage(m) \/ BlobMessage(m))
           \/ TaskStored \/ BlobStored \/ BlobPurge
    PROVE  ViewInv'
<1>1. /\ "loop" \in Own /\ "task" \in Own /\ "dispatch" \in Own
      /\ queue \in Seq(BOOLEAN) /\ srv \in Nat /\ cmds \in Seq(Cmd)
  BY Threads DEF TypeOK, Cmd
<1>2. \A b \in BOOLEAN : Append(queue, b) # <<>>
  BY <1>1, Appended
<1>3. CASE LoopSend
  <2>1. /\ UNCHANGED <<known, srv, queue, batch, selected, shown, missed>>
        /\ cmds # <<>> /\ Head(cmds) \in Mine /\ cmds' = Tail(cmds)
    BY <1>3 DEF LoopSend
  <2>2. Head(cmds) # "purge"
    BY <2>1, ViewConstants
  <2>3. "purge" \in Range(cmds) => "purge" \in Range(cmds')
    BY <1>1, <2>1, <2>2, StillThere
  <2>4. Purging => Purging'
    BY <2>1, <2>3 DEF Purging
  <2>5. CASE UNCHANGED store
    <3>1. /\ Loading' = Loading /\ Current' = Current /\ InChat' = InChat
          /\ step' = step /\ handle' = handle /\ dir' = dir
      BY <2>1, <2>5, Untouched
    <3>2. Coming => Coming'
      BY <2>1, <3>1 DEF Coming
    <3> QED  BY <2>1, <2>4, <3>1, <3>2, ViewKept
  <2>6. CASE StartStore("loop", Head(cmds))
    <3>1. /\ step["loop"] = "idle" /\ step' = [step EXCEPT !["loop"] = "store"]
          /\ UNCHANGED <<dir, rows, handle, shown>>
      BY <2>1, <2>6 DEF StartStore
    <3>2. /\ Loading' = Loading /\ Current' = Current /\ InChat' = InChat
          /\ step'["ui"] = step["ui"] /\ handle'["ui"] = handle["ui"] /\ dir' = dir
          /\ \A v \in Own : v # "loop" => step'[v] = step[v]
      BY <1>1, <3>1, OtherThread
    <3>3. Coming => Coming'
      BY <2>1, <3>1, <3>2 DEF Coming, Own
    <3> QED  BY <2>1, <2>4, <3>2, <3>3, ViewKept
  <2> QED  BY <1>3, <2>5, <2>6 DEF LoopSend
<1>4. ASSUME NEW m \in Msg, TaskMessage(m) \/ BlobMessage(m) PROVE ViewInv'
  <2>1. PICK u \in {"task", "dispatch"} : StartStore(u, m)
    BY <1>4 DEF TaskMessage, BlobMessage
  <2>2. UNCHANGED <<known, cmds, srv, queue, batch, selected, shown, missed>>
    BY <1>4 DEF TaskMessage, BlobMessage
  <2>3. /\ step[u] = "idle" /\ step' = [step EXCEPT ![u] = "store"]
        /\ UNCHANGED <<dir, rows, handle, shown>> /\ u \in Own
    BY <1>1, <2>1, <2>2 DEF StartStore
  <2>4. /\ Loading' = Loading /\ Current' = Current /\ InChat' = InChat
        /\ step'["ui"] = step["ui"] /\ handle'["ui"] = handle["ui"] /\ dir' = dir
        /\ \A v \in Own : v # u => step'[v] = step[v]
    BY <2>3, OtherThread, Zenon
  <2>5. (Coming => Coming') /\ (Purging => Purging')
    BY <2>2, <2>3, <2>4 DEF Coming, Purging, Own
  <2> QED  BY <2>2, <2>4, <2>5, ViewKept
<1>5. ASSUME NEW u \in Own, Done(u), UNCHANGED <<known, cmds, batch, selected, shown, missed>>,
             step[u] = "ok" => queue' # <<>> \/ srv' > 0,
             queue # <<>> => queue' # <<>>, srv > 0 => srv' > 0
      PROVE  ViewInv'
  <2>1. step' = [step EXCEPT ![u] = "idle"] /\ UNCHANGED <<dir, rows, handle, shown>>
    BY <1>5 DEF Done
  <2>2. /\ Loading' = Loading /\ Current' = Current /\ InChat' = InChat
        /\ step'["ui"] = step["ui"] /\ handle'["ui"] = handle["ui"] /\ dir' = dir
        /\ \A v \in Own : v # u => step'[v] = step[v]
    BY <2>1, OtherThread, Zenon
  <2>3. Coming => Coming'
    BY <1>5, <2>2 DEF Coming, Own
  <2>4. Purging => Purging'
    BY <1>5 DEF Purging
  <2> QED  BY <1>5, <2>2, <2>3, <2>4, ViewKept
<1>6. CASE LoopStored
  BY <1>1, <1>2, <1>5, <1>6, Zenon DEF LoopStored
<1>7. CASE TaskStored
  BY <1>1, <1>2, <1>5, <1>7 DEF TaskStored
<1>8. CASE BlobStored
  <2>1. srv' \in {srv, srv + 1} /\ (step["dispatch"] = "ok" => srv' > 0)
    BY <1>1, <1>8 DEF BlobStored
  <2> QED  BY <1>1, <1>5, <1>8, <2>1 DEF BlobStored
<1>9. CASE LoopBlobStored
  <2>1. queue' # <<>>
    BY <1>2, <1>9 DEF LoopBlobStored
  <2> QED  BY <2>1, ViewComing DEF Coming
<1>10. CASE LoopPurge
  <2>1. CASE known
    <3>1. queue' # <<>>
      BY <1>2, <1>10, <2>1 DEF LoopPurge
    <3> QED  BY <3>1, ViewComing DEF Coming
  <2>2. CASE ~known
    <3>1. UNCHANGED <<store, known, srv, queue, batch, selected, shown, missed>>
      BY <1>10, <2>2 DEF LoopPurge
    <3>2. /\ Loading' = Loading /\ Current' = Current /\ InChat' = InChat
          /\ step' = step /\ handle' = handle /\ dir' = dir
      BY <3>1, Untouched
    <3>3. (Coming => Coming') /\ (Purging => Purging')
      BY <2>2, <3>1, <3>2 DEF Coming, Purging
    <3> QED  BY <3>1, <3>2, <3>3, ViewKept
  <2> QED  BY <2>1, <2>2
<1>11. CASE LoopRemovePeer
  <2>1. missed' = TRUE /\ RemoveDir
    BY <1>11 DEF LoopRemovePeer
  <2>2. InChat' = {}
    BY <2>1, Removing
  <2> QED  BY <2>1, <2>2 DEF ViewInv
<1>12. CASE BlobPurge
  <2>1. missed' = TRUE /\ known'
    BY <1>12 DEF BlobPurge
  <2> QED  BY <2>1 DEF ViewInv
<1> QED  BY <1>3, <1>4, <1>6, <1>7, <1>8, <1>9, <1>10, <1>11, <1>12

(* The window.                                                               *)
LEMMA ViewReload ==
    ASSUME TypeOK, Reload, step["ui"] = "idle", known' = known
    PROVE  ViewInv' /\ (missed' \/ Loading')
<1>1. CASE ~known
  <2>1. missed' = TRUE /\ step' = step
    BY <1>1 DEF Reload, store
  <2> QED  BY <2>1, ViewClosed
<1>2. CASE known
  <2>1. step' = [step EXCEPT !["ui"] = "load"]
    BY <1>2 DEF Reload, StartHistory
  <2>2. step'["ui"] = "load"
    BY <2>1, UiStep
  <2> QED  BY <1>2, <2>2 DEF ViewInv, Loading
<1> QED  BY <1>1, <1>2

LEMMA ViewWindow ==
    ASSUME TypeOK, StoreSafe, RoleInv, ViewInv,
           \/ ReloadFailed \/ ReloadDone \/ SelectPeer \/ SelectElsewhere
           \/ (\E m \in Mine : SendDraft(m))
           \/ PurgeSelected \/ RemoveSelected \/ Tick \/ ApplyEvent
    PROVE  ViewInv'
<1>1. "ui" \in User /\ cmds \in Seq(Cmd) /\ Mine \subseteq Cmd /\ "purge" \in Cmd
  BY Threads DEF TypeOK, Cmd
<1>2. CASE ReloadFailed
  <2>1. missed' = TRUE /\ step' = [step EXCEPT !["ui"] = "idle"]
    BY <1>2 DEF ReloadFailed, HistoryFails
  <2>2. step'["ui"] = "idle"
    BY <1>1, <2>1, StepOf
  <2> QED  BY <2>1, <2>2, ViewClosed
<1>3. CASE ReloadDone
  <2>1. /\ ReadRows("ui") /\ shown' = [of |-> Peer, rows |-> History("ui")]
        /\ missed' = (IF handle["ui"] = dir THEN FALSE ELSE missed)
        /\ UNCHANGED <<known, cmds, srv, queue, batch, selected>>
    BY <1>3 DEF ReloadDone
  <2>2. step["ui"] = "read" /\ step' = [step EXCEPT !["ui"] = "idle"]
    BY <2>1 DEF ReadRows
  <2>3. step'["ui"] = "idle" /\ \A v \in Own : step'[v] = step[v]
    BY <2>2, UiStep
  <2>4. InChat' = InChat
    BY <1>1, <2>1, Reading
  <2>5. Coming => Coming'
    BY <2>1, <2>3 DEF Coming, Own
  <2>6. ~known' => Coming' \/ InChat' = {}
    BY <2>1, <2>2, <2>4, <2>5 DEF ViewInv
  <2>7. CASE handle["ui"] = dir
    <3>1. Current'
      BY <2>1, <2>7, Loaded DEF Current
    <3> QED  BY <2>3, <2>6, <3>1 DEF ViewInv
  <2>8. CASE handle["ui"] # dir
    <3>1. ~missed' => Coming'
      BY <2>1, <2>2, <2>5, <2>8 DEF ViewInv, Coming
    <3> QED  BY <2>3, <2>6, <3>1 DEF ViewInv
  <2> QED  BY <2>7, <2>8
<1>4. CASE SelectPeer
  BY <1>4, ViewReload DEF SelectPeer, UiIdle
<1>5. CASE SelectElsewhere \/ RemoveSelected
  <2>1. step["ui"] = "idle" /\ step' = step /\ selected' # Peer
    BY <1>5, ViewConstants DEF SelectElsewhere, RemoveSelected, UiIdle, store
  <2> QED  BY <2>1, ViewClosed
<1>6. ASSUME NEW m \in Mine, SendDraft(m) PROVE ViewInv'
  <2>1. UNCHANGED <<store, known, srv, queue, batch, selected, shown, missed>>
    BY <1>6 DEF SendDraft
  <2>2. "purge" \in Range(cmds) => "purge" \in Range(cmds')
    BY <1>1, <1>6, Appended DEF SendDraft
  <2>3. /\ Loading' = Loading /\ Current' = Current /\ InChat' = InChat
        /\ step' = step /\ handle' = handle /\ dir' = dir
    BY <2>1, Untouched
  <2>4. (Coming => Coming') /\ (Purging => Purging')
    BY <2>1, <2>2, <2>3 DEF Coming, Purging
  <2> QED  BY <2>1, <2>3, <2>4, ViewKept
<1>7. CASE PurgeSelected
  <2>1. /\ step["ui"] = "idle" /\ UNCHANGED <<store, known, srv, queue, batch, selected, missed>>
        /\ cmds' = Append(cmds, "purge") /\ shown' = [shown EXCEPT !.rows = <<>>]
    BY <1>7 DEF PurgeSelected, UiIdle
  <2>2. step' = step /\ dir' = dir /\ rows' = rows
    BY <2>1 DEF store
  <2>3. InChat' = InChat /\ OnDisk' = OnDisk
    BY <2>2, DiskKept
  <2>4. Coming' = Coming
    BY <2>1, <2>2 DEF Coming
  <2>5. "purge" \in Range(cmds')
    <3>1. /\ cmds' \in Seq(Cmd) /\ Len(cmds') = Len(cmds) + 1 /\ cmds'[Len(cmds) + 1] = "purge"
      BY <1>1, <2>1, AppendProperties
    <3>2. Len(cmds) + 1 \in DOMAIN cmds'
      BY <1>1, <3>1, LenProperties
    <3> QED  BY <3>1, <3>2 DEF Range
  <2>6. shown.of = Peer => shown' = [of |-> Peer, rows |-> <<>>]
    BY <2>1 DEF TypeOK
  <2>7. ~Loading
    BY <2>1 DEF Loading
  <2>8. selected = Peer /\ ~missed => Coming \/ shown.of = Peer
    <3>1. \A x : shown = [of |-> Peer, rows |-> x] => shown.of = Peer
      OBVIOUS
    <3>2. (Current => shown.of = Peer) /\ (Purging => shown.of = Peer)
      BY <3>1, Zenon DEF Current, Purging
    <3> QED  BY <2>7, <3>2 DEF ViewInv
  <2>9. InChat = {} /\ shown.of = Peer => Current'
    BY <2>3, <2>6, EmptyOnDisk DEF Current
  <2>10. known /\ shown.of = Peer => Purging'
    BY <2>1, <2>5, <2>6 DEF Purging
  <2>11. selected = Peer /\ ~missed => Coming' \/ Current' \/ Purging'
    BY <2>4, <2>8, <2>9, <2>10 DEF ViewInv
  <2> QED  BY <2>1, <2>2, <2>3, <2>4, <2>11 DEF ViewInv
<1>8. CASE Tick
  <2>1. batch' # <<>> /\ step["ui"] = "idle" /\ step' = step
    BY <1>8 DEF Tick, UiIdle, store
  <2> QED  BY <2>1, ViewComing DEF Coming
<1>9. CASE ApplyEvent
  <2>1. step["ui"] = "idle" /\ UNCHANGED <<known, selected>>
    BY <1>9 DEF ApplyEvent
  <2>2. CASE Reload
    BY <2>1, <2>2, ViewReload
  <2>3. CASE selected # Peer /\ UNCHANGED store
    <3>1. step' = step
      BY <2>3 DEF store
    <3> QED  BY <2>1, <2>3, <3>1, ViewClosed
  <2> QED  BY <1>9, <2>2, <2>3 DEF ApplyEvent
<1> QED  BY <1>2, <1>3, <1>4, <1>5, <1>6, <1>7, <1>8, <1>9

LEMMA ViewStep ==
    ASSUME TypeOK, StoreSafe, RoleInv, ViewInv, [Next]_vars
    PROVE  ViewInv'
<1>1. /\ Theirs \ (Blobs \cup used) \subseteq Msg /\ Blobs \ used \subseteq Msg
      /\ Mine \ used \subseteq Mine
  BY ViewConstants DEF Theirs
<1>2. CASE UNCHANGED vars
  <2>1. /\ UNCHANGED <<store, shown>> /\ UNCHANGED <<known, cmds, selected, missed>>
        /\ UNCHANGED <<srv, queue, batch>>
    BY <1>2 DEF vars, view
  <2>2. /\ Loading' = Loading /\ Current' = Current /\ InChat' = InChat
        /\ step' = step /\ handle' = handle /\ dir' = dir
    BY <2>1, Untouched
  <2>3. (Coming => Coming') /\ (Purging => Purging')
    BY <2>1, <2>2 DEF Coming, Purging
  <2> QED  BY <2>1, <2>2, <2>3, ViewKept
<1>3. CASE Next
  BY <1>1, <1>3, ViewDatabase, ViewThreads, ViewWindow DEF Next
<1> QED  BY <1>2, <1>3

LEMMA ViewInvariance == Spec => [](TypeOK /\ StoreSafe /\ RoleInv /\ ViewInv)
<1>1. Init => RoleInv /\ ViewInv
  <2> SUFFICES ASSUME Init PROVE RoleInv /\ ViewInv
    OBVIOUS
  <2>1. \A u \in User : step[u] = "idle"
    BY DEF Init, StoreInit
  <2>2. selected # Peer /\ known
    BY ViewConstants DEF Init
  <2> QED  BY <2>1, <2>2, Threads DEF RoleInv, ViewInv
<1>2. TypeOK /\ StoreSafe /\ RoleInv /\ ViewInv /\ [Next]_vars => RoleInv' /\ ViewInv'
  BY Roles, ViewStep
<1> QED  BY <1>1, <1>2, TypesAndStore, PTL DEF Spec

(* When everything sent, arrived or purged has been worked off and no load   *)
(* was missed, the screen shows the conversation as chat.db has it.          *)
THEOREM ScreenIsCurrent == Spec => []ViewCurrent
<1>1. TypeOK /\ RoleInv /\ ViewInv => ViewCurrent
  <2> SUFFICES ASSUME TypeOK, ViewInv, Settled, selected = Peer, ~missed PROVE Current
    BY DEF ViewCurrent
  <2>1. \A u \in Own \cup {"ui"} : step[u] = "idle"
    BY Threads DEF Settled
  <2>2. ~Coming
    BY <2>1 DEF Settled, Coming, Own
  <2>3. ~Loading
    BY <2>1 DEF Loading
  <2>4. ~Purging
    <3>1. Range(cmds) = {}
      BY DEF Settled, Range
    <3> QED  BY <3>1 DEF Purging
  <2> QED  BY <2>2, <2>3, <2>4 DEF ViewInv
<1> QED  BY <1>1, ViewInvariance, PTL

-----------------------------------------------------------------------------
(* The badge: counting the events of a queue and the messages not seen.      *)
LEMMA FromPeerType ==
    ASSUME NEW q \in Seq(BOOLEAN)
    PROVE  /\ IsFiniteSet({i \in DOMAIN q : ~q[i]}) /\ FromPeer(q) \in Nat
           /\ FromPeer(<<>>) = 0
<1>1. Len(q) \in Nat /\ DOMAIN q = 1 .. Len(q)
  BY LenProperties
<1>2. IsFiniteSet(1 .. Len(q)) /\ {i \in DOMAIN q : ~q[i]} \subseteq 1 .. Len(q)
  BY <1>1, FS_Interval
<1>3. IsFiniteSet({i \in DOMAIN q : ~q[i]})
  BY <1>2, FS_Subset
<1>4. FromPeer(<<>>) = 0
  <2>1. PICK e : e = << >> /\ DOMAIN e = {}
    OBVIOUS
  <2>2. {i \in DOMAIN e : ~e[i]} = {}
    BY <2>1
  <2> QED  BY <2>1, <2>2, FS_EmptySet DEF FromPeer
<1> QED  BY <1>3, <1>4, FS_CardinalityType DEF FromPeer

LEMMA FromPeerAppend ==
    ASSUME NEW q \in Seq(BOOLEAN)
    PROVE  /\ FromPeer(Append(q, TRUE)) = FromPeer(q)
           /\ FromPeer(Append(q, FALSE)) = FromPeer(q) + 1
<1>1. Len(q) \in Nat /\ DOMAIN q = 1 .. Len(q)
  BY LenProperties
<1>2. PICK l : l = Len(q) + 1 /\ l \notin DOMAIN q
  BY <1>1
<1>3. ASSUME NEW b \in BOOLEAN
      PROVE  /\ DOMAIN Append(q, b) = DOMAIN q \cup {l} /\ Append(q, b)[l] = b
             /\ \A i \in DOMAIN q : Append(q, b)[i] = q[i]
  <2>1. /\ Append(q, b) \in Seq(BOOLEAN) /\ Len(Append(q, b)) = l
        /\ \A i \in 1 .. Len(q) : Append(q, b)[i] = q[i] /\ Append(q, b)[l] = b
    BY <1>2, AppendProperties
  <2>2. Append(q, b)[l] = b
    BY <1>2, AppendProperties
  <2>3. DOMAIN Append(q, b) = 1 .. l /\ 1 .. l = (1 .. Len(q)) \cup {l}
    BY <1>1, <1>2, <2>1, LenProperties
  <2> QED  BY <1>1, <2>1, <2>2, <2>3
<1>4. PICK S : S = {i \in DOMAIN q : ~q[i]} /\ IsFiniteSet(S) /\ l \notin S
  BY <1>2, FromPeerType, Zenon
<1>5. FromPeer(Append(q, TRUE)) = FromPeer(q)
  <2>1. PICK t : t = Append(q, TRUE)
    OBVIOUS
  <2>2. {i \in DOMAIN t : ~t[i]} = S
    BY <1>3, <1>4, <2>1
  <2> QED  BY <1>4, <2>1, <2>2 DEF FromPeer
<1>6. FromPeer(Append(q, FALSE)) = FromPeer(q) + 1
  <2>1. PICK t : t = Append(q, FALSE)
    OBVIOUS
  <2>2. {i \in DOMAIN t : ~t[i]} = S \cup {l}
    BY <1>3, <1>4, <2>1, Zenon
  <2>3. Cardinality(S \cup {l}) = Cardinality(S) + 1
    BY <1>4, FS_AddElement
  <2> QED  BY <1>4, <2>1, <2>2, <2>3, Zenon DEF FromPeer
<1> QED  BY <1>5, <1>6

LEMMA FromPeerTail ==
    ASSUME NEW q \in Seq(BOOLEAN), q # <<>>
    PROVE  /\ Head(q) => FromPeer(q) = FromPeer(Tail(q))
           /\ ~Head(q) => FromPeer(q) = FromPeer(Tail(q)) + 1
<1>1. Len(q) \in Nat \ {0} /\ DOMAIN q = 1 .. Len(q) /\ Head(q) = q[1] /\ Head(q) \in BOOLEAN
  BY LenProperties, HeadTailProperties
<1>2. PICK t : t = Tail(q)
  OBVIOUS
<1>3. /\ t \in Seq(BOOLEAN) /\ DOMAIN t = 1 .. Len(q) - 1
      /\ \A i \in 1 .. Len(q) - 1 : t[i] = q[i + 1]
  BY <1>1, <1>2, HeadTailProperties, LenProperties
<1>4. PICK S : S = {i \in DOMAIN q : ~q[i]} /\ IsFiniteSet(S)
  BY FromPeerType, Zenon
<1>5. PICK T : T = {i \in DOMAIN t : ~t[i]} /\ IsFiniteSet(T)
  BY <1>3, FromPeerType
<1>6. Cardinality(T) = Cardinality(S \ {1})
  <2> DEFINE f == [i \in T |-> i + 1]
  <2>1. \A i \in T : i + 1 \in S \ {1} /\ i \in Nat
    BY <1>1, <1>3, <1>4, <1>5
  <2>2. \A j \in S \ {1} : j - 1 \in T /\ (j - 1) + 1 = j
    BY <1>1, <1>3, <1>4, <1>5
  <2>3. f \in Bijection(T, S \ {1})
    <3>1. f \in [T -> S \ {1}]
      BY <2>1
    <3>2. \A i, j \in T : f[i] = f[j] => i = j
      BY <2>1
    <3>3. \A j \in S \ {1} : \E i \in T : f[i] = j
      BY <2>2
    <3> QED  BY <3>1, <3>2, <3>3 DEF Bijection, Injection, Surjection, IsInjective
  <2> QED  BY <1>5, <2>3, FS_Bijection DEF ExistsBijection
<1>7. 1 \in S <=> ~Head(q)
  <2>1. 1 \in DOMAIN q
    BY <1>1
  <2>2. 1 \in S <=> ~q[1]
    BY <1>4, <2>1, Zenon
  <2> QED  BY <1>1, <2>2, Zenon
<1>8. Cardinality(S \ {1}) = IF 1 \in S THEN Cardinality(S) - 1 ELSE Cardinality(S)
  BY <1>4, FS_RemoveElement
<1>9. Cardinality(S) \in Nat /\ Cardinality(T) \in Nat
  BY <1>4, <1>5, FS_CardinalityType
<1>10. FromPeer(q) = Cardinality(S) /\ FromPeer(Tail(q)) = Cardinality(T)
  BY <1>2, <1>4, <1>5 DEF FromPeer
<1>11. CASE Head(q)
  <2>1. Cardinality(S) = Cardinality(T)
    BY <1>6, <1>7, <1>8, <1>11
  <2> QED  BY <1>10, <1>11, <2>1
<1>12. CASE ~Head(q)
  <2>1. Cardinality(S) = Cardinality(T) + 1
    <3>1. 1 \in S
      BY <1>7, <1>12
    <3>2. Cardinality(T) = Cardinality(S) - 1
      BY <1>6, <1>8, <3>1
    <3> QED  BY <1>9, <3>2
  <2> QED  BY <1>10, <1>12, <2>1
<1> QED  BY <1>11, <1>12

LEMMA UnseenFinite ==
    ASSUME StoreSafe
    PROVE  IsFiniteSet(Unseen) /\ Cardinality(Unseen) \in Nat
<1>1. IsFiniteSet(InChat)
  <2>1. CASE dir = 0
    BY <2>1, FS_EmptySet DEF InChat
  <2>2. CASE dir # 0
    <3>1. dir \in Gen
      BY <2>2 DEF StoreSafe, StoreTypeOK
    <3>2. Consecutive(rows[dir])
      BY <3>1 DEF StoreSafe, StoreInv
    <3>3. IsFiniteSet({rows[dir][k] : k \in DOMAIN rows[dir]})
      BY <3>2, FiniteRows
    <3>4. InChat \subseteq {rows[dir][k] : k \in DOMAIN rows[dir]}
      BY <2>2 DEF InChat
    <3> QED  BY <3>3, <3>4, FS_Subset
  <2> QED  BY <2>1, <2>2
<1>2. Unseen \subseteq InChat
  BY DEF Unseen
<1>3. IsFiniteSet(Unseen)
  BY <1>1, <1>2, FS_Subset
<1> QED  BY <1>3, FS_CardinalityType

LEMMA Pair == IsFiniteSet({"task", "dispatch"})
<1>1. IsFiniteSet({"task"})
  BY FS_Singleton
<1>2. IsFiniteSet({"task"} \cup {"dispatch"})
  BY <1>1, FS_AddElement
<1>3. {"task"} \cup {"dispatch"} = {"task", "dispatch"}
  OBVIOUS
<1> QED  BY <1>2, <1>3

LEMMA AnnouncedParts ==
    ASSUME TypeOK
    PROVE  /\ unread \in Nat /\ FromPeer(queue) \in Nat /\ FromPeer(batch) \in Nat /\ srv \in Nat
           /\ IsFiniteSet(JustStored) /\ Cardinality(JustStored) \in Nat /\ Announced \in Nat
<1>1. queue \in Seq(BOOLEAN) /\ batch \in Seq(BOOLEAN) /\ unread \in Nat /\ srv \in Nat
  BY DEF TypeOK
<1>2. FromPeer(queue) \in Nat /\ FromPeer(batch) \in Nat
  BY <1>1, FromPeerType, Zenon
<1>3. JustStored \subseteq {"task", "dispatch"}
  BY DEF JustStored
<1>4. IsFiniteSet(JustStored)
  BY <1>3, Pair, FS_Subset
<1>5. Cardinality(JustStored) \in Nat
  BY <1>4, FS_CardinalityType
<1>6. Announced \in Nat
  BY <1>1, <1>2, <1>5 DEF Announced
<1> QED  BY <1>1, <1>2, <1>4, <1>5, <1>6

LEMMA AnnouncedLater ==
    ASSUME TypeOK'
    PROVE  Announced' \in Nat
<1>1. queue' \in Seq(BOOLEAN) /\ batch' \in Seq(BOOLEAN) /\ unread' \in Nat /\ srv' \in Nat
  BY DEF TypeOK
<1>2. FromPeer(queue') \in Nat /\ FromPeer(batch') \in Nat
  BY <1>1, FromPeerType, Zenon
<1>3. JustStored' \subseteq {"task", "dispatch"}
  BY DEF JustStored
<1>4. Cardinality(JustStored') \in Nat
  BY <1>3, Pair, FS_Subset, FS_CardinalityType, Zenon
<1>5. Announced' = unread' + FromPeer(queue') + FromPeer(batch') + srv' + Cardinality(JustStored')
  BY DEF Announced, FromPeer
<1> QED  BY <1>1, <1>2, <1>4, <1>5

LEMMA StoredSame ==
    ASSUME \A u \in {"task", "dispatch"} : step'[u] = "ok" <=> step[u] = "ok"
    PROVE  JustStored' = JustStored
BY DEF JustStored

LEMMA StoredMore ==
    ASSUME TypeOK, NEW u \in {"task", "dispatch"}, step[u] # "ok", step'[u] = "ok",
           \A v \in {"task", "dispatch"} : v # u => step'[v] = step[v]
    PROVE  Cardinality(JustStored') = Cardinality(JustStored) + 1
<1>1. JustStored' = JustStored \cup {u} /\ u \notin JustStored
  BY DEF JustStored
<1> QED  BY <1>1, AnnouncedParts, FS_AddElement

LEMMA StoredLess ==
    ASSUME TypeOK, NEW u \in {"task", "dispatch"}, step'[u] = "idle",
           \A v \in {"task", "dispatch"} : v # u => step'[v] = step[v]
    PROVE  Cardinality(JustStored') = IF step[u] = "ok" THEN Cardinality(JustStored) - 1
                                                        ELSE Cardinality(JustStored)
<1>1. JustStored' = JustStored \ {u} /\ (u \in JustStored <=> step[u] = "ok")
  BY DEF JustStored
<1> QED  BY <1>1, AnnouncedParts, FS_RemoveElement

LEMMA BadgeKept ==
    ASSUME TypeOK, TypeOK', StoreSafe, StoreSafe', BadgeInv, missed' = missed,
           Loading => Loading', Unseen' \subseteq Unseen, Announced' >= Announced
    PROVE  BadgeInv'
<1>1. Announced \in Nat /\ Announced' \in Nat
  <2>1. Announced' \in Nat
    BY AnnouncedLater
  <2> QED  BY <2>1, AnnouncedParts
<1>2. Cardinality(Unseen') <= Cardinality(Unseen)
  BY UnseenFinite, FS_Subset
<1>3. IsFiniteSet(Unseen') /\ Cardinality(Unseen) \in Nat
  BY UnseenFinite, FS_Subset
<1>4. Cardinality(Unseen') \in Nat
  BY <1>3, FS_CardinalityType
<1> QED  BY <1>1, <1>2, <1>3, <1>4 DEF BadgeInv

LEMMA InsertedRow ==
    ASSUME StoreSafe, NEW u \in User, Insert(u)
    PROVE  InChat' \subseteq InChat \cup {work[u]}
<1>1. step[u] = "insert" /\ HasOpen(u)
  BY DEF Insert, HasOpen
<1>2. PICK r, w : r = rows[handle[u]] /\ w = WithRow(r, counter[u], work[u])
  OBVIOUS
<1>3. handle[u] \in Gen /\ dir \in Gen \cup {0} /\ DOMAIN rows = Gen
  BY <1>1, OpenFiles, Zenon DEF StoreSafe, StoreTypeOK
<1>4. \A k \in DOMAIN w : w[k] = work[u] \/ (k \in DOMAIN r /\ w[k] = r[k])
  BY <1>2, Zenon DEF WithRow
<1>5. rows' = [rows EXCEPT ![handle[u]] = w] /\ dir' = dir
  BY <1>2, Zenon DEF Insert
<1>6. CASE handle[u] = dir
  <2>1. rows'[dir] = w /\ rows[dir] = r
    BY <1>2, <1>3, <1>5, <1>6
  <2>2. dir # 0
    BY <1>3, <1>6, StoreConstants DEF Gen
  <2>3. InChat' = {w[k] : k \in DOMAIN w} \ {Old} /\ InChat = {r[k] : k \in DOMAIN r} \ {Old}
    BY <1>5, <2>1, <2>2 DEF InChat
  <2> QED  BY <1>4, <2>3
<1>7. CASE handle[u] # dir
  <2>1. dir # 0 => rows'[dir] = rows[dir]
    BY <1>3, <1>5, <1>7
  <2> QED  BY <1>5, <2>1 DEF InChat
<1> QED  BY <1>6, <1>7

(* How the sum changes.                                                      *)
LEMMA AnnouncedSum ==
    /\ Announced = unread + FromPeer(queue) + FromPeer(batch) + srv + Cardinality(JustStored)
    /\ Announced' = unread' + FromPeer(queue') + FromPeer(batch') + srv' + Cardinality(JustStored')
BY DEF Announced, FromPeer

LEMMA AnnouncedSame ==
    ASSUME UNCHANGED <<unread, queue, batch, srv>>, JustStored' = JustStored, TypeOK
    PROVE  Announced' = Announced /\ Announced' >= Announced
<1>1. Announced' = Announced
  BY AnnouncedSum
<1> QED  BY <1>1, AnnouncedParts

LEMMA BadgeDatabase ==
    ASSUME TypeOK, TypeOK', StoreSafe, StoreSafe', RoleInv, BadgeInv, NEW u \in User, Database(u)
    PROVE  BadgeInv'
<1>1. UNCHANGED <<unread, queue, batch, srv, seen, missed, shown>>
  BY DEF Database, view
<1>2. {"task", "dispatch"} \subseteq Own /\ Own \subseteq User /\ "ui" \in User /\ "ui" \notin Own
  BY Threads
<1>3. CASE u = "ui" /\ OpenToRead("ui")
  <2>1. step' = [step EXCEPT !["ui"] = "read"] /\ handle' = [handle EXCEPT !["ui"] = dir']
    BY <1>3 DEF OpenToRead, SledOpen
  <2>2. step'["ui"] = "read" /\ handle'["ui"] = dir'
    BY <1>2, <2>1, Zenon DEF TypeOK, StoreTypeOK
  <2> QED  BY <2>2 DEF BadgeInv, Loading
<1>4. CASE u \in Own /\ OpenToStore(u)
  <2>1. /\ (Loading => Loading') /\ InChat' = InChat /\ step[u] = "store" /\ step'[u] = "count"
        /\ \A v \in Own : v # u => step'[v] = step[v]
    BY <1>4, OpenOther
  <2>2. JustStored' = JustStored
    BY <1>2, <2>1, StoredSame
  <2>3. Unseen' \subseteq Unseen
    BY <1>1, <2>1 DEF Unseen
  <2> QED  BY <1>1, <2>1, <2>2, <2>3, AnnouncedSame, BadgeKept
<1>5. CASE u \in Own /\ (StoreFails(u) \/ FindCounter(u))
  <2>1. PICK s \in {"err", "insert"} : step' = [step EXCEPT ![u] = s]
    BY <1>5 DEF StoreFails, FindCounter
  <2>2. step[u] # "ok" /\ UNCHANGED <<dir, rows, handle, shown>>
    BY <1>1, <1>5, Zenon DEF StoreFails, FindCounter
  <2>3. /\ Loading' = Loading /\ InChat' = InChat
        /\ step'[u] = s /\ \A v \in Own : v # u => step'[v] = step[v]
    BY <1>5, <2>1, <2>2, OtherThread, Zenon
  <2>4. JustStored' = JustStored
    BY <1>2, <2>2, <2>3, StoredSame
  <2>5. Unseen' \subseteq Unseen
    BY <1>1, <2>3 DEF Unseen
  <2> QED  BY <1>1, <2>3, <2>4, <2>5, AnnouncedSame, BadgeKept
<1>6. CASE u \in Own /\ Insert(u)
  <2>1. /\ step[u] = "insert" /\ step' = [step EXCEPT ![u] = "ok"] /\ dir' = dir
        /\ handle' = [handle EXCEPT ![u] = 0]
    BY <1>6 DEF Insert, Close
  <2>2. step'[u] = "ok" /\ \A v \in User : v # u => step'[v] = step[v]
    BY <2>1, StepOf
  <2>3. handle'["ui"] = handle["ui"] /\ step'["ui"] = step["ui"]
    BY <1>2, <1>6, <2>1, <2>2, Zenon DEF TypeOK, StoreTypeOK
  <2>4. Loading' = Loading
    BY <2>1, <2>3 DEF Loading
  <2>5. InChat' \subseteq InChat \cup {work[u]}
    BY <1>6, InsertedRow
  <2>6. CASE u = "loop"
    <3>1. work[u] \in Mine
      BY <2>1, <2>6 DEF RoleInv
    <3>2. Unseen' \subseteq Unseen
      BY <1>1, <2>5, <3>1 DEF Unseen, Theirs
    <3>3. JustStored' = JustStored
      BY <1>2, <2>2, <2>6, StoredSame
    <3> QED  BY <1>1, <2>4, <3>2, <3>3, AnnouncedSame, BadgeKept
  <2>7. CASE u \in {"task", "dispatch"}
    <3>1. Cardinality(JustStored') = Cardinality(JustStored) + 1
      BY <1>2, <2>1, <2>2, <2>7, StoredMore
    <3>2. Announced' = Announced + 1
      BY <1>1, <3>1, AnnouncedSum, AnnouncedParts
    <3>3. PICK W : W = Unseen \cup {work[u]}
      OBVIOUS
    <3>4. Unseen' \subseteq W
      BY <1>1, <2>5, <3>3 DEF Unseen
    <3>5. IsFiniteSet(W) /\ Cardinality(W) <= Cardinality(Unseen) + 1 /\ Cardinality(Unseen) \in Nat
      <4>1. IsFiniteSet(Unseen) /\ Cardinality(Unseen) \in Nat
        BY UnseenFinite
      <4>2. /\ IsFiniteSet(W)
            /\ Cardinality(W) \in {Cardinality(Unseen), Cardinality(Unseen) + 1}
        BY <3>3, <4>1, FS_AddElement
      <4> QED  BY <4>1, <4>2
    <3>6. /\ Cardinality(Unseen') \in Nat /\ Cardinality(W) \in Nat
          /\ Cardinality(Unseen') <= Cardinality(W)
      BY <3>4, <3>5, FS_Subset, FS_CardinalityType
    <3>7. Cardinality(Unseen) <= Announced => Cardinality(Unseen') <= Announced'
      BY <3>2, <3>5, <3>6, AnnouncedParts
    <3> QED  BY <1>1, <2>4, <3>7 DEF BadgeInv
  <2> QED  BY <1>6, <2>6, <2>7 DEF Own
<1> QED  BY <1>3, <1>4, <1>5, <1>6, DatabaseMoves

LEMMA BadgeThreads ==
    ASSUME TypeOK, TypeOK', StoreSafe, StoreSafe', RoleInv, BadgeInv,
           \/ LoopSend \/ LoopStored \/ LoopPurge \/ LoopRemovePeer \/ LoopBlobStored
           \/ (\E m \in Msg : TaskMessage(m) \/ BlobMessage(m))
           \/ TaskStored \/ BlobStored \/ BlobPurge
    PROVE  BadgeInv'
<1>1. /\ {"task", "dispatch"} \subseteq Own /\ "loop" \in Own /\ "loop" \notin {"task", "dispatch"}
      /\ queue \in Seq(BOOLEAN)
  BY Threads DEF TypeOK
<1>2. /\ FromPeer(Append(queue, TRUE)) = FromPeer(queue)
      /\ FromPeer(Append(queue, FALSE)) = FromPeer(queue) + 1
  BY <1>1, FromPeerAppend, Zenon
<1>3. ASSUME NEW u \in Own, NEW s, step' = [step EXCEPT ![u] = s],
             UNCHANGED <<dir, rows, handle, shown, seen, missed>>, Announced' >= Announced
      PROVE  BadgeInv'
  <2>1. Loading' = Loading /\ InChat' = InChat
    BY <1>3, OtherThread
  <2>2. Unseen' \subseteq Unseen
    BY <1>3, <2>1 DEF Unseen
  <2> QED  BY <1>3, <2>1, <2>2, BadgeKept
<1>4. ASSUME UNCHANGED <<store, shown, seen, missed>>, Announced' >= Announced
      PROVE  BadgeInv'
  <2>1. Loading' = Loading /\ InChat' = InChat
    BY <1>4, Untouched
  <2>2. Unseen' \subseteq Unseen
    BY <1>4, <2>1 DEF Unseen
  <2> QED  BY <1>4, <2>1, <2>2, BadgeKept
<1>5. ASSUME UNCHANGED store, UNCHANGED <<unread, queue, batch, srv>>
      PROVE  Announced' >= Announced
  <2>1. step' = step
    BY <1>5 DEF store
  <2>2. JustStored' = JustStored
    BY <2>1, StoredSame
  <2> QED  BY <1>5, <2>2, AnnouncedSame
<1>6. ASSUME NEW u \in Own, NEW s, step' = [step EXCEPT ![u] = s]
      PROVE  step'[u] = s /\ \A v \in {"task", "dispatch"} : v # u => step'[v] = step[v]
  <2>1. u \in User /\ {"task", "dispatch"} \subseteq User
    BY <1>1, Threads
  <2> QED  BY <1>6, <2>1, StepOf, Zenon
<1>7. ASSUME NEW u \in Own, NEW m, StartStore(u, m),
             UNCHANGED <<unread, queue, batch, srv, shown, seen, missed>>
      PROVE  BadgeInv'
  <2>1. /\ step[u] = "idle" /\ step' = [step EXCEPT ![u] = "store"]
        /\ UNCHANGED <<dir, rows, handle>>
    BY <1>7 DEF StartStore
  <2>2. JustStored' = JustStored
    <3>1. step'[u] = "store" /\ \A v \in {"task", "dispatch"} : v # u => step'[v] = step[v]
      BY <1>6, <2>1
    <3> QED  BY <2>1, <3>1, StoredSame
  <2>3. Announced' >= Announced
    BY <1>7, <2>2, AnnouncedSame
  <2> QED  BY <1>3, <1>7, <2>1, <2>3, Zenon
<1>8. CASE LoopSend
  <2>1. UNCHANGED <<unread, queue, batch, srv, shown, seen, missed>>
    BY <1>8 DEF LoopSend
  <2>2. CASE UNCHANGED store
    BY <1>4, <1>5, <2>1, <2>2
  <2>3. CASE StartStore("loop", Head(cmds))
    BY <1>1, <1>7, <2>1, <2>3
  <2> QED  BY <1>8, <2>2, <2>3 DEF LoopSend
<1>9. ASSUME NEW m \in Msg, TaskMessage(m) \/ BlobMessage(m) PROVE BadgeInv'
  <2>1. PICK u \in Own : StartStore(u, m)
    BY <1>1, <1>9 DEF TaskMessage, BlobMessage
  <2>2. UNCHANGED <<unread, queue, batch, srv, shown, seen, missed>>
    BY <1>9 DEF TaskMessage, BlobMessage
  <2> QED  BY <1>7, <2>1, <2>2
<1>10. CASE LoopStored
  <2>1. /\ step' = [step EXCEPT !["loop"] = "idle"]
        /\ UNCHANGED <<dir, rows, handle, shown, seen, missed>>
        /\ UNCHANGED <<unread, batch, srv>>
    BY <1>10 DEF LoopStored, Done
  <2>2. JustStored' = JustStored
    BY <1>1, <1>6, <2>1, StoredSame, Zenon
  <2>3. FromPeer(queue') = FromPeer(queue)
    BY <1>2, <1>10 DEF LoopStored
  <2>4. Announced' >= Announced
    BY <2>1, <2>2, <2>3, AnnouncedSum, AnnouncedParts
  <2> QED  BY <1>1, <1>3, <2>1, <2>4
<1>11. CASE TaskStored
  <2>1. /\ step' = [step EXCEPT !["task"] = "idle"]
        /\ UNCHANGED <<dir, rows, handle, shown, seen, missed>>
        /\ UNCHANGED <<unread, batch, srv>> /\ FromPeer(queue') = FromPeer(queue) + 1
    BY <1>2, <1>11, Zenon DEF TaskStored, Done
  <2>2. step'["task"] = "idle" /\ \A v \in {"task", "dispatch"} : v # "task" => step'[v] = step[v]
    BY <1>1, <1>6, <2>1, Zenon
  <2>3. Cardinality(JustStored') \in {Cardinality(JustStored) - 1, Cardinality(JustStored)}
    BY <2>2, StoredLess
  <2>4. Announced' >= Announced
    BY <2>1, <2>3, AnnouncedSum, AnnouncedParts
  <2> QED  BY <1>1, <1>3, <2>1, <2>4, Zenon
<1>12. CASE BlobStored
  <2>1. /\ step' = [step EXCEPT !["dispatch"] = "idle"]
        /\ UNCHANGED <<dir, rows, handle, shown, seen, missed>>
        /\ UNCHANGED <<unread, batch, queue>>
        /\ srv' = IF step["dispatch"] = "ok" THEN srv + 1 ELSE srv
    BY <1>12 DEF BlobStored, Done
  <2>2. /\ step'["dispatch"] = "idle"
        /\ \A v \in {"task", "dispatch"} : v # "dispatch" => step'[v] = step[v]
    BY <1>1, <1>6, <2>1, Zenon
  <2>3. Cardinality(JustStored') = IF step["dispatch"] = "ok" THEN Cardinality(JustStored) - 1
                                                              ELSE Cardinality(JustStored)
    BY <2>2, StoredLess
  <2>4. Announced' >= Announced
    BY <2>1, <2>3, AnnouncedSum, AnnouncedParts
  <2> QED  BY <1>1, <1>3, <2>1, <2>4, Zenon
<1>13. CASE LoopBlobStored
  <2>1. UNCHANGED <<store, shown, seen, missed>> /\ UNCHANGED <<unread, batch>>
    BY <1>13 DEF LoopBlobStored
  <2>2. srv' = srv - 1 /\ FromPeer(queue') = FromPeer(queue) + 1
    BY <1>2, <1>13, Zenon DEF LoopBlobStored
  <2>3. JustStored' = JustStored
    BY <2>1, StoredSame DEF store
  <2>4. Announced' >= Announced
    BY <2>1, <2>2, <2>3, AnnouncedSum, AnnouncedParts
  <2> QED  BY <1>4, <2>1, <2>4
<1>14. CASE LoopPurge
  <2>1. CASE known
    <3>1. RemoveDir
      BY <1>14, <2>1 DEF LoopPurge
    <3>2. Unseen' = {}
      BY <3>1, Removing DEF Unseen
    <3>3. Cardinality(Unseen') = 0
      BY <3>2, FS_EmptySet
    <3>4. Announced' \in Nat
      BY AnnouncedLater
    <3> QED  BY <3>3, <3>4 DEF BadgeInv
  <2>2. CASE ~known
    <3>1. UNCHANGED <<store, queue>> /\ UNCHANGED <<unread, batch, srv, shown, seen, missed>>
      BY <1>14, <2>2 DEF LoopPurge
    <3> QED  BY <1>4, <1>5, <3>1
  <2> QED  BY <2>1, <2>2
<1>15. CASE LoopRemovePeer \/ BlobPurge
  BY <1>15 DEF LoopRemovePeer, BlobPurge, BadgeInv
<1> QED  BY <1>8, <1>9, <1>10, <1>11, <1>12, <1>13, <1>14, <1>15

LEMMA BadgeWindow ==
    ASSUME TypeOK, TypeOK', StoreSafe, StoreSafe', RoleInv, BadgeInv,
           \/ ReloadFailed \/ ReloadDone \/ SelectPeer \/ SelectElsewhere
           \/ (\E m \in Mine : SendDraft(m))
           \/ PurgeSelected \/ RemoveSelected \/ Tick \/ ApplyEvent
    PROVE  BadgeInv'
<1>1. queue \in Seq(BOOLEAN) /\ batch \in Seq(BOOLEAN) /\ "ui" \in User
  BY Threads DEF TypeOK
<1>2. ASSUME UNCHANGED <<store, seen, missed>>, step["ui"] = "idle", Announced' >= Announced
      PROVE  BadgeInv'
  <2>1. step' = step /\ dir' = dir /\ rows' = rows
    BY <1>2 DEF store
  <2>2. Unseen' \subseteq Unseen
    BY <1>2, <2>1, DiskKept DEF Unseen
  <2>3. Loading => Loading'
    BY <1>2 DEF Loading
  <2> QED  BY <1>2, <2>2, <2>3, BadgeKept
<1>3. ASSUME UNCHANGED store PROVE JustStored' = JustStored
  BY <1>3, StoredSame DEF store
<1>4. CASE ReloadFailed
  BY <1>4 DEF ReloadFailed, BadgeInv
<1>5. CASE ReloadDone
  <2>1. /\ ReadRows("ui") /\ seen' = seen \cup (Range(History("ui")) \cap Theirs)
        /\ missed' = (IF handle["ui"] = dir THEN FALSE ELSE missed)
        /\ UNCHANGED <<unread, queue, batch, srv>>
    BY <1>5 DEF ReloadDone
  <2>2. step["ui"] = "read" /\ step' = [step EXCEPT !["ui"] = "idle"]
    BY <2>1 DEF ReadRows
  <2>3. InChat' = InChat
    BY <1>1, <2>1, Reading
  <2>4. CASE handle["ui"] = dir
    <3>1. Unseen' = {}
      BY <2>1, <2>3, <2>4, Loaded DEF Unseen
    <3>2. Cardinality(Unseen') = 0
      BY <3>1, FS_EmptySet
    <3>3. Announced' \in Nat
      BY AnnouncedLater
    <3> QED  BY <3>2, <3>3 DEF BadgeInv
  <2>5. CASE handle["ui"] # dir
    <3>1. \A v \in {"task", "dispatch"} : step'[v] = step[v]
      BY <1>1, <2>2, StepOf, Threads
    <3>2. JustStored' = JustStored
      BY <3>1, StoredSame
    <3>3. Announced' >= Announced
      BY <2>1, <3>2, AnnouncedSame
    <3>4. Unseen' \subseteq Unseen
      BY <2>1, <2>3 DEF Unseen
    <3>5. ~Loading /\ missed' = missed
      BY <2>1, <2>2, <2>5 DEF Loading
    <3> QED  BY <3>3, <3>4, <3>5, BadgeKept
  <2> QED  BY <2>4, <2>5
<1>6. ASSUME Reload, step["ui"] = "idle", known' = known PROVE BadgeInv'
  BY <1>6, ViewReload DEF BadgeInv
<1>7. CASE SelectPeer
  BY <1>6, <1>7 DEF SelectPeer, UiIdle
<1>8. CASE SelectElsewhere \/ PurgeSelected \/ \E m \in Mine : SendDraft(m)
  <2>1. /\ step["ui"] = "idle" /\ UNCHANGED <<store, seen, missed>>
        /\ UNCHANGED <<unread, queue, batch, srv>>
    BY <1>8 DEF SelectElsewhere, PurgeSelected, SendDraft, UiIdle
  <2>2. Announced' >= Announced
    BY <1>3, <2>1, AnnouncedSame
  <2> QED  BY <1>2, <2>1, <2>2
<1>9. CASE RemoveSelected
  <2>1. /\ step["ui"] = "idle" /\ UNCHANGED <<store, seen, missed>>
        /\ UNCHANGED <<queue, batch, srv>> /\ selected = Peer /\ unread' = 0
    BY <1>9 DEF RemoveSelected, UiIdle
  <2>2. unread' = unread
    BY <2>1 DEF RoleInv
  <2>3. Announced' >= Announced
    BY <1>3, <2>1, <2>2, AnnouncedSame
  <2> QED  BY <1>2, <2>1, <2>3
<1>10. CASE Tick
  <2>1. /\ step["ui"] = "idle" /\ UNCHANGED <<store, seen, missed>> /\ UNCHANGED <<unread, srv>>
        /\ batch = <<>> /\ batch' = queue /\ queue' = <<>>
    BY <1>10 DEF Tick, UiIdle
  <2>2. /\ FromPeer(batch) = 0 /\ FromPeer(queue') = 0
        /\ FromPeer(batch') = FromPeer(queue)
    BY <1>1, <2>1, FromPeerType
  <2>3. Announced' >= Announced
    BY <1>3, <2>1, <2>2, AnnouncedSum, AnnouncedParts
  <2> QED  BY <1>2, <2>1, <2>3
<1>11. CASE ApplyEvent
  <2>1. /\ step["ui"] = "idle" /\ batch # <<>> /\ batch' = Tail(batch)
        /\ UNCHANGED <<known, queue, srv, seen>>
    BY <1>11 DEF ApplyEvent
  <2>2. CASE Reload
    BY <1>6, <2>1, <2>2
  <2>3. CASE Head(batch) /\ UNCHANGED <<store, missed, unread>>
    <3>1. FromPeer(batch') = FromPeer(batch)
      BY <1>1, <2>1, <2>3, FromPeerTail
    <3>2. Announced' >= Announced
      <4>1. JustStored' = JustStored /\ unread' = unread /\ srv' = srv /\ queue' = queue
        BY <1>3, <2>1, <2>3
      <4>2. Announced' = Announced
        BY <3>1, <4>1, AnnouncedSum
      <4> QED  BY <4>2, AnnouncedParts
    <3> QED  BY <1>2, <2>1, <2>3, <3>2
  <2>4. CASE ~Head(batch) /\ unread' = unread + 1 /\ UNCHANGED <<store, missed>>
    <3>1. FromPeer(batch) = FromPeer(batch') + 1
      BY <1>1, <2>1, <2>4, FromPeerTail
    <3>2. FromPeer(batch') \in Nat
      BY <1>1, <2>1, Rest, FromPeerType
    <3>3. Announced' >= Announced
      <4>1. JustStored' = JustStored /\ unread' = unread + 1 /\ srv' = srv /\ queue' = queue
        BY <1>3, <2>1, <2>4
      <4>2. /\ unread \in Nat /\ FromPeer(queue) \in Nat /\ srv \in Nat
            /\ Cardinality(JustStored) \in Nat
        BY AnnouncedParts
      <4>3. Announced' = unread + 1 + FromPeer(queue) + FromPeer(batch') + srv + Cardinality(JustStored)
        BY <4>1, AnnouncedSum
      <4>4. Announced = unread + FromPeer(queue) + (FromPeer(batch') + 1) + srv + Cardinality(JustStored)
        BY <3>1, AnnouncedSum
      <4> QED  BY ONLY <3>2, <4>2, <4>3, <4>4
    <3> QED  BY <1>2, <2>1, <2>4, <3>3
  <2> QED  BY <1>11, <2>2, <2>3, <2>4 DEF ApplyEvent
<1> QED  BY <1>4, <1>5, <1>7, <1>8, <1>9, <1>10, <1>11

LEMMA BadgeStep ==
    ASSUME TypeOK, TypeOK', StoreSafe, StoreSafe', RoleInv, BadgeInv, [Next]_vars
    PROVE  BadgeInv'
<1>1. /\ Theirs \ (Blobs \cup used) \subseteq Msg /\ Blobs \ used \subseteq Msg
      /\ Mine \ used \subseteq Mine
  BY ViewConstants DEF Theirs
<1>2. CASE UNCHANGED vars
  <2>1. /\ UNCHANGED <<store, shown>> /\ UNCHANGED <<unread, queue, batch, srv>>
        /\ UNCHANGED <<seen, missed>> /\ UNCHANGED step
    BY <1>2 DEF vars, view, store
  <2>2. Loading' = Loading /\ InChat' = InChat
    BY <2>1, Untouched
  <2>3. JustStored' = JustStored
    BY <2>1, StoredSame
  <2>4. Unseen' \subseteq Unseen
    BY <2>1, <2>2 DEF Unseen
  <2> QED  BY <2>1, <2>2, <2>3, <2>4, AnnouncedSame, BadgeKept
<1>3. CASE Next
  BY <1>1, <1>3, BadgeDatabase, BadgeThreads, BadgeWindow DEF Next
<1> QED  BY <1>2, <1>3

(* While the conversation is closed and no load was missed, the badge and    *)
(* the events under way account for every message of the peer in chat.db     *)
(* that was never on the screen.                                             *)
THEOREM BadgeIsEnough == Spec => []BadgeCoversUnseen
<1>1. Init => BadgeInv
  <2> SUFFICES ASSUME Init PROVE BadgeInv
    OBVIOUS
  <2>1. StoreSafe /\ TypeOK
    BY StoreStart, TypeStart DEF Init
  <2>2. InChat = {}
    <3>1. 1 \in Gen
      BY StoreConstants DEF Gen
    <3>2. rows[dir] = [k \in {0} |-> Old]
      BY <3>1 DEF Init, StoreInit
    <3> QED  BY <3>2 DEF InChat
  <2>3. Unseen = {}
    BY <2>2 DEF Unseen
  <2>4. Cardinality(Unseen) = 0
    BY <2>3, FS_EmptySet
  <2>5. Announced \in Nat
    BY <2>1, AnnouncedParts
  <2> QED  BY <2>4, <2>5 DEF BadgeInv
<1>2. /\ TypeOK /\ TypeOK' /\ StoreSafe /\ StoreSafe' /\ RoleInv /\ BadgeInv /\ [Next]_vars
      => BadgeInv'
  BY BadgeStep
<1>3. RoleInv /\ BadgeInv => BadgeCoversUnseen
  BY DEF RoleInv, BadgeInv, BadgeCoversUnseen, Loading
<1> QED  BY <1>1, <1>2, <1>3, ViewInvariance, PTL DEF Spec
=============================================================================
