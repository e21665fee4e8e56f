----------------------------- MODULE ChatStore ------------------------------
(***************************************************************************)
(* chat.db of one peer (crates/crypto): a sled database, opened anew for   *)
(* every operation, by the threads that store messages or read them back.  *)
(* sled's file lock lets one of them open it at a time.  purge_peer_chat   *)
(* and delete_peer open nothing: they remove the directory, also from      *)
(* under an open handle, which then writes to files nobody will see.  Each *)
(* directory that is created is an incarnation of chat.db.                 *)
(***************************************************************************)
EXTENDS Integers, Sequences, FiniteSets, FiniteSetsExt, Functions

CONSTANTS
    User,       \* the threads that open chat.db
    Msg,        \* messages; each is stored at most once
    Old,        \* a row of an earlier identity, unreadable with this storage key
    MaxGen,     \* bound on incarnations of chat.db
    None        \* no user, no message

ASSUME StoreConstants ==
    /\ MaxGen \in Nat \ {0}
    /\ Old \notin Msg /\ None \notin Msg \cup User

Gen == 1..MaxGen

VARIABLES
    gen,        \* incarnations created so far
    dir,        \* the incarnation at peers/<hash>/chat.db, 0 if there is none
    rows,       \* per incarnation: its rows, by key
    lock,       \* per incarnation: who holds sled's lock
    step,       \* per user: where in its operation it is
    handle,     \* per user: the incarnation it has open
    work,       \* per user: the message it stores
    counter,    \* per user: what find_counter returned
    stored,     \* history: messages insert_message_stored reported as stored
    purged      \* history: messages in chat.db, or on their way into it, at a purge

store == <<gen, dir, rows, lock, step, handle, work, counter, stored, purged>>

NoRows == [k \in {} |-> Old]

(* The run starts with a row an earlier identity left; reading drops it.     *)
StoreInit ==
    /\ gen = 1 /\ dir = 1
    /\ rows = [g \in Gen |-> IF g = 1 THEN [k \in {0} |-> Old] ELSE NoRows]
    /\ lock = [g \in Gen |-> None]
    /\ step = [u \in User |-> "idle"]
    /\ handle = [u \in User |-> 0]
    /\ work = [u \in User |-> None]
    /\ counter = [u \in User |-> 0]
    /\ stored = {} /\ purged = {}

-----------------------------------------------------------------------------
(* Storing a message: persist_message and the OfflineMessage branch of       *)
(* handle_blob open chat.db, take the next free key and insert.              *)

StartStore(u, m) ==
    /\ step[u] = "idle"
    /\ step' = [step EXCEPT ![u] = "store"]
    /\ work' = [work EXCEPT ![u] = m]
    /\ UNCHANGED <<gen, dir, rows, lock, handle, counter, stored, purged>>

\* mutant: opening does not wait its turn for the lock
OpenUnlocked(u, next) ==
    /\ IF dir = 0
       THEN gen < MaxGen /\ gen' = gen + 1 /\ dir' = gen + 1
       ELSE UNCHANGED <<gen, dir>>
    /\ lock' = [lock EXCEPT ![dir'] = u]
    /\ handle' = [handle EXCEPT ![u] = dir']
    /\ step' = [step EXCEPT ![u] = next]
    /\ UNCHANGED <<rows, work, counter, stored, purged>>

(* sled::open: creates the directory if there is none, and takes the lock.   *)
SledOpen(u, next) ==
    /\ IF dir = 0
       THEN gen < MaxGen /\ gen' = gen + 1 /\ dir' = gen + 1
       ELSE lock[dir] = None /\ UNCHANGED <<gen, dir>>
    /\ lock' = [lock EXCEPT ![dir'] = u]
    /\ handle' = [handle EXCEPT ![u] = dir']
    /\ step' = [step EXCEPT ![u] = next]
    /\ UNCHANGED <<rows, work, counter, stored, purged>>

Locked == dir # 0 /\ lock[dir] # None

OpenToStore(u) == step[u] = "store" /\ SledOpen(u, "count")

(* The open fails while another user has chat.db open; nothing is stored.    *)
StoreFails(u) ==
    /\ step[u] = "store" /\ Locked
    /\ step' = [step EXCEPT ![u] = "err"]
    /\ UNCHANGED <<gen, dir, rows, lock, handle, work, counter, stored, purged>>

\* mutant: the first free key instead of the one after the last
FirstFreeKey(r) == CHOOSE k \in 0 .. Cardinality(Msg) + 1 :
    k \notin DOMAIN r /\ \A j \in 0 .. k - 1 : j \in DOMAIN r

(* find_counter: one more than the last key, 0 in an empty database.         *)
NextKey(r) == IF DOMAIN r = {} THEN 0 ELSE Max(DOMAIN r) + 1

FindCounter(u) ==
    /\ step[u] = "count"
    /\ counter' = [counter EXCEPT ![u] = NextKey(rows[handle[u]])]
    /\ step' = [step EXCEPT ![u] = "insert"]
    /\ UNCHANGED <<gen, dir, rows, lock, handle, work, stored, purged>>

WithRow(r, k, m) == [j \in DOMAIN r \cup {k} |-> IF j = k THEN m ELSE r[j]]

Close(u) ==
    /\ lock' = [lock EXCEPT ![handle[u]] = None]
    /\ handle' = [handle EXCEPT ![u] = 0]

(* db.insert, after which insert_message_stored drops its Db.                *)
Insert(u) ==
    /\ step[u] = "insert"
    /\ rows' = [rows EXCEPT ![handle[u]] = WithRow(@, counter[u], work[u])]
    /\ stored' = stored \cup {work[u]}
    /\ Close(u)
    /\ step' = [step EXCEPT ![u] = "ok"]
    /\ counter' = [counter EXCEPT ![u] = 0]
    /\ UNCHANGED <<gen, dir, work, purged>>

Done(u) ==
    /\ step' = [step EXCEPT ![u] = "idle"]
    /\ work' = [work EXCEPT ![u] = None]
    /\ UNCHANGED <<gen, dir, rows, lock, handle, counter, stored, purged>>

-----------------------------------------------------------------------------
(* Reading: load_peer_chat_messages collects the rows it can decrypt and     *)
(* removes the others.                                                       *)

(* The rows by key: before the i-th one come i - 1 others.                   *)
Nth(r, i) == CHOOSE k \in DOMAIN r : Cardinality({j \in DOMAIN r : j < k}) = i - 1

InOrder(r) == [i \in 1 .. Cardinality(DOMAIN r) |-> r[Nth(r, i)]]

Decrypted(r) == [k \in {j \in DOMAIN r : r[j] # Old} |-> r[k]]

Readable(r) == InOrder(Decrypted(r))

StartHistory(u) ==
    /\ step' = [step EXCEPT ![u] = "load"]
    /\ UNCHANGED <<gen, dir, rows, lock, handle, work, counter, stored, purged>>

OpenToRead(u) == step[u] = "load" /\ SledOpen(u, "read")

HistoryFails(u) ==
    /\ step[u] = "load" /\ Locked
    /\ step' = [step EXCEPT ![u] = "idle"]
    /\ UNCHANGED <<gen, dir, rows, lock, handle, work, counter, stored, purged>>

History(u) == Readable(rows[handle[u]])

ReadRows(u) ==
    /\ step[u] = "read"
    /\ rows' = [rows EXCEPT ![handle[u]] = Decrypted(@)]
    /\ Close(u)
    /\ step' = [step EXCEPT ![u] = "idle"]
    /\ UNCHANGED <<gen, dir, work, counter, stored, purged>>

-----------------------------------------------------------------------------
(* purge_peer_chat, and delete_peer as far as chat.db goes: the directory is *)
(* removed if it exists, whoever has it open.  Files that nobody has open go *)
(* at once.                                                                  *)

InChat == IF dir = 0 THEN {} ELSE {rows[dir][k] : k \in DOMAIN rows[dir]} \ {Old}

BeingStored == {work[u] : u \in {v \in User : step[v] \in {"count", "insert"}}}

RemoveDir ==
    /\ dir' = 0
    /\ rows' = [g \in Gen |-> IF lock[g] = None THEN NoRows ELSE rows[g]]
    /\ purged' = purged \cup InChat \cup BeingStored
    /\ UNCHANGED <<gen, lock, step, handle, work, counter, stored>>

-----------------------------------------------------------------------------
(* chat.db by itself: each user does one operation after the other.          *)
StoreNext ==
    \/ \E u \in User :
          \/ step[u] = "idle" /\ (StartHistory(u) \/ \E m \in Msg : StartStore(u, m))
          \/ OpenToStore(u) \/ StoreFails(u) \/ FindCounter(u) \/ Insert(u)
          \/ step[u] \in {"ok", "err"} /\ Done(u)
          \/ OpenToRead(u) \/ HistoryFails(u) \/ ReadRows(u)
    \/ RemoveDir

StoreSpec == StoreInit /\ [][StoreNext]_store

-----------------------------------------------------------------------------
(* Properties.                                                               *)

StoreTypeOK ==
    /\ gen \in Gen /\ dir \in {0, gen}
    /\ DOMAIN rows = Gen
    /\ \A g \in Gen : DOMAIN rows[g] \subseteq Nat /\ \A k \in DOMAIN rows[g] : rows[g][k] \in Msg \cup {Old}
    /\ lock \in [Gen -> User \cup {None}]
    /\ step \in [User -> {"idle", "store", "count", "insert", "ok", "err", "load", "read"}]
    /\ handle \in [User -> 0..MaxGen]
    /\ work \in [User -> Msg \cup {None}]
    /\ counter \in [User -> Nat]
    /\ stored \subseteq Msg /\ purged \subseteq Msg

(* A message that insert_message_stored reported as stored is in chat.db     *)
(* until a purge or a removal takes it: no later insert overwrites its row,  *)
(* and reading the history does not remove it.  A message whose handle was   *)
(* open when the directory went away counts as purged.                       *)
StoredUntilPurged == stored \subseteq InChat \cup purged

(* Seen through its rows in key order, chat.db is an append-only log: the    *)
(* separate steps find_counter and insert of several threads amount to one   *)
(* append, whatever they interleave with.                                    *)
ChatRows == IF dir = 0 THEN <<>> ELSE InOrder(rows[dir])

Log == INSTANCE ChatLog WITH log <- ChatRows

ImplementsLog == Log!Spec

-----------------------------------------------------------------------------
(* What makes the properties inductive.                                      *)

(* The keys follow each other, and only the first can hold an unreadable     *)
(* row.                                                                      *)
Consecutive(r) ==
    /\ IsFiniteSet(DOMAIN r)
    /\ \E a \in {0, 1} : DOMAIN r = a .. a + Cardinality(DOMAIN r) - 1
    /\ \A k \in DOMAIN r : r[k] = Old => k = 0

HasOpen(u) == step[u] \in {"count", "insert", "read"}

(* The one user that has an incarnation open holds its lock, so what         *)
(* find_counter returned is still the next key when the insert uses it; and  *)
(* a message on its way into files that were removed counts as purged.       *)
StoreInv ==
    /\ \A g \in Gen : Consecutive(rows[g]) /\ (g > gen => rows[g] = NoRows)
    /\ \A u \in User :
          /\ HasOpen(u) => handle[u] \in 1 .. gen /\ lock[handle[u]] = u
          /\ step[u] \in {"store", "count", "insert"} => work[u] \in Msg
          /\ step[u] = "insert" => counter[u] = NextKey(rows[handle[u]])
          /\ step[u] \in {"count", "insert"} /\ handle[u] # dir => work[u] \in purged
=============================================================================
