----------------------------- MODULE HomeProofs ------------------------------
(***************************************************************************)
(* Theorems about Home, for any peers, names and identities: no identity   *)
(* that was used is replaced, no operation leaves a directory that stops   *)
(* load_peers, and no alias is lost, however the window's thread, the loop *)
(* and crashes interleave.                                                 *)
(***************************************************************************)
EXTENDS Home, TLAPS

-----------------------------------------------------------------------------
(* What the two threads are in the middle of.                                *)

LEMMA UiKinds ==
    ASSUME TypeOK
    PROVE  /\ ui.op = "idle" => ui = Idle
           /\ ui.op = "alias" => ui \in Update
           /\ ui.op = "create" => ui \in Creation
           /\ ui.op = "add" => ui \in Adding
           /\ ui.op \in {"idle", "alias", "create", "add"}
<1>1. CASE ui = Idle
  BY <1>1 DEF Idle
<1>2. CASE ui \in Update
  BY <1>2 DEF Update
<1>3. CASE ui \in Creation
  BY <1>3 DEF Creation
<1>4. CASE ui \in Adding
  BY <1>4 DEF Adding
<1> QED  BY <1>1, <1>2, <1>3, <1>4 DEF TypeOK

LEMMA LoopKinds ==
    ASSUME TypeOK
    PROVE  /\ loop.op = "idle" => loop = Idle
           /\ loop.op = "alias" => loop \in Update
           /\ loop.op \in {"delete", "forget"} => loop \in Removal
           /\ loop.op \in {"idle", "alias", "delete", "forget"}
  BY DEF TypeOK, Idle, Update, Removal

(* encrypt_keyfile stays with its identity, initialize_peer with its peer.   *)
LEMMA CreationStep ==
    ASSUME TypeOK, WriteKeyfile
    PROVE  /\ ui \in Creation /\ ui.op = "create"
           /\ \/ ui' = Idle
              \/ ui' \in Creation /\ ui'.op = "create" /\ ui'.id = ui.id
<1>1. ui \in Creation /\ ui.op = "create"
  BY UiKinds DEF WriteKeyfile, Creating
<1>2. CASE ui' # Idle
  <2>1. PICK st \in {"write key", "open pub", "write pub"} : ui' = [ui EXCEPT !.step = st]
    BY <1>2 DEF WriteKeyfile
  <2> QED  BY <1>1, <2>1 DEF Creation
<1> QED  BY <1>1, <1>2

LEMMA AddingStep ==
    ASSUME TypeOK, WritePeer
    PROVE  /\ ui \in Adding /\ ui.op = "add"
           /\ ui' = Idle \/ (ui' \in Adding /\ ui'.op = "add")
<1>1. ui \in Adding /\ ui.op = "add"
  BY UiKinds DEF WritePeer
<1>2. CASE ui' # Idle
  <2>1. ui' = [op |-> "add", peer |-> ui.peer, step |-> "write", linked |-> TRUE]
    BY <1>1, <1>2 DEF WritePeer, Adding
  <2>2. ui.peer \in Peer
    BY <1>1 DEF Adding
  <2>3. ui' \in Adding /\ ui'.op = "add"
    BY <2>1, <2>2 DEF Adding
  <2> QED  BY <1>1, <2>3
<1> QED  BY <1>1, <1>2

(* fs::write leaves alias files with names in them.                          *)
LEMMA AliasTypes ==
    ASSUME {aliases, named} \subseteq [Peer -> Name \cup {None}],
           NEW t \in Update, WriteAliases(t)
    PROVE  {aliases', named'} \subseteq [Peer -> Name \cup {None}]
  BY DEF WriteAliases, Update, NoAliases

-----------------------------------------------------------------------------
(* Every variable keeps its type; in particular a client is started only     *)
(* with an identity that create_identity made, never from a torn file.       *)
THEOREM TypeCorrect == Spec => []TypeOK
<1>1. Init => TypeOK
  <2> SUFFICES ASSUME Init PROVE TypeOK
    OBVIOUS
  <2>1. ui.op # "create"
    BY DEF Init, Idle
  <2>2. {aliases, named} \subseteq [Peer -> Name \cup {None}]
    BY DEF Init, NoAliases
  <2>3. {has_identity, again, mixed} \subseteq BOOLEAN
    BY DEF Init
  <2> QED
    BY <2>1, <2>2, <2>3 DEF Init, TypeOK
<1>2. TypeOK /\ [Next]_vars => TypeOK'
  <2> SUFFICES ASSUME TypeOK, [Next]_vars PROVE TypeOK'
    OBVIOUS
  <2> USE NoneIsNoValue
  <2>1. CASE Boot
    BY <2>1 DEF Boot, TypeOK, files, identity
  <2>2. CASE Unlock
    <3>1. key \in used
      BY <2>2 DEF Unlock, TypeOK
    <3> QED
      BY <2>2, <3>1 DEF Unlock, TypeOK, files, identity
  <2>3. CASE CreateIdentity
    <3>1. PICK i \in Id \ used :
             /\ ui' = [op |-> "create", id |-> i, step |-> "open key"]
             /\ used' = used \cup {i}
      BY <2>3 DEF CreateIdentity
    <3>2. ui' \in Creation /\ ui'.id \in used' /\ used \subseteq used' /\ used' \subseteq Id
      BY <3>1 DEF Creation, TypeOK
    <3>3. again' \in BOOLEAN
      BY <2>3 DEF CreateIdentity
    <3> QED
      BY <2>3, <3>2, <3>3 DEF CreateIdentity, TypeOK, files, app
  <2>4. CASE WriteKeyfile
    <3>1. ui.id \in used /\ used' = used
      BY <2>4, CreationStep DEF WriteKeyfile, TypeOK, identity
    <3>2. ui' \in {Idle} \cup Creation /\ (ui'.op = "create" => ui'.id \in used')
      BY <2>4, <3>1, CreationStep DEF Idle
    <3>3. {key', pub'} \subseteq used \cup {None, "torn"} /\ starting' \subseteq used
      BY <2>4, <3>1 DEF WriteKeyfile, TypeOK
    <3> QED
      BY <2>4, <3>1, <3>2, <3>3 DEF WriteKeyfile, TypeOK, identity
  <2>5. ASSUME NEW i \in Id, Started(i) \/ StartFails(i) PROVE TypeOK'
    BY <2>5 DEF Started, StartFails, TypeOK, files, identity
  <2>6. ASSUME NEW p \in Peer, AddPeer(p) PROVE TypeOK'
    BY <2>6 DEF AddPeer, TypeOK, app, identity, Adding
  <2>7. ASSUME NEW p \in Peer, RemoveSelected(p) \/ TakeRemove(p) PROVE TypeOK'
    BY <2>7 DEF RemoveSelected, TakeRemove, TypeOK, files, app, identity, Removal
  <2>8. ASSUME NEW p \in Peer, NEW n \in Name, SetAlias(p, n) PROVE TypeOK'
    BY <2>8 DEF SetAlias, TypeOK, files, app, identity, Update
  <2>9. CASE WritePeer
    <3>1. ui \in Adding
      BY <2>9, AddingStep
    <3>2. ui' \in {Idle} \cup Adding /\ ui'.op # "create"
      BY <2>9, AddingStep DEF Idle
    <3>3. peers' \in [Peer -> {"none", "bare", "torn", "full"}] /\ cut' \subseteq cut
      BY <2>9, <3>1 DEF WritePeer, TypeOK, Adding
    <3> QED
      BY <2>9, <3>2, <3>3 DEF WritePeer, TypeOK, app, identity
  <2>10. CASE UiWritesAliases
    <3>1. ui \in Update
      BY <2>10, UiKinds DEF UiWritesAliases, Updating
    <3>2. ui' = Idle \/ ui' = [ui EXCEPT !.step = "write"]
      BY <2>10 DEF UiWritesAliases, AfterWrite
    <3>3. ui' \in {Idle} \cup Update /\ ui'.op # "create"
      BY <3>1, <3>2 DEF Update, Idle
    <3>4. {aliases', named'} \subseteq [Peer -> Name \cup {None}]
      BY <2>10, <3>1, AliasTypes DEF UiWritesAliases, TypeOK
    <3> QED
      BY <2>10, <3>3, <3>4 DEF UiWritesAliases, TypeOK, app, identity
  <2>11. CASE Unlink
    BY <2>11, UiKinds, LoopKinds DEF Unlink, TypeOK, app, identity, Removal, Adding
  <2>12. CASE Rmdir
    BY <2>12, LoopKinds DEF Rmdir, TypeOK, app, identity, Removal
  <2>13. CASE RemoveAlias
    BY <2>13, LoopKinds DEF RemoveAlias, TypeOK, files, app, identity, Removal, Update
  <2>14. CASE LoopWritesAliases
    <3>1. loop \in Update
      BY <2>14, LoopKinds DEF LoopWritesAliases, Updating
    <3>2. loop' = Idle \/ loop' = [loop EXCEPT !.step = "write"]
      BY <2>14 DEF LoopWritesAliases, AfterWrite
    <3>3. loop' \in {Idle} \cup Update
      BY <3>1, <3>2 DEF Update
    <3>4. {aliases', named'} \subseteq [Peer -> Name \cup {None}]
      BY <2>14, <3>1, AliasTypes DEF LoopWritesAliases, TypeOK
    <3> QED
      BY <2>14, <3>3, <3>4 DEF LoopWritesAliases, TypeOK, app, identity
  <2>15. CASE Die
    <3>1. ui'.op # "create" /\ ui' = Idle /\ loop' = Idle /\ cut' \subseteq Peer
      BY <2>15 DEF Die, Busy, TypeOK, Idle
    <3>2. mixed' \in BOOLEAN /\ has_identity' \in BOOLEAN
      BY <2>15 DEF Die
    <3> QED
      BY <2>15, <3>1, <3>2 DEF Die, TypeOK, files, identity
  <2>16. CASE UNCHANGED vars
    BY <2>16 DEF vars, files, app, identity, TypeOK
  <2> QED
    BY <2>1, <2>2, <2>3, <2>4, <2>5, <2>6, <2>7, <2>8, <2>9, <2>10, <2>11, <2>12, <2>13,
       <2>14, <2>15, <2>16 DEF Next
<1> QED  BY <1>1, <1>2, PTL DEF Spec

-----------------------------------------------------------------------------
(* The identity in identity.key is the one of every client that ran, unless  *)
(* the password was submitted twice: submit_password creates an identity     *)
(* only where boot found no identity.key, and then no client has run yet.    *)
THEOREM IdentityKept == Spec => []OneIdentity
<1>1. Init => IdentityInv
  BY DEF Init, IdentityInv, Idle
<1>2. TypeOK /\ IdentityInv /\ [Next]_vars => IdentityInv'
  <2> SUFFICES ASSUME TypeOK, IdentityInv, [Next]_vars PROVE IdentityInv'
    OBVIOUS
  <2>1. CASE Boot
    <3>1. again \/ (key = None => ran = {})
      BY NoneIsNoValue DEF IdentityInv, TypeOK
    <3> QED
      BY <2>1, <3>1 DEF Boot, IdentityInv, Idle, files, identity
  <2>2. CASE Unlock
    BY <2>2 DEF Unlock, Submitting, IdentityInv, Idle, files, identity
  <2>3. CASE CreateIdentity
    <3>1. PICK i \in Id \ used : ui' = [op |-> "create", id |-> i, step |-> "open key"]
      BY <2>3 DEF CreateIdentity
    <3>2. screen' = "unlock" /\ ~has_identity' /\ UNCHANGED <<key, ran, starting>>
      BY <2>3 DEF CreateIdentity, Submitting, files, app
    <3>3. CASE again'
      BY <3>2, <3>3 DEF IdentityInv
    <3>4. CASE ~again'
      <4>1. ~again /\ starting = {}
        BY <2>3, <3>4 DEF CreateIdentity
      <4>2. ran = {}
        BY <2>3, <4>1 DEF IdentityInv, CreateIdentity, Submitting
      <4>3. ui'.step \notin {"open pub", "write pub"}
        BY <3>1
      <4> QED  BY <3>2, <4>1, <4>2, <4>3 DEF IdentityInv
    <3> QED  BY <3>3, <3>4
  <2>4. CASE WriteKeyfile
    <3>1. ui.op = "create"
      BY <2>4 DEF WriteKeyfile, Creating
    <3>2. ui \in Creation /\ ui # Idle
      BY <3>1, UiKinds DEF Idle
    <3>3. screen' # "closed" /\ UNCHANGED <<screen, has_identity, ran, again>>
      BY <2>4, <3>2 DEF WriteKeyfile, IdentityInv, identity
    <3>4. CASE again
      BY <3>3, <3>4 DEF IdentityInv
    <3>5. CASE ~again
      <4>1. /\ screen = "unlock" /\ ~has_identity /\ starting = {} /\ ran = {}
            /\ ui.step \in {"open pub", "write pub"} => key = ui.id
        BY <3>1, <3>5 DEF IdentityInv
      <4>2. CASE Creating("write pub")
        <5>1. ui' = Idle /\ starting' = {ui.id} /\ key' = ui.id
          BY <2>4, <4>1, <4>2 DEF WriteKeyfile, Creating
        <5>2. ui'.op # "create"
          BY <5>1 DEF Idle
        <5> QED  BY <3>3, <4>1, <5>1, <5>2 DEF IdentityInv
      <4>3. CASE ~Creating("write pub")
        <5>1. starting' = starting
          BY <2>4, <4>3 DEF WriteKeyfile
        <5>2. ui'.step \in {"open pub", "write pub"} => key' = ui'.id
          BY <2>4, <3>2, <4>1, <4>3 DEF WriteKeyfile, Creating, Creation
        <5> QED  BY <3>3, <4>1, <5>1, <5>2 DEF IdentityInv
      <4> QED  BY <4>2, <4>3
    <3> QED  BY <3>4, <3>5
  <2>5. ASSUME NEW i \in Id, Started(i) \/ StartFails(i) PROVE IdentityInv'
    BY <2>5 DEF Started, StartFails, IdentityInv, Idle, files, identity
  <2>6. ASSUME UNCHANGED <<key, app, identity>>,
               ui' = ui \/ (screen # "closed" /\ ui'.op # "create")
        PROVE  IdentityInv'
    BY <2>6 DEF IdentityInv, app, identity
  <2>7. ASSUME NEW p \in Peer, AddPeer(p) \/ RemoveSelected(p) \/ TakeRemove(p)
        PROVE  IdentityInv'
    BY <2>6, <2>7 DEF AddPeer, RemoveSelected, TakeRemove, Working, files
  <2>8. ASSUME NEW p \in Peer, NEW n \in Name, SetAlias(p, n) PROVE IdentityInv'
    BY <2>6, <2>8 DEF SetAlias, Working, files
  <2>9. CASE WritePeer
    <3>1. screen # "closed"
      BY <2>9 DEF WritePeer, IdentityInv, Idle
    <3>2. ui'.op # "create"
      BY <2>9, AddingStep DEF Idle
    <3> QED  BY <2>6, <2>9, <3>1, <3>2 DEF WritePeer
  <2>10. CASE UiWritesAliases
    <3>1. ui \in Update /\ screen # "closed"
      BY <2>10, UiKinds DEF UiWritesAliases, Updating, IdentityInv, Idle
    <3>2. ui'.op # "create"
      BY <2>10, <3>1 DEF UiWritesAliases, AfterWrite, Update, Idle
    <3> QED  BY <2>6, <2>10, <3>1, <3>2 DEF UiWritesAliases
  <2>11. CASE Unlink
    <3>1. CASE ui' = ui
      BY <2>6, <2>11, <3>1 DEF Unlink
    <3>2. CASE ui' # ui
      <4>1. ui \in Adding /\ ui' = [ui EXCEPT !.linked = FALSE] /\ screen # "closed"
        BY <2>11, <3>2, UiKinds DEF Unlink, IdentityInv, Idle
      <4> QED  BY <2>6, <2>11, <4>1 DEF Unlink, Adding
    <3> QED  BY <3>1, <3>2
  <2>12. CASE Rmdir \/ RemoveAlias \/ LoopWritesAliases
    BY <2>6, <2>12 DEF Rmdir, RemoveAlias, LoopWritesAliases, files
  <2>13. CASE Die
    BY <2>13 DEF Die, IdentityInv, Idle, files, identity
  <2>14. CASE UNCHANGED vars
    BY <2>6, <2>14 DEF vars, files
  <2> QED
    BY <2>1, <2>2, <2>3, <2>4, <2>5, <2>7, <2>8, <2>9, <2>10, <2>11, <2>12, <2>13, <2>14
       DEF Next
<1>3. IdentityInv => OneIdentity
  BY DEF IdentityInv, OneIdentity
<1> QED  BY <1>1, <1>2, <1>3, TypeCorrect, PTL DEF Spec

-----------------------------------------------------------------------------
(* A directory that stops load_peers is one that add_peer or RemovePeer is   *)
(* at work on, or that a dying process left, for any peers: delete_peer and  *)
(* initialize_peer clean up after each other in every order of their steps.  *)
THEOREM DirectoriesComplete == Spec => []PeersLoadable
<1>1. Init => PeersInv
  BY DEF Init, PeersInv
<1>2. TypeOK /\ PeersInv /\ [Next]_vars => PeersInv'
  <2> SUFFICES ASSUME TypeOK, PeersInv, [Next]_vars PROVE PeersInv'
    OBVIOUS
  <2>1. ASSUME UNCHANGED <<peers, cut>>,
               ui' = ui \/ (ui.op # "add" /\ ui'.op # "add"),
               loop' = loop \/ loop.op # "delete"
        PROVE  PeersInv'
    BY <2>1 DEF PeersInv
  <2>2. CASE Boot \/ Unlock
    BY <2>1, <2>2 DEF Boot, Unlock, files
  <2>3. CASE CreateIdentity
    <3>1. ui.op # "add" /\ ui'.op # "add"
      <4>1. PICK i \in Id \ used : ui' = [op |-> "create", id |-> i, step |-> "open key"]
        BY <2>3 DEF CreateIdentity
      <4> QED  BY <2>3, <4>1 DEF CreateIdentity, Submitting, Idle
    <3> QED  BY <2>1, <2>3, <3>1 DEF CreateIdentity, files
  <2>4. CASE WriteKeyfile
    <3>1. ui.op # "add" /\ ui'.op # "add"
      BY <2>4, CreationStep DEF Idle
    <3> QED  BY <2>1, <2>4, <3>1 DEF WriteKeyfile
  <2>5. ASSUME NEW i \in Id, Started(i) \/ StartFails(i) PROVE PeersInv'
    BY <2>1, <2>5 DEF Started, StartFails, files
  <2>6. ASSUME NEW p \in Peer, AddPeer(p) PROVE PeersInv'
    <3>1. ui.op # "add"
      BY <2>6 DEF AddPeer, Working, Idle
    <3>2. /\ ui'.op = "add" /\ ui'.peer = p /\ ui'.step = "open"
          /\ UNCHANGED <<loop, cut>>
      BY <2>6 DEF AddPeer
    <3>3. \A q \in Peer : peers'[q] # peers[q] => q = p /\ peers'[q] = "bare"
      BY <2>6 DEF AddPeer, TypeOK
    <3> QED  BY <3>1, <3>2, <3>3 DEF PeersInv
  <2>7. ASSUME NEW p \in Peer, RemoveSelected(p) \/ TakeRemove(p) PROVE PeersInv'
    BY <2>1, <2>7 DEF RemoveSelected, TakeRemove, Idle, files
  <2>8. ASSUME NEW p \in Peer, NEW n \in Name, SetAlias(p, n) PROVE PeersInv'
    BY <2>1, <2>8 DEF SetAlias, Working, Idle, files
  <2>9. CASE WritePeer
    <3>1. ui \in Adding /\ loop' = loop
      BY <2>9, UiKinds DEF WritePeer
    <3>2. CASE ui.step = "open" /\ peers[ui.peer] # "none"
      <4>1. /\ peers' = [peers EXCEPT ![ui.peer] = "torn"] /\ cut' = cut
            /\ ui' = [ui EXCEPT !.step = "write", !.linked = TRUE]
        BY <2>9, <3>2 DEF WritePeer
      <4>2. ui'.op = "add" /\ ui'.peer = ui.peer /\ ui'.step = "write" /\ ui'.linked
        BY <3>1, <4>1 DEF Adding
      <4> QED  BY <3>1, <3>2, <4>1, <4>2 DEF PeersInv, TypeOK
    <3>3. CASE ui.step = "open" /\ peers[ui.peer] = "none"
      BY <2>9, <3>1, <3>3 DEF WritePeer, PeersInv
    <3>4. CASE ui.step = "write" /\ ui.linked
      BY <2>9, <3>1, <3>4 DEF WritePeer, PeersInv, TypeOK
    <3>5. CASE ui.step = "write" /\ ~ui.linked
      <4>1. cut' = cut /\ peers' = peers
        BY <2>9, <3>5 DEF WritePeer, TypeOK
      <4> QED  BY <3>1, <3>5, <4>1 DEF PeersInv
    <3> QED  BY <3>1, <3>2, <3>3, <3>4, <3>5 DEF Adding
  <2>10. CASE UiWritesAliases
    <3>1. ui \in Update
      BY <2>10, UiKinds DEF UiWritesAliases, Updating
    <3>2. ui.op # "add" /\ ui'.op # "add"
      BY <2>10, <3>1 DEF UiWritesAliases, AfterWrite, Update, Idle
    <3> QED  BY <2>1, <2>10, <3>2 DEF UiWritesAliases
  <2>11. CASE Unlink
    <3>1. /\ loop \in Removal /\ loop'.op = "delete" /\ loop'.peer = loop.peer
          /\ loop.op = "delete" /\ cut' = cut
      BY <2>11, LoopKinds DEF Unlink, Removal
    <3>2. /\ loop.peer \in Peer /\ peers'[loop.peer] # "torn"
          /\ \A q \in Peer \ {loop.peer} : peers'[q] = peers[q]
      BY <2>11, <3>1 DEF Unlink, Removal, TypeOK
    <3>3. ui' = ui \/ (ui \in Adding /\ ui.peer = loop.peer /\ ui' = [ui EXCEPT !.linked = FALSE])
      BY <2>11, UiKinds DEF Unlink
    <3>4. ui' = ui \/ (ui.op = "add" /\ ui.peer = loop.peer)
      BY <3>3 DEF Adding
    <3> QED  BY <3>1, <3>2, <3>4 DEF PeersInv
  <2>12. CASE Rmdir
    <3>1. loop \in Removal /\ loop.peer \in Peer /\ ui' = ui
      BY <2>12, LoopKinds DEF Rmdir, Removal
    <3>2. CASE peers[loop.peer] \in {"none", "bare"}
      BY <2>12, <3>1, <3>2 DEF Rmdir, PeersInv, TypeOK
    <3>3. CASE peers[loop.peer] \notin {"none", "bare"}
      BY <2>12, <3>1, <3>3 DEF Rmdir, PeersInv
    <3> QED  BY <3>2, <3>3
  <2>13. CASE RemoveAlias \/ LoopWritesAliases
    BY <2>1, <2>13 DEF RemoveAlias, LoopWritesAliases, Updating, files
  <2>14. CASE Die
    BY <2>14 DEF Die, Busy, PeersInv, files
  <2>15. CASE UNCHANGED vars
    BY <2>1, <2>15 DEF vars, files
  <2> QED
    BY <2>2, <2>3, <2>4, <2>5, <2>6, <2>7, <2>8, <2>9, <2>10, <2>11, <2>12, <2>13, <2>14,
       <2>15 DEF Next
<1>3. PeersInv /\ TypeOK => PeersLoadable
  BY DEF PeersInv, PeersLoadable, Busy, TypeOK
<1> QED  BY <1>1, <1>2, <1>3, TypeCorrect, PTL DEF Spec

-----------------------------------------------------------------------------
(* A name given by set_alias stays in the alias file until remove_alias, for *)
(* any names and peers, unless two updates overlap or one is cut: the map    *)
(* that each update read before is the one it finds when it writes.          *)
THEOREM NamesKept == Spec => []AliasesKept
<1>1. Init => AliasInv
  BY DEF Init, AliasInv, Updating, Idle
<1>2. TypeOK /\ AliasInv /\ [Next]_vars => AliasInv'
  <2> SUFFICES ASSUME TypeOK, AliasInv, [Next]_vars PROVE AliasInv'
    OBVIOUS
  <2>1. ASSUME UNCHANGED <<aliases, named, mixed>>,
               ui' = ui \/ (ui.op # "alias" /\ ui'.op # "alias"),
               loop' = loop \/ (loop.op # "alias" /\ loop'.op # "alias")
        PROVE  AliasInv'
    BY <2>1 DEF AliasInv, Updating, Sound
  <2>2. CASE Boot \/ Unlock
    BY <2>1, <2>2 DEF Boot, Unlock, files
  <2>3. CASE CreateIdentity
    <3>1. ui.op # "alias" /\ ui'.op # "alias"
      <4>1. PICK i \in Id \ used : ui' = [op |-> "create", id |-> i, step |-> "open key"]
        BY <2>3 DEF CreateIdentity
      <4> QED  BY <2>3, <4>1 DEF CreateIdentity, Submitting, Idle
    <3> QED  BY <2>1, <2>3, <3>1 DEF CreateIdentity, files
  <2>4. CASE WriteKeyfile
    <3>1. ui.op # "alias" /\ ui'.op # "alias"
      BY <2>4, CreationStep DEF Idle
    <3> QED  BY <2>1, <2>4, <3>1 DEF WriteKeyfile
  <2>5. ASSUME NEW i \in Id, Started(i) \/ StartFails(i) PROVE AliasInv'
    BY <2>1, <2>5 DEF Started, StartFails, files
  <2>6. ASSUME NEW p \in Peer, AddPeer(p) PROVE AliasInv'
    <3>1. ui.op # "alias" /\ ui'.op # "alias"
      BY <2>6 DEF AddPeer, Working, Idle
    <3> QED  BY <2>1, <2>6, <3>1 DEF AddPeer
  <2>7. ASSUME NEW p \in Peer, RemoveSelected(p) \/ TakeRemove(p) PROVE AliasInv'
    BY <2>1, <2>7 DEF RemoveSelected, TakeRemove, Idle, files
  <2>8. ASSUME NEW p \in Peer, NEW n \in Name, SetAlias(p, n) PROVE AliasInv'
    <3>1. CASE mixed \/ Updating(loop)
      BY <2>8, <3>1 DEF SetAlias, AliasInv
    <3>2. CASE ~mixed /\ ~Updating(loop)
      <4>1. aliases = named
        BY <2>8, <3>2 DEF SetAlias, Working, AliasInv, Updating, Idle
      <4>2. /\ UNCHANGED <<aliases, named, loop>>
            /\ ui'.op = "alias" /\ ui'.map = [aliases EXCEPT ![ui'.peer] = ui'.name]
        BY <2>8 DEF SetAlias, files
      <4> QED  BY <3>2, <4>1, <4>2 DEF AliasInv, Updating, Sound
    <3> QED  BY <3>1, <3>2
  <2>9. CASE WritePeer
    <3>1. ui.op # "alias" /\ ui'.op # "alias"
      BY <2>9, AddingStep DEF Idle
    <3> QED  BY <2>1, <2>9, <3>1 DEF WritePeer
  <2>10. CASE UiWritesAliases
    <3>1. ui \in Update /\ UNCHANGED <<loop, mixed>>
      BY <2>10, UiKinds DEF UiWritesAliases, Updating
    <3>2. CASE mixed
      BY <3>1, <3>2 DEF AliasInv
    <3>3. CASE ~mixed
      <4>1. ~Updating(loop) /\ Sound(ui)
        BY <2>10, <3>3 DEF UiWritesAliases, AliasInv
      <4>2. CASE ui.step = "open"
        <5>1. ui' = [ui EXCEPT !.step = "write"] /\ named' = named
          BY <2>10, <4>2 DEF UiWritesAliases, WriteAliases, AfterWrite
        <5>2. /\ ui'.op = "alias" /\ ui'.step = "write"
              /\ ui'.map = ui.map /\ ui'.peer = ui.peer /\ ui'.name = ui.name
          BY <3>1, <5>1 DEF Update
        <5> QED  BY <3>1, <4>1, <5>1, <5>2 DEF AliasInv, Updating, Sound
      <4>3. CASE ui.step = "write"
        <5>1. ui' = Idle /\ aliases' = named'
          BY <2>10, <4>1, <4>3 DEF UiWritesAliases, WriteAliases, AfterWrite, Sound
        <5> QED  BY <3>1, <4>1, <5>1 DEF AliasInv, Updating, Idle
      <4> QED  BY <3>1, <4>2, <4>3 DEF Update
    <3> QED  BY <3>2, <3>3
  <2>11. CASE Unlink
    <3>1. loop.op # "alias" /\ loop'.op # "alias"
      BY <2>11, LoopKinds DEF Unlink, Removal
    <3>2. ui' = ui \/ (ui.op # "alias" /\ ui'.op # "alias")
      BY <2>11, UiKinds DEF Unlink, Adding
    <3> QED  BY <2>1, <2>11, <3>1, <3>2 DEF Unlink
  <2>12. CASE Rmdir
    <3>1. loop.op # "alias" /\ loop'.op # "alias"
      BY <2>12, LoopKinds DEF Rmdir, Removal, Idle
    <3> QED  BY <2>1, <2>12, <3>1 DEF Rmdir
  <2>13. CASE RemoveAlias
    <3>1. CASE mixed \/ Updating(ui)
      BY <2>13, <3>1 DEF RemoveAlias, AliasInv
    <3>2. CASE ~mixed /\ ~Updating(ui)
      <4>1. aliases = named /\ UNCHANGED <<aliases, named, ui>>
        BY <2>13, <3>2 DEF RemoveAlias, AliasInv, Updating, files
      <4>2. CASE loop' = Idle
        BY <3>2, <4>1, <4>2 DEF AliasInv, Updating, Idle
      <4>3. CASE loop' # Idle
        <5>1. loop'.op = "alias" /\ loop'.map = [aliases EXCEPT ![loop'.peer] = loop'.name]
          BY <2>13, <4>3 DEF RemoveAlias
        <5> QED  BY <3>2, <4>1, <5>1 DEF AliasInv, Updating, Sound
      <4> QED  BY <4>2, <4>3
    <3> QED  BY <3>1, <3>2
  <2>14. CASE LoopWritesAliases
    <3>1. loop \in Update /\ UNCHANGED <<ui, mixed>>
      BY <2>14, LoopKinds DEF LoopWritesAliases, Updating
    <3>2. CASE mixed
      BY <3>1, <3>2 DEF AliasInv
    <3>3. CASE ~mixed
      <4>1. ~Updating(ui) /\ Sound(loop)
        BY <2>14, <3>3 DEF LoopWritesAliases, AliasInv
      <4>2. CASE loop.step = "open"
        <5>1. loop' = [loop EXCEPT !.step = "write"] /\ named' = named
          BY <2>14, <4>2 DEF LoopWritesAliases, WriteAliases, AfterWrite
        <5>2. /\ loop'.op = "alias" /\ loop'.step = "write"
              /\ loop'.map = loop.map /\ loop'.peer = loop.peer /\ loop'.name = loop.name
          BY <3>1, <5>1 DEF Update
        <5> QED  BY <3>1, <4>1, <5>1, <5>2 DEF AliasInv, Updating, Sound
      <4>3. CASE loop.step = "write"
        <5>1. loop' = Idle /\ aliases' = named'
          BY <2>14, <4>1, <4>3 DEF LoopWritesAliases, WriteAliases, AfterWrite, Sound
        <5> QED  BY <3>1, <4>1, <5>1 DEF AliasInv, Updating, Idle
      <4> QED  BY <3>1, <4>2, <4>3 DEF Update
    <3> QED  BY <3>2, <3>3
  <2>15. CASE Die
    <3>1. ui' = Idle /\ loop' = Idle /\ UNCHANGED <<aliases, named>>
      BY <2>15 DEF Die, files
    <3>2. CASE mixed'
      BY <3>2 DEF AliasInv
    <3>3. CASE ~mixed'
      <4>1. /\ ~mixed
            /\ Updating(ui) => ui.step = "open"
            /\ Updating(loop) => loop.step = "open"
        BY <2>15, <3>3, UiKinds, LoopKinds DEF Die, Updating, Update
      <4>2. aliases = named
        BY <4>1 DEF AliasInv, Sound
      <4> QED  BY <3>1, <4>2 DEF AliasInv, Updating, Idle
    <3> QED  BY <3>2, <3>3
  <2>16. CASE UNCHANGED vars
    BY <2>1, <2>16 DEF vars, files
  <2> QED
    BY <2>2, <2>3, <2>4, <2>5, <2>6, <2>7, <2>8, <2>9, <2>10, <2>11, <2>12, <2>13, <2>14,
       <2>15, <2>16 DEF Next
<1>3. AliasInv => AliasesKept
  BY DEF AliasInv, AliasesKept
<1> QED  BY <1>1, <1>2, <1>3, TypeCorrect, PTL DEF Spec
=============================================================================
