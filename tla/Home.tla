-------------------------------- MODULE Home ---------------------------------
(***************************************************************************)
(* The data directory ~/.sechat of a client with a window: the identity    *)
(* files, the directories of the peers and the alias file.  Two threads    *)
(* write there without a lock: the window's (create_identity, add_peer,    *)
(* set_alias) and the orchestrate loop (RemovePeer).  The process may die  *)
(* at any moment and be started again.                                     *)
(*                                                                         *)
(* A step is one call to the file system.  A file opened with truncate is  *)
(* empty until it is written; what is written survives the process.        *)
(***************************************************************************)
EXTENDS Integers, FiniteSets

CONSTANTS
    Peer,        \* the contacts
    Name,        \* their aliases
    Id,          \* the identities generate_x25519 and generate_ed25519 yield
    None         \* no identity, no alias, no file

ASSUME NoneIsNoValue == None \notin Name \cup Id /\ "torn" \notin Id

VARIABLES
    key, pub,    \* identity.key and identity.pub: None, "torn" or whose it is
    peers,       \* peers/<hash>: "none", "bare" (no peer.pub), "torn" or "full"
    aliases,     \* the alias file
    screen,      \* of the window: "closed", "unlock" or "main"
    has_identity,\* what boot found
    starting,    \* identities whose Client::start has not reported yet
    ui,          \* the call the window's thread is in
    queue,       \* RemovePeer commands not yet taken by the loop
    loop,        \* the call the loop is in
    used,        \* history: identities generated so far
    ran,         \* history: identities a client has been started with
    again,       \* history: the password was submitted before Started came
    cut,         \* history: peers whose directory a dying process left half done
    named,       \* history: the names given, and not removed since
    mixed        \* history: two updates of the alias file overlapped, or one was cut

files == <<key, pub, peers, aliases>>
app == <<screen, has_identity, starting>>
identity == <<used, ran, again>>
vars == <<files, app, ui, queue, loop, identity, cut, named, mixed>>

Idle == [op |-> "idle"]
NoAliases == [p \in Peer |-> None]

Init ==
    /\ key = None /\ pub = None
    /\ peers = [p \in Peer |-> "none"]
    /\ aliases = NoAliases
    /\ screen = "closed" /\ has_identity = FALSE
    /\ starting = {}
    /\ ui = Idle /\ queue = {} /\ loop = Idle
    /\ used = {} /\ ran = {} /\ again = FALSE
    /\ cut = {} /\ named = NoAliases /\ mixed = FALSE

-----------------------------------------------------------------------------
(* Start-up.                                                                 *)

(* App::boot asks identity_exists, this once.                                *)
Boot ==
    /\ screen = "closed"
    /\ screen' = "unlock"
    /\ has_identity' = (key # None)
    /\ UNCHANGED <<files, starting, ui, queue, loop, identity, cut, named, mixed>>

Submitting == screen = "unlock" /\ ui = Idle

(* read_keyfile finds both files complete, and the password is right; any    *)
(* other password is refused and changes nothing.                            *)
UnlockShort ==                            \* mutant: a short file is accepted
    /\ Submitting /\ has_identity
    /\ key # None
    /\ starting' = starting \cup {key}
    /\ UNCHANGED <<files, screen, has_identity, ui, queue, loop, identity, cut, named, mixed>>

Unlock ==
    /\ Submitting /\ has_identity
    /\ key \in Id /\ pub \in Id
    /\ starting' = starting \cup {key}
    /\ UNCHANGED <<files, screen, has_identity, ui, queue, loop, identity,
                   cut, named, mixed>>

CreateWhenRefused ==                      \* mutant: a refused password creates
    /\ Submitting
    /\ \E i \in Id \ used :
          /\ ui' = [op |-> "create", id |-> i, step |-> "open key"]
          /\ used' = used \cup {i}
    /\ again' = (again \/ starting # {})
    /\ UNCHANGED <<files, app, queue, loop, ran, cut, named, mixed>>

CreateIdentity ==
    /\ Submitting /\ ~has_identity
    /\ \E i \in Id \ used :
          /\ ui' = [op |-> "create", id |-> i, step |-> "open key"]
          /\ used' = used \cup {i}
    /\ again' = (again \/ starting # {})
    /\ UNCHANGED <<files, app, queue, loop, ran, cut, named, mixed>>

(* encrypt_keyfile writes the two files, one after the other.                *)
Creating(step) == ui.op = "create" /\ ui.step = step

WriteKeyfile ==
    /\ \/ /\ Creating("open key")
          /\ key' = "torn" /\ ui' = [ui EXCEPT !.step = "write key"]
          /\ UNCHANGED <<pub, starting>>
       \/ /\ Creating("write key")
          /\ key' = ui.id /\ ui' = [ui EXCEPT !.step = "open pub"]
          /\ UNCHANGED <<pub, starting>>
       \/ /\ Creating("open pub")
          /\ pub' = "torn" /\ ui' = [ui EXCEPT !.step = "write pub"]
          /\ UNCHANGED <<key, starting>>
       \/ /\ Creating("write pub")
          /\ pub' = ui.id /\ ui' = Idle
          /\ starting' = starting \cup {ui.id}
          /\ UNCHANGED key
    /\ UNCHANGED <<peers, aliases, screen, has_identity, queue, loop, identity,
                   cut, named, mixed>>

(* on_started takes the client whatever the window shows, or reports that    *)
(* the start failed.  The loop of an earlier client works off its commands;  *)
(* as a bound, one loop at a time does.                                      *)
Started(i) ==
    /\ i \in starting /\ ui = Idle
    /\ starting' = starting \ {i}
    /\ screen' = "main"
    /\ ran' = ran \cup {i}
    /\ UNCHANGED <<files, has_identity, ui, queue, loop, used, again, cut, named, mixed>>

StartFails(i) ==
    /\ i \in starting /\ ui = Idle
    /\ starting' = starting \ {i}
    /\ UNCHANGED <<files, screen, has_identity, ui, queue, loop, identity, cut, named, mixed>>

-----------------------------------------------------------------------------
(* The window's thread.                                                      *)

Working == screen = "main" /\ ui = Idle

(* Client::add_peer: initialize_peer creates the directory, opens peer.pub   *)
(* and writes it.                                                            *)
AddPeer(p) ==
    /\ Working
    /\ peers' = [peers EXCEPT ![p] = IF @ = "none" THEN "bare" ELSE @]
    /\ ui' = [op |-> "add", peer |-> p, step |-> "open", linked |-> FALSE]
    /\ UNCHANGED <<key, pub, aliases, app, queue, loop, identity, cut, named, mixed>>

(* Opening fails when the loop has just deleted the directory; writing goes  *)
(* nowhere when it has just deleted the file.                                *)
WritePeer ==
    /\ ui.op = "add"
    /\ \/ /\ ui.step = "open" /\ peers[ui.peer] # "none"
          /\ peers' = [peers EXCEPT ![ui.peer] = "torn"]
          /\ ui' = [ui EXCEPT !.step = "write", !.linked = TRUE]
          /\ UNCHANGED cut
       \/ /\ ui.step = "open" /\ peers[ui.peer] = "none"
          /\ ui' = Idle
          /\ UNCHANGED <<peers, cut>>
       \/ /\ ui.step = "write"
          /\ peers' = [peers EXCEPT ![ui.peer] = IF ui.linked THEN "full" ELSE @]
          /\ cut' = IF ui.linked THEN cut \ {ui.peer} ELSE cut
          /\ ui' = Idle
    /\ UNCHANGED <<key, pub, aliases, app, queue, loop, identity, named, mixed>>

(* An update of the alias file: read it, open it, write it.                  *)
Updating(t) == t.op = "alias"

(* set_alias for a contact on the list.                                      *)
SetAliasFresh(p, n) ==                    \* mutant: the file is not read first
    /\ Working /\ peers[p] = "full"
    /\ ui' = [op |-> "alias", peer |-> p, name |-> n, step |-> "open",
              map |-> [NoAliases EXCEPT ![p] = n]]
    /\ mixed' = (mixed \/ Updating(loop))
    /\ UNCHANGED <<files, app, queue, loop, identity, cut, named>>

SetAlias(p, n) ==
    /\ Working /\ peers[p] = "full"
    /\ ui' = [op |-> "alias", peer |-> p, name |-> n, step |-> "open",
              map |-> [aliases EXCEPT ![p] = n]]
    /\ mixed' = (mixed \/ Updating(loop))
    /\ UNCHANGED <<files, app, queue, loop, identity, cut, named>>

(* fs::write, by either thread.                                              *)
WriteAliases(t) ==
    \/ /\ t.step = "open"
       /\ aliases' = NoAliases
       /\ UNCHANGED named
    \/ /\ t.step = "write"
       /\ aliases' = t.map
       /\ named' = [named EXCEPT ![t.peer] = t.name]

AfterWrite(t) == IF t.step = "open" THEN [t EXCEPT !.step = "write"] ELSE Idle

UiWritesAliases ==
    /\ Updating(ui)
    /\ WriteAliases(ui)
    /\ ui' = AfterWrite(ui)
    /\ UNCHANGED <<key, pub, peers, app, queue, loop, identity, cut, mixed>>

RemoveSelected(p) ==
    /\ Working /\ peers[p] = "full"
    /\ queue' = queue \cup {p}
    /\ UNCHANGED <<files, app, ui, loop, identity, cut, named, mixed>>

-----------------------------------------------------------------------------
(* The loop: Command::RemovePeer.                                            *)

TakeRemove(p) ==
    /\ loop = Idle /\ p \in queue
    /\ queue' = queue \ {p}
    /\ loop' = [op |-> "delete", peer |-> p, step |-> "unlink"]
    /\ UNCHANGED <<files, app, ui, identity, cut, named, mixed>>

(* delete_peer: remove_dir_all deletes peer.pub, then the directory, which   *)
(* fails when a new peer.pub has appeared.                                   *)
UnlinkOnly ==                             \* mutant: the directory is left
    /\ loop.op = "delete" /\ loop.step = "unlink"
    /\ peers' = [peers EXCEPT ![loop.peer] = IF @ = "none" THEN @ ELSE "bare"]
    /\ loop' = [loop EXCEPT !.op = "forget"]
    /\ UNCHANGED <<key, pub, aliases, app, ui, queue, identity, cut, named, mixed>>

Unlink ==
    /\ loop.op = "delete" /\ loop.step = "unlink"
    /\ peers' = [peers EXCEPT ![loop.peer] = IF @ = "none" THEN @ ELSE "bare"]
    /\ ui' = IF ui.op = "add" /\ ui.peer = loop.peer THEN [ui EXCEPT !.linked = FALSE] ELSE ui
    /\ loop' = [loop EXCEPT !.step = "rmdir"]
    /\ UNCHANGED <<key, pub, aliases, app, queue, identity, cut, named, mixed>>

Rmdir ==
    /\ loop.op = "delete" /\ loop.step = "rmdir"
    /\ IF peers[loop.peer] \in {"none", "bare"}
         THEN /\ peers' = [peers EXCEPT ![loop.peer] = "none"]
              /\ cut' = cut \ {loop.peer}
              /\ loop' = [loop EXCEPT !.op = "forget"]
         ELSE /\ loop' = Idle
              /\ UNCHANGED <<peers, cut>>
    /\ UNCHANGED <<key, pub, aliases, app, ui, queue, identity, named, mixed>>

(* remove_alias.                                                             *)
RemoveAlias ==
    /\ loop.op = "forget"
    /\ loop' = IF aliases[loop.peer] = None THEN Idle
               ELSE [op |-> "alias", peer |-> loop.peer, name |-> None, step |-> "open",
                     map |-> [aliases EXCEPT ![loop.peer] = None]]
    /\ mixed' = (mixed \/ Updating(ui))
    /\ UNCHANGED <<files, app, ui, queue, identity, cut, named>>

LoopWritesAliases ==
    /\ Updating(loop)
    /\ WriteAliases(loop)
    /\ loop' = AfterWrite(loop)
    /\ UNCHANGED <<key, pub, peers, app, ui, queue, identity, cut, mixed>>

-----------------------------------------------------------------------------
(* The peers whose directory a thread is changing.                           *)
Busy == {p \in Peer : \/ (ui.op = "add" /\ ui.peer = p)
                      \/ (loop.op = "delete" /\ loop.peer = p)}

(* The process dies.                                                         *)
Die ==
    /\ screen # "closed"
    /\ screen' = "closed" /\ has_identity' = FALSE
    /\ starting' = {}
    /\ ui' = Idle /\ queue' = {} /\ loop' = Idle
    /\ cut' = cut \cup {p \in Busy : peers[p] \in {"bare", "torn"}}
    /\ mixed' = (mixed \/ \E t \in {ui, loop} : Updating(t) /\ t.step = "write")
    /\ UNCHANGED <<files, identity, named>>

Next ==
    \/ Boot \/ Unlock \/ CreateIdentity \/ WriteKeyfile
    \/ \E i \in Id : Started(i) \/ StartFails(i)
    \/ \E p \in Peer : AddPeer(p) \/ RemoveSelected(p) \/ TakeRemove(p)
    \/ \E p \in Peer, n \in Name : SetAlias(p, n)
    \/ WritePeer \/ UiWritesAliases
    \/ Unlink \/ Rmdir \/ RemoveAlias \/ LoopWritesAliases
    \/ Die

Spec == Init /\ [][Next]_vars

-----------------------------------------------------------------------------
(* Properties.                                                               *)

Update == [op : {"alias"}, peer : Peer, name : Name \cup {None},
           step : {"open", "write"}, map : [Peer -> Name \cup {None}]]
Creation == [op : {"create"}, id : Id, step : {"open key", "write key", "open pub", "write pub"}]
Adding == [op : {"add"}, peer : Peer, step : {"open", "write"}, linked : BOOLEAN]
Removal == [op : {"delete", "forget"}, peer : Peer, step : {"unlink", "rmdir"}]

(* Every variable has its type; a client runs only with an identity that     *)
(* create_identity made, never with what a torn file holds.                  *)
TypeOK ==
    /\ {key, pub} \subseteq used \cup {None, "torn"}
    /\ peers \in [Peer -> {"none", "bare", "torn", "full"}]
    /\ {aliases, named} \subseteq [Peer -> Name \cup {None}]
    /\ screen \in {"closed", "unlock", "main"}
    /\ {has_identity, again, mixed} \subseteq BOOLEAN
    /\ starting \cup ran \subseteq used /\ used \subseteq Id
    /\ ui.op = "create" => ui.id \in used
    /\ ui \in {Idle} \cup Update \cup Creation \cup Adding
    /\ loop \in {Idle} \cup Update \cup Removal
    /\ queue \cup cut \subseteq Peer

(* Every client this directory has ever run has the identity that is in      *)
(* identity.key, so what it stored can be read after the next unlock: no     *)
(* refused password, failed start or death in the middle of encrypt_keyfile  *)
(* makes submit_password replace an identity that was used.  The exception   *)
(* is a password submitted a second time before Started arrives.             *)
OneIdentity == again \/ ran \subseteq {key}

(* load_peers fails as a whole on a directory without a complete peer.pub.   *)
(* However add_peer and RemovePeer interleave, each such directory is one a  *)
(* thread is still working on, or one that a dying process left half done.   *)
PeersLoadable == \A p \in Peer : peers[p] \in {"none", "full"} \/ p \in Busy \cup cut

(* When no update of the alias file is under way, the file holds the names   *)
(* given by set_alias and not removed since by RemovePeer, unless two        *)
(* updates overlapped or one was cut.                                        *)
AliasesKept == Updating(ui) \/ Updating(loop) \/ mixed \/ aliases = named

-----------------------------------------------------------------------------
(* Inductive invariants.                                                     *)

(* An identity is created only where none was used, and is what              *)
(* identity.key holds from "open pub" on.                                    *)
IdentityInv ==
    /\ screen = "closed" => starting = {} /\ ui = Idle
    /\ \/ again
       \/ /\ ran \cup starting \subseteq {key}
          /\ screen = "unlock" /\ ~has_identity => ran = {}
          /\ ui.op = "create" =>
                /\ screen = "unlock" /\ ~has_identity /\ starting = {}
                /\ ui.step \in {"open pub", "write pub"} => key = ui.id

(* A torn peer.pub is one the window has open, a directory without one is    *)
(* about to get it or to go.                                                 *)
PeersInv ==
    \A p \in Peer :
        /\ peers[p] = "torn" =>
              \/ p \in cut
              \/ ui.op = "add" /\ ui.peer = p /\ ui.step = "write" /\ ui.linked
        /\ peers[p] = "bare" =>
              \/ p \in cut
              \/ ui.op = "add" /\ ui.peer = p /\ ui.step = "open"
              \/ loop.op = "delete" /\ loop.peer = p

(* An update that overlaps no other holds the names as they will be, and     *)
(* the file holds them as they are until it is opened.                       *)
Sound(t) ==
    /\ t.map = [named EXCEPT ![t.peer] = t.name]
    /\ t.step = "open" => aliases = named

AliasInv ==
    \/ mixed
    \/ /\ Updating(ui) => ~Updating(loop) /\ Sound(ui)
       /\ Updating(loop) => Sound(loop)
       /\ ~Updating(ui) /\ ~Updating(loop) => aliases = named
=============================================================================
