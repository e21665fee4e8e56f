------------------------------ MODULE Presence -------------------------------
(***************************************************************************)
(* Presence, with its clock.  One client announces itself to the server    *)
(* (crates/serverclient): in the handshake, then every 15 seconds from     *)
(* presence_refresh_loop, and takes its announcement back on Shutdown.     *)
(* A friend keeps what the server passes on in the cache PEERS, where an   *)
(* entry is good for ONLINE_TTL_SECS.                                      *)
(*                                                                         *)
(* Time is counted in seconds.  The two wall clocks agree.  The server and *)
(* the connections are external: a notice takes up to Delay seconds, in    *)
(* order, and up to MaxLost notices in a row go missing (the friend is     *)
(* reconnecting, or append_online_peer cannot read peer.pub).  The         *)
(* friend's process runs all the time.                                     *)
(***************************************************************************)
EXTENDS Integers, Sequences

CONSTANTS
    Late,        \* bound on the lateness of a tick of presence_refresh_loop
    Delay,       \* bound on the way of a notice to the friend
    MaxLost,     \* bound on notices lost in a row
    None         \* no entry, no token

ASSUME PresenceConstants ==
    /\ Late \in Nat /\ Delay \in Nat /\ MaxLost \in Nat
    /\ None \notin Nat /\ None \notin [addr : {"observed", "udp"}, age : Nat]

ONLINE_TTL_SECS == 35
Period == 15             \* the interval of presence_refresh_loop
TokenSecs == 15          \* the seconds that share a presence token

VARIABLES
    phase,       \* the wall clock, modulo TokenSecs
    state,       \* the client: "off", "shaken" (before the first tick), "up"
    lasts,       \* seconds the client has been off, or on, as far as they count
    due,         \* seconds to the next tick; negative when it is late
    token,       \* how many tokens ago the last announced one was current
    wire,        \* the notices on their way to the friend
    lost,        \* notices lost since the last one that arrived
    entry        \* PEERS of the friend: the client's entry, or None

vars == <<phase, state, lasts, due, token, wire, lost, entry>>

-----------------------------------------------------------------------------
Connected == state # "off"

(* Within Prompt seconds a tick that is due has happened and its notice has  *)
(* come through, if it is not lost; Settled adds a period for each lost one. *)
Prompt == Late + Delay
Settled == MaxLost * Period + Prompt
Expired == ONLINE_TTL_SECS + Delay

(* How far `lasts` is counted.                                               *)
Long == IF Connected THEN Settled + 1 ELSE Expired + 1

OldToken == 3            \* tokens older than this are not told apart

Init ==
    /\ phase \in 0..(TokenSecs - 1)
    /\ state = "off"
    /\ lasts = Expired + 1
    /\ due = 0
    /\ token = None
    /\ wire = <<>>
    /\ lost = 0
    /\ entry = None

Notice(kind, a) == [kind |-> kind, addr |-> a, left |-> Delay]

(* presence_token of the current second: the server files the address under  *)
(* it and tells the friend.                                                  *)
TokenOfStart(t) == IF t = None THEN 0 ELSE t   \* mutant: timestamp taken once
TokenNow(t) == 0

Announce(a) ==
    /\ wire' = Append(wire, Notice("online", a))
    /\ token' = TokenNow(token)

(* orchestrate connects, after a backoff of at least a second.  As a bound,  *)
(* at most one notice of an earlier connection is then still on its way.     *)
(* server_initial_handshake stores the UDP address in MY_ADDRESS, and        *)
(* announces the address the server saw the connection come from.            *)
Handshake ==
    /\ state = "off" /\ lasts > 0
    /\ Len(wire) <= 1
    /\ state' = "shaken"
    /\ lasts' = 0
    /\ due' = 0
    /\ Announce("observed")
    /\ UNCHANGED <<phase, lost, entry>>

(* A tick of presence_refresh_loop, the first one at once.  The interval     *)
(* keeps its deadlines when a tick is late.                                  *)
TickObserved ==                                \* mutant: MY_ADDRESS not used
    /\ Connected /\ due <= 0
    /\ state' = "up"
    /\ due' = due + Period
    /\ Announce("observed")
    /\ UNCHANGED <<phase, lasts, lost, entry>>

TickHalf ==                                    \* mutant: every other tick skipped
    /\ Connected /\ due <= 0
    /\ state' = "up"
    /\ due' = due + 2 * Period
    /\ Announce("udp")
    /\ UNCHANGED <<phase, lasts, lost, entry>>

PresenceTick ==
    /\ Connected /\ due <= 0
    /\ state' = "up"
    /\ due' = due + Period
    /\ Announce("udp")
    /\ UNCHANGED <<phase, lasts, lost, entry>>

(* Command::AnnounceNow: the same announcement, in between.                  *)
AnnounceNow ==
    /\ state = "up"
    /\ wire = <<>>
    /\ Announce("udp")
    /\ UNCHANGED <<phase, state, lasts, due, lost, entry>>

Off ==
    /\ state' = "off"
    /\ lasts' = 0
    /\ due' = 0
    /\ token' = None

(* Shutdown takes back the token of this second.  The server knows it when   *)
(* the last announcement fell into the same TokenSecs.  A tick that is due   *)
(* in the moments before the process exits announces the client once more.   *)
Shutdown ==
    /\ Connected
    /\ Off
    /\ LET offline == IF token = 0 THEN <<Notice("offline", "udp")>> ELSE <<>>
           again == IF due <= 0 THEN {<<>>, <<Notice("online", "udp")>>} ELSE {<<>>}
       IN  \E more \in again : wire' = wire \o offline \o more
    /\ UNCHANGED <<phase, lost, entry>>

(* The connection breaks, or the process dies; the server may or may not     *)
(* tell the friend.                                                          *)
Break ==
    /\ Connected
    /\ Off
    /\ \E told \in {<<>>, <<Notice("offline", "udp")>>} : wire' = wire \o told
    /\ UNCHANGED <<phase, lost, entry>>

-----------------------------------------------------------------------------
(* The friend.                                                               *)

(* append_online_peer and remove_online_peer.                                *)
Receive ==
    /\ wire # <<>>
    /\ entry' = IF Head(wire).kind = "online" THEN [addr |-> Head(wire).addr, age |-> 0]
                                              ELSE None
    /\ lost' = 0
    /\ wire' = Tail(wire)
    /\ UNCHANGED <<phase, state, lasts, due, token>>

Lose ==
    /\ wire # <<>>
    /\ lost < MaxLost
    /\ lost' = lost + 1
    /\ wire' = Tail(wire)
    /\ UNCHANGED <<phase, state, lasts, due, token, entry>>

(* load_online_peers drops what is older than ONLINE_TTL_SECS.               *)
DroppedAtTtl(e) == e.age >= ONLINE_TTL_SECS    \* mutant: `<` for `<=`
NeverDropped(e) == FALSE                       \* mutant: no retain
Dropped(e) == e.age > ONLINE_TTL_SECS

load_online_peers == entry # None /\ ~Dropped(entry)

-----------------------------------------------------------------------------
(* A second passes: no notice and no tick is kept longer than its bound.     *)
Older(e) ==
    IF e = None \/ e.age > ONLINE_TTL_SECS THEN e ELSE [e EXCEPT !.age = @ + 1]

Second ==
    /\ \A i \in DOMAIN wire : wire[i].left > 0
    /\ Connected => due > -Late
    /\ phase' = (phase + 1) % TokenSecs
    /\ lasts' = IF lasts = Long THEN Long ELSE lasts + 1
    /\ due' = IF Connected THEN due - 1 ELSE 0
    /\ token' = IF token = None \/ phase' # 0 \/ token = OldToken THEN token ELSE token + 1
    /\ wire' = [i \in DOMAIN wire |-> [wire[i] EXCEPT !.left = @ - 1]]
    /\ entry' = Older(entry)
    /\ UNCHANGED <<state, lost>>

Next ==
    \/ Handshake \/ PresenceTick \/ AnnounceNow \/ Shutdown \/ Break
    \/ Receive \/ Lose
    \/ Second

Spec == Init /\ [][Next]_vars

-----------------------------------------------------------------------------
(* Properties.                                                               *)

Address == {"observed", "udp"}
Notices == [kind : {"online", "offline"}, addr : Address, left : 0..Delay]

(* Every variable has its type, and no notice is on its way longer than      *)
(* Delay seconds.                                                            *)
TypeOK ==
    /\ phase \in 0..(TokenSecs - 1)
    /\ state \in {"off", "shaken", "up"}
    /\ lasts \in 0..Long
    /\ due \in (-Late)..Period
    /\ token \in 0..OldToken \cup {None}
    /\ wire \in Seq(Notices)
    /\ lost \in 0..MaxLost
    /\ entry \in [addr : Address, age : 0..(ONLINE_TTL_SECS + 1)] \cup {None}

(* A client that stays connected is online for its friend from the first     *)
(* notices on, without a gap: ONLINE_TTL_SECS of load_online_peers outlasts  *)
(* the announcements of presence_refresh_loop although notices are lost and  *)
(* late.                                                                     *)
OnlineWhileConnected == Connected /\ lasts > Prompt => load_online_peers

(* A client that has been off for ONLINE_TTL_SECS is not online for its      *)
(* friend, told so or not: neither a late notice nor the tick that follows   *)
(* the Unannounce of Shutdown keeps the entry of append_online_peer longer.  *)
OfflineAfterTtl == ~Connected /\ lasts > Expired => ~load_online_peers

(* The address the handshake announces is the one of the server connection.  *)
(* It gives way to the UDP address of MY_ADDRESS with the first tick that    *)
(* comes through.                                                            *)
AddressSettles ==
    Connected /\ lasts > Settled /\ load_online_peers => entry.addr = "udp"

(* What a client has last announced is the presence token of these 15        *)
(* seconds or of the 15 before, unless a tick of presence_refresh_loop is    *)
(* late.                                                                     *)
TokenRecent == state = "up" /\ due >= 0 => token \in {0, 1}

-----------------------------------------------------------------------------
(* What makes the properties inductive.                                      *)

(* The notice of the handshake is the second on its way, behind one of an    *)
(* earlier connection.                                                       *)
Behind == Len(wire) >= 2 /\ wire[2].addr = "observed"

Sorted(w) == \A i, j \in DOMAIN w : i < j => w[i].left <= w[j].left

(* Notices arrive in the order they were sent; the ones that are not of this *)
(* connection, or not of a tick, come first.                                 *)
WireInv ==
    /\ Sorted(wire)
    /\ Connected => \A i \in DOMAIN wire :
          /\ i >= 3 => wire[i].addr = "udp"
          /\ wire[i].kind = "online" \/ (i = 1 /\ Behind)

(* With the notices w on their way and the next tick due in d seconds: the   *)
(* seconds until the j-th notice from now has arrived or is lost.  It is on  *)
(* its way, or one of the next ticks will send it.                           *)
Awaited(w, d, j) ==
    IF j <= Len(w) THEN w[j].left ELSE d + Period * (j - 1 - Len(w)) + Prompt

(* Of so many notices, one of this connection arrives.                       *)
Enough == IF Behind THEN MaxLost + 2 ELSE MaxLost - lost + 1

(* The friend learns of a new connection in time, and then again before the  *)
(* entry it has expires.                                                     *)
OnlineInv ==
    Connected =>
        \/ lasts + Awaited(wire, due, Enough) <= Prompt
        \/ ~Behind /\ entry # None /\ entry.age + Awaited(wire, due, Enough) <= ONLINE_TTL_SECS

(* Of so many notices, one of a tick of this connection arrives.             *)
EnoughTicks ==
    IF Behind THEN MaxLost + 3
    ELSE IF wire # <<>> /\ wire[1].addr = "observed" THEN MaxLost + 2
    ELSE MaxLost - lost + 1

AddressInv ==
    Connected =>
        \/ lasts + Awaited(wire, due, EnoughTicks) <= Settled
        \/ /\ entry # None => entry.addr = "udp"
           /\ \A i \in DOMAIN wire : wire[i].addr = "udp"

(* Once the client is off, what is on its way was sent before.               *)
OfflineInv ==
    ~Connected =>
        /\ \A i \in DOMAIN wire : wire[i].left + lasts <= Delay
        /\ entry # None => entry.age + Delay >= lasts

(* The last tick was long enough ago for the token to be as old as it is.    *)
TokenInv ==
    state = "up" =>
        /\ token # None
        /\ token > 0 => Period - due >= TokenSecs * (token - 1) + phase + 1
=============================================================================
