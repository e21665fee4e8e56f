--------------------------- MODULE PresenceLookup ----------------------------
(***************************************************************************)
(* A friend looks for a client that is online and announces itself as      *)
(* Presence says.  Each request of drive_retries carries the presence      *)
(* token of its own second (generate_p2p_request), and the server finds    *)
(* the client when it has announced itself under that token.  The requests *)
(* follow the ladder of next_retry_action and bump_backoff, each up to     *)
(* Slip seconds after it is due (the retry tick).                          *)
(***************************************************************************)
EXTENDS Presence

CONSTANTS Slip, MaxAttempts, BackoffCap

VARIABLES
    attempts,    \* requests sent, MaxAttempts + 1 when parked; None: no intent
    backoff,     \* the seconds to wait after the next request
    next,        \* seconds to the next request; negative when it slips
    found        \* a request reached the client

ladder == <<attempts, backoff, next, found>>

LookupInit ==
    /\ Init
    /\ attempts = None /\ backoff = 1 /\ next = 0 /\ found = FALSE

(* Command::Connect arms an intent; one for a peer that is not online waits. *)
Connect ==
    /\ attempts = None
    /\ Connected /\ lasts > Prompt /\ load_online_peers
    /\ attempts' = 0 /\ backoff' = 1 /\ next' = 0
    /\ UNCHANGED <<vars, found>>

(* send_punch_request, the way of RetryAction::Punch.                        *)
Request ==
    /\ attempts # None /\ attempts < MaxAttempts /\ ~found
    /\ next <= 0
    /\ found' = (token = 0)
    /\ attempts' = attempts + 1
    /\ next' = backoff
    /\ backoff' = IF backoff * 2 < BackoffCap THEN backoff * 2 ELSE BackoffCap
    /\ UNCHANGED vars

GiveUp ==
    /\ attempts = MaxAttempts /\ ~found
    /\ attempts' = MaxAttempts + 1
    /\ UNCHANGED <<vars, backoff, next, found>>

Armed == attempts # None /\ attempts < MaxAttempts /\ ~found

(* Time, and the client and its notices; it stays online while it is sought. *)
Goes ==
    /\ Armed => next > -Slip
    /\ \/ Second /\ next' = IF Armed THEN next - 1 ELSE next
       \/ (Handshake \/ PresenceTick \/ Receive \/ Lose) /\ UNCHANGED next
    /\ UNCHANGED <<attempts, backoff, found>>

LookupNext == Connect \/ Request \/ GiveUp \/ Goes

LookupSpec == LookupInit /\ [][LookupNext]_<<vars, ladder>>

(* A friend finds a client that is online the whole time before it gives up: *)
(* one of the requests of drive_retries carries a token under which the      *)
(* client has announced itself.                                              *)
FriendFindsClient == attempts # None /\ attempts > MaxAttempts => found
=============================================================================
