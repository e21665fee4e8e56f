---------------------------- MODULE LossyChannel ----------------------------
(***************************************************************************)
(* What the peer-to-peer session layer promises.  Each session has a       *)
(* stream of texts it sends.  A session that receives anything is bound to *)
(* the stream of one session: it gets texts of that stream only, unaltered,*)
(* in the order they were sent and each at most once; texts may be lost.   *)
(* No two sessions read the same stream.                                   *)
(***************************************************************************)
EXTENDS Naturals, Sequences

CONSTANTS Session, Text

VARIABLES
    sent,   \* sent[s]: the stream of session s
    got     \* got[r]: what session r received, with its origin

Item == [from : Session, pos : Nat, text : Text]

Init ==
    /\ sent = [s \in Session |-> <<>>]
    /\ got = [s \in Session |-> <<>>]

Send(s, text) ==
    /\ sent' = [sent EXCEPT ![s] = Append(@, text)]
    /\ UNCHANGED got

ReadBy(r) == {got[r][i].from : i \in DOMAIN got[r]}

Deliver(r, s, n) ==
    /\ n \in DOMAIN sent[s]
    /\ s # r
    /\ ReadBy(r) \subseteq {s}
    /\ \A q \in Session \ {r} : s \notin ReadBy(q)
    /\ \A i \in DOMAIN got[r] : got[r][i].pos < n
    /\ got' = [got EXCEPT ![r] = Append(@, [from |-> s, pos |-> n, text |-> sent[s][n]])]
    /\ UNCHANGED sent

Next ==
    \/ \E s \in Session, text \in Text : Send(s, text)
    \/ \E r, s \in Session : \E n \in DOMAIN sent[s] : Deliver(r, s, n)

Spec == Init /\ [][Next]_<<sent, got>>
=============================================================================
