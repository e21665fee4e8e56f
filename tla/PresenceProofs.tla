--------------------------- MODULE PresenceProofs ----------------------------
(***************************************************************************)
(* Theorems about Presence, for any lateness of a tick, any delay of a     *)
(* notice and any number of notices lost in a row.                         *)
(***************************************************************************)
EXTENDS Presence, SequenceTheorems, TLAPS

USE PresenceConstants DEF ONLINE_TTL_SECS, Period, TokenSecs

-----------------------------------------------------------------------------
(* The notices on their way, when one is sent, one arrives, a second passes, *)
(* and when the client goes off.                                             *)
LEMMA Sending ==
    ASSUME NEW w \in Seq(Notices), NEW n \in Notices
    PROVE  /\ Append(w, n) \in Seq(Notices)
           /\ Len(w) \in Nat /\ Len(Append(w, n)) = Len(w) + 1
           /\ \A i \in 1 .. Len(w) : Append(w, n)[i] = w[i]
           /\ Append(w, n)[Len(w) + 1] = n
BY AppendProperties, LenProperties

LEMMA Arriving ==
    ASSUME NEW w \in Seq(Notices), w # <<>>
    PROVE  /\ Tail(w) \in Seq(Notices) /\ Head(w) \in Notices /\ Head(w) = w[1]
           /\ Len(w) \in Nat \ {0} /\ Len(Tail(w)) = Len(w) - 1
           /\ \A i \in 1 .. Len(w) - 1 : Tail(w)[i] = w[i + 1]
<1>1. Len(w) \in Nat \ {0}
  BY EmptySeq, LenProperties
<1> QED  BY <1>1, HeadTailProperties, LenProperties

LEMMA Aging ==
    ASSUME NEW w \in Seq(Notices), \A i \in DOMAIN w : w[i].left > 0,
           NEW v, v = [i \in DOMAIN w |-> [w[i] EXCEPT !.left = @ - 1]]
    PROVE  /\ v \in Seq(Notices) /\ Len(w) \in Nat /\ Len(v) = Len(w)
           /\ \A i \in 1 .. Len(w) :
                 v[i].left = w[i].left - 1 /\ v[i].addr = w[i].addr /\ v[i].kind = w[i].kind
<1>1. Len(w) \in Nat /\ DOMAIN w = 1 .. Len(w) /\ \A i \in 1 .. Len(w) : w[i] \in Notices
  BY LenProperties, ElementOfSeq
<1>2. ASSUME NEW i \in 1 .. Len(w)
      PROVE  /\ v[i] \in Notices
             /\ v[i].left = w[i].left - 1 /\ v[i].addr = w[i].addr /\ v[i].kind = w[i].kind
  <2>1. w[i].left \in 0 .. Delay /\ w[i].left > 0 /\ w[i] \in Notices
    BY <1>1 DEF Notices
  <2>2. v[i] = [w[i] EXCEPT !.left = w[i].left - 1]
    BY <1>1
  <2>3. v[i].left = w[i].left - 1 /\ v[i].addr = w[i].addr /\ v[i].kind = w[i].kind
    BY <2>1, <2>2 DEF Notices
  <2>4. v[i] \in Notices
    <3>1. w[i].left - 1 \in 0 .. Delay
      BY <2>1
    <3> QED  BY <2>1, <2>2, <3>1 DEF Notices
  <2> QED  BY <2>3, <2>4
<1>3. v \in [1 .. Len(w) -> Notices]
  BY <1>1, <1>2
<1>4. v \in Seq(Notices) /\ Len(v) = Len(w)
  BY <1>1, <1>3, SeqDef, LenProperties
<1> QED  BY <1>1, <1>2, <1>4

LEMMA Parting ==
    ASSUME NEW w \in Seq(Notices), NEW s \in Seq({n \in Notices : n.left = Delay})
    PROVE  w \o s \in Seq(Notices) /\ (Sorted(w) => Sorted(w \o s))
<1>1. s \in Seq(Notices) /\ \A i \in 1 .. Len(s) : s[i].left = Delay
  BY LenProperties, ElementOfSeq, SeqDef
<1>2. /\ w \o s \in Seq(Notices) /\ Len(w) \in Nat /\ Len(s) \in Nat
      /\ DOMAIN w = 1 .. Len(w) /\ DOMAIN (w \o s) = 1 .. Len(w) + Len(s)
      /\ \A i \in 1 .. Len(w) + Len(s) :
            (w \o s)[i] = IF i <= Len(w) THEN w[i] ELSE s[i - Len(w)]
  BY <1>1, ConcatProperties, LenProperties
<1>3. \A i \in 1 .. Len(w) : w[i].left \in 0 .. Delay
  <2>1. \A i \in 1 .. Len(w) : w[i] \in Notices
    BY ElementOfSeq
  <2> QED  BY <2>1 DEF Notices
<1>4. ASSUME Sorted(w), NEW i \in 1 .. Len(w) + Len(s), NEW j \in 1 .. Len(w) + Len(s), i < j
      PROVE  (w \o s)[i].left <= (w \o s)[j].left
  <2>1. CASE j <= Len(w)
    BY <1>2, <1>4, <2>1 DEF Sorted
  <2>2. CASE i <= Len(w) /\ j > Len(w)
    <3>1. (w \o s)[i] = w[i] /\ (w \o s)[j] = s[j - Len(w)] /\ j - Len(w) \in 1 .. Len(s)
      BY <1>2, <2>2
    <3> QED  BY <1>1, <1>2, <1>3, <2>2, <3>1
  <2>3. CASE i > Len(w)
    <3>1. /\ (w \o s)[i] = s[i - Len(w)] /\ (w \o s)[j] = s[j - Len(w)]
          /\ i - Len(w) \in 1 .. Len(s) /\ j - Len(w) \in 1 .. Len(s)
      BY <1>2, <1>4, <2>3
    <3> QED  BY <1>1, <3>1
  <2> QED  BY <1>2, <2>1, <2>2, <2>3
<1> QED  BY <1>2, <1>4 DEF Sorted

LEMMA PartingSteps ==
    ASSUME wire \in Seq(Notices), Shutdown \/ Break
    PROVE  \E s \in Seq({n \in Notices : n.left = Delay}) : wire' = wire \o s
<1> DEFINE N == {n \in Notices : n.left = Delay}
           on == Notice("online", "udp")
           off == Notice("offline", "udp")
<1>1. on \in N /\ off \in N
  BY DEF Notice, Notices, Address
<1> HIDE DEF on, off, N
<1>2. <<>> \in Seq(N) /\ <<on>> \in Seq(N) /\ <<off>> \in Seq(N)
  BY <1>1
<1>3. CASE Break
  <2>1. wire' = wire \o <<>> \/ wire' = wire \o <<off>>
    BY <1>3 DEF Break, off
  <2> QED  BY <1>2, <2>1 DEF N
<1>4. CASE Shutdown
  <2>1. PICK a \in {<<>>, <<off>>}, b \in {<<>>, <<on>>} : wire' = (wire \o a) \o b
    BY <1>4 DEF Shutdown, on, off
  <2>2. a \in Seq(N) /\ b \in Seq(N)
    BY <1>2
  <2>3. a \o b \in Seq(N)
    BY <2>2, ConcatProperties
  <2>4. Seq(N) \subseteq Seq(Notices)
    BY SeqDef DEF N
  <2>5. a \in Seq(Notices) /\ b \in Seq(Notices)
    BY <2>2, <2>4
  <2>6. (wire \o a) \o b = wire \o (a \o b)
    BY <2>5, ConcatAssociative
  <2> QED  BY <2>1, <2>3, <2>6 DEF N
<1> QED  BY <1>3, <1>4

(* The wall clock and the entry of PEERS, a second later.                    *)
LEMMA Clock ==
    ASSUME NEW p \in 0 .. 14
    PROVE  (p + 1) % 15 = IF p = 14 THEN 0 ELSE p + 1
<1>1. CASE p = 14
  BY <1>1
<1>2. CASE p < 14
  BY <1>2
<1> QED  BY <1>1, <1>2

LEMMA EntryOlder ==
    ASSUME NEW e \in [addr : Address, age : 0 .. 36] \cup {None}
    PROVE  /\ e = None => Older(e) = None
           /\ e # None => /\ Older(e) \in [addr : Address, age : 0 .. 36]
                          /\ Older(e) # None
                          /\ Older(e).addr = e.addr
                          /\ Older(e).age = IF e.age > 35 THEN e.age ELSE e.age + 1
<1>1. CASE e = None
  BY <1>1 DEF Older
<1>2. CASE e # None
  <2>1. e \in [addr : Address, age : 0 .. 36]
    BY <1>2
  <2>2. e.age \in 0 .. 36 /\ e.addr \in Address
    BY <2>1
  <2>3. CASE e.age > 35
    BY <1>2, <2>1, <2>2, <2>3 DEF Older
  <2>4. CASE e.age <= 35
    <3>1. Older(e) = [e EXCEPT !.age = e.age + 1]
      BY <1>2, <2>2, <2>4 DEF Older
    <3>2. Older(e) \in [addr : Address, age : 0 .. 36]
      BY <2>1, <2>2, <2>4, <3>1
    <3>3. Older(e).addr = e.addr /\ Older(e).age = e.age + 1
      BY <2>1, <3>1
    <3>4. Older(e) # None
      BY <3>2 DEF Address
    <3> QED  BY <1>2, <2>2, <2>4, <3>2, <3>3, <3>4
  <2> QED  BY <2>2, <2>3, <2>4
<1> QED  BY <1>1, <1>2

-----------------------------------------------------------------------------
(* Every variable has its type: no tick of presence_refresh_loop and no      *)
(* notice is kept longer than its bound.                                     *)
THEOREM TypeCorrect == Spec => []TypeOK
<1>1. Init => TypeOK
  <2> SUFFICES ASSUME Init PROVE TypeOK
    OBVIOUS
  <2>1. wire \in Seq(Notices)
    BY DEF Init
  <2> QED  BY <2>1 DEF Init, TypeOK, Long, Connected, Expired, Settled, Prompt, OldToken
<1>2. TypeOK /\ [Next]_vars => TypeOK'
  <2> SUFFICES ASSUME TypeOK, [Next]_vars PROVE TypeOK'
    OBVIOUS
  <2>0. Settled \in Nat /\ Expired \in Nat /\ wire \in Seq(Notices)
    BY DEF Settled, Expired, Prompt, TypeOK
  <2>1. \A k \in {"online", "offline"}, a \in Address : Notice(k, a) \in Notices
    BY DEF Notice, Notices
  <2>2. CASE Handshake \/ PresenceTick \/ AnnounceNow
    <3>1. wire' \in Seq(Notices) /\ token' = 0
      BY <2>0, <2>1, <2>2, AppendProperties
      DEF Handshake, PresenceTick, AnnounceNow, Announce, TokenNow, Address
    <3>2. CASE Handshake
      BY <2>0, <3>1, <3>2 DEF Handshake, TypeOK, Long, Connected, OldToken
    <3>3. CASE PresenceTick
      BY <2>0, <3>1, <3>3 DEF PresenceTick, TypeOK, Long, Connected, OldToken
    <3>4. CASE AnnounceNow
      BY <2>0, <3>1, <3>4 DEF AnnounceNow, TypeOK, Long, Connected, OldToken
    <3> QED  BY <2>2, <3>2, <3>3, <3>4
  <2>3. CASE Shutdown \/ Break
    <3>1. wire' \in Seq(Notices)
      BY <2>0, <2>3, PartingSteps, Parting
    <3>2. /\ state' = "off" /\ lasts' = 0 /\ due' = 0 /\ token' = None
          /\ UNCHANGED <<phase, lost, entry>>
      BY <2>3 DEF Shutdown, Break, Off
    <3> QED  BY <2>0, <3>1, <3>2 DEF TypeOK, Long, Connected
  <2>4. CASE Receive
    <3>1. wire' \in Seq(Notices) /\ Head(wire) \in Notices
      BY <2>0, <2>4, Arriving DEF Receive
    <3>2. entry' \in [addr : Address, age : 0 .. (ONLINE_TTL_SECS + 1)] \cup {None}
      BY <2>4, <3>1 DEF Receive, Notices
    <3> QED  BY <2>4, <3>1, <3>2 DEF Receive, TypeOK, Long, Connected
  <2>5. CASE Lose
    <3>1. wire' \in Seq(Notices)
      BY <2>0, <2>5, Arriving DEF Lose
    <3> QED  BY <2>5, <3>1 DEF Lose, TypeOK, Long, Connected
  <2>6. CASE Second
    <3>1. wire' \in Seq(Notices)
      BY <2>0, <2>6, Aging DEF Second
    <3>2. entry' \in [addr : Address, age : 0 .. (ONLINE_TTL_SECS + 1)] \cup {None}
      BY <2>6, EntryOlder DEF Second, TypeOK
    <3>3. phase' \in 0 .. (TokenSecs - 1)
      <4>1. phase \in 0 .. 14 /\ phase' = (phase + 1) % 15
        BY <2>6 DEF Second, TypeOK
      <4> QED  BY <4>1, Clock
    <3>4. token' \in 0 .. OldToken \cup {None}
      BY <2>6 DEF Second, TypeOK, OldToken
    <3>5. lasts' \in 0 .. Long'
      <4>1. Long' = Long /\ Long \in Nat
        BY <2>0, <2>6 DEF Second, Long, Connected
      <4>2. lasts \in 0 .. Long /\ lasts' = IF lasts = Long THEN Long ELSE lasts + 1
        BY <2>6 DEF Second, TypeOK
      <4> QED  BY <4>1, <4>2
    <3>6. due' \in (-Late) .. Period
      BY <2>6 DEF Second, TypeOK
    <3> QED  BY <2>6, <3>1, <3>2, <3>3, <3>4, <3>5, <3>6 DEF Second, TypeOK
  <2>7. CASE UNCHANGED vars
    BY <2>7 DEF vars, TypeOK, Long, Connected
  <2> QED  BY <2>2, <2>3, <2>4, <2>5, <2>6, <2>7 DEF Next
<1> QED  BY <1>1, <1>2, PTL DEF Spec

(* What a client has last announced is a current presence token or the one   *)
(* before: presence_refresh_loop ticks once in the seconds that share one.   *)
THEOREM TokenIsRecent == Spec => []TokenRecent
<1>1. Init => TokenInv
  BY DEF Init, TokenInv
<1>2. TypeOK /\ TokenInv /\ [Next]_vars => TokenInv'
  <2> SUFFICES ASSUME TypeOK, TokenInv, [Next]_vars PROVE TokenInv'
    OBVIOUS
  <2>1. CASE Handshake \/ PresenceTick \/ AnnounceNow
    BY <2>1
    DEF Handshake, PresenceTick, AnnounceNow, Announce, TokenNow, TokenInv
  <2>2. CASE Shutdown \/ Break
    BY <2>2 DEF Shutdown, Break, Off, TokenInv
  <2>3. CASE Receive \/ Lose
    BY <2>3 DEF Receive, Lose, TokenInv
  <2>4. CASE Second
    <3>1. phase \in 0 .. 14 /\ phase' = IF phase = 14 THEN 0 ELSE phase + 1
      <4>1. phase \in 0 .. 14 /\ phase' = (phase + 1) % 15
        BY <2>4 DEF Second, TypeOK
      <4> QED  BY <4>1, Clock
    <3>2. SUFFICES ASSUME state = "up" PROVE TokenInv'
      BY <2>4 DEF Second, TokenInv
    <3>3. due \in Int /\ due <= Period /\ due' = due - 1 /\ token \in 0 .. 3
      BY <2>4, <3>2 DEF Second, TypeOK, TokenInv, Connected, OldToken
    <3>4. token' = IF phase' # 0 \/ token = 3 THEN token ELSE token + 1
      BY <2>4, <3>3 DEF Second, OldToken
    <3> QED  BY <3>1, <3>2, <3>3, <3>4 DEF TokenInv
  <2>5. CASE UNCHANGED vars
    BY <2>5 DEF vars, TokenInv
  <2> QED  BY <2>1, <2>2, <2>3, <2>4, <2>5 DEF Next
<1>3. TypeOK /\ TokenInv => TokenRecent
  BY DEF TypeOK, TokenInv, TokenRecent, OldToken
<1> QED  BY <1>1, <1>2, <1>3, TypeCorrect, PTL DEF Spec

(* A client that is off is no longer online for its friend ONLINE_TTL_SECS   *)
(* after its last notice, whether an Unannounce arrives or not.              *)
THEOREM OffIsNotOnline == Spec => []OfflineAfterTtl
<1>1. Init => OfflineInv
  BY DEF Init, OfflineInv
<1>2. TypeOK /\ TypeOK' /\ OfflineInv /\ [Next]_vars => OfflineInv'
  <2> SUFFICES ASSUME TypeOK, TypeOK', OfflineInv, [Next]_vars PROVE OfflineInv'
    OBVIOUS
  <2>0. /\ wire \in Seq(Notices) /\ wire' \in Seq(Notices)
        /\ \A i \in DOMAIN wire' : wire'[i].left \in 0 .. Delay
    <3>1. wire \in Seq(Notices) /\ wire' \in Seq(Notices)
      BY DEF TypeOK
    <3>2. \A i \in DOMAIN wire' : wire'[i] \in Notices
      BY <3>1, LenProperties, ElementOfSeq
    <3> QED  BY <3>1, <3>2 DEF Notices
  <2>1. CASE Handshake \/ PresenceTick \/ AnnounceNow
    BY <2>1 DEF Handshake, PresenceTick, AnnounceNow, OfflineInv, Connected
  <2>2. CASE Shutdown \/ Break
    <3>1. lasts' = 0
      BY <2>2 DEF Shutdown, Break, Off
    <3>2. entry' # None => entry'.age \in Nat
      <4>1. entry' \in [addr : Address, age : 0 .. 36] \cup {None}
        BY DEF TypeOK
      <4> QED  BY <4>1
    <3> QED  BY <2>0, <3>1, <3>2 DEF OfflineInv
  <2>3. CASE Receive \/ Lose
    <3>1. wire # <<>> /\ wire' = Tail(wire) /\ UNCHANGED <<state, lasts>>
      BY <2>3 DEF Receive, Lose
    <3>2. /\ DOMAIN wire = 1 .. Len(wire) /\ DOMAIN wire' = 1 .. Len(wire) - 1
          /\ Len(wire) \in Nat \ {0} /\ wire[1].left \in 0 .. Delay
          /\ \A i \in 1 .. Len(wire) - 1 : wire'[i] = wire[i + 1]
      BY <2>0, <3>1, Arriving, LenProperties DEF Notices
    <3>3. CASE Receive
      BY <3>1, <3>2, <3>3 DEF Receive, OfflineInv, Connected, TypeOK
    <3>4. CASE Lose
      BY <3>1, <3>2, <3>4 DEF Lose, OfflineInv, Connected
    <3> QED  BY <2>3, <3>3, <3>4
  <2>4. CASE Second
    <3> SUFFICES ASSUME ~Connected PROVE OfflineInv'
      BY <2>4 DEF Second, OfflineInv, Connected
    <3>1. /\ DOMAIN wire = 1 .. Len(wire) /\ DOMAIN wire' = 1 .. Len(wire)
          /\ \A i \in 1 .. Len(wire) : wire'[i].left = wire[i].left - 1
      BY <2>0, <2>4, Aging, LenProperties DEF Second
    <3>2. lasts \in Nat /\ lasts' \in Nat /\ lasts' <= lasts + 1 /\ lasts' <= 36 + Delay
      BY <2>4 DEF Second, Long, Expired, TypeOK
    <3>3. ASSUME NEW i \in DOMAIN wire' PROVE wire'[i].left + lasts' <= Delay
      <4>1. wire[i].left + lasts <= Delay /\ wire[i].left - 1 = wire'[i].left
        BY <3>1, <3>3 DEF OfflineInv
      <4>2. wire[i].left \in Int
        <5>1. wire[i] \in Notices
          BY <2>0, <3>1, <3>3, ElementOfSeq
        <5> QED  BY <5>1 DEF Notices
      <4> QED  BY <3>2, <4>1, <4>2
    <3>4. entry' # None => entry'.age + Delay >= lasts'
      <4>1. entry \in [addr : Address, age : 0 .. 36] \cup {None} /\ entry' = Older(entry)
        BY <2>4 DEF Second, TypeOK
      <4>2. CASE entry = None
        BY <4>1, <4>2, EntryOlder
      <4>3. CASE entry # None
        <5>1. entry.age \in 0 .. 36 /\ entry.age + Delay >= lasts
          BY <4>1, <4>3 DEF OfflineInv
        <5>2. entry'.age = IF entry.age > 35 THEN entry.age ELSE entry.age + 1
          BY <4>1, <4>3, EntryOlder
        <5> QED  BY <3>2, <5>1, <5>2
      <4> QED  BY <4>2, <4>3
    <3> QED  BY <3>3, <3>4 DEF OfflineInv
  <2>5. CASE UNCHANGED vars
    BY <2>5 DEF vars, OfflineInv, Connected
  <2> QED  BY <2>1, <2>2, <2>3, <2>4, <2>5 DEF Next
<1>3. TypeOK /\ OfflineInv => OfflineAfterTtl
  <2> SUFFICES ASSUME TypeOK, OfflineInv, ~Connected, lasts > Expired, entry # None
               PROVE  Dropped(entry)
    BY DEF OfflineAfterTtl, load_online_peers
  <2>1. lasts \in Int /\ lasts > 35 + Delay
    BY DEF TypeOK, Expired
  <2>2. entry.age \in Int /\ entry.age + Delay >= lasts
    <3>1. entry \in [addr : Address, age : 0 .. 36] \cup {None}
      BY DEF TypeOK
    <3> QED  BY <3>1 DEF OfflineInv
  <2> QED  BY <2>1, <2>2 DEF Dropped
<1> QED  BY <1>1, <1>2, <1>3, TypeCorrect, PTL DEF Spec

-----------------------------------------------------------------------------
(* How long the j-th notice from now is awaited: not longer than a later     *)
(* one; a notice fewer when one arrives or is lost; a second less when one   *)
(* passes; and no longer when a tick is on time or AnnounceNow adds one.     *)
LEMMA AwaitedType ==
    ASSUME NEW w \in Seq(Notices), NEW d \in (-Late) .. Period, NEW j \in Nat \ {0}
    PROVE  Awaited(w, d, j) \in Nat
<1>1. Len(w) \in Nat /\ \A i \in 1 .. Len(w) : w[i] \in Notices
  BY LenProperties, ElementOfSeq
<1>2. \A i \in 1 .. Len(w) : w[i].left \in 0 .. Delay
  BY <1>1 DEF Notices
<1> QED  BY <1>1, <1>2 DEF Awaited, Prompt

LEMMA AwaitedLater ==
    ASSUME NEW w \in Seq(Notices), Sorted(w), NEW d \in (-Late) .. Period,
           NEW j \in Nat \ {0}, NEW k \in Nat, j <= k
    PROVE  Awaited(w, d, j) <= Awaited(w, d, k)
<1>1. Len(w) \in Nat /\ DOMAIN w = 1 .. Len(w) /\ \A i \in 1 .. Len(w) : w[i] \in Notices
  BY LenProperties, ElementOfSeq
<1>2. \A i \in 1 .. Len(w) : w[i].left \in 0 .. Delay
  BY <1>1 DEF Notices
<1>3. CASE k <= Len(w)
  <2>1. w[j].left <= w[k].left
    BY <1>1, <1>2, <1>3 DEF Sorted
  <2> QED  BY <1>1, <1>3, <2>1 DEF Awaited
<1>4. CASE j <= Len(w) /\ k > Len(w)
  BY <1>1, <1>2, <1>4 DEF Awaited, Prompt
<1>5. CASE j > Len(w)
  BY <1>1, <1>5 DEF Awaited, Prompt
<1> QED  BY <1>1, <1>3, <1>4, <1>5

LEMMA AwaitedTail ==
    ASSUME NEW w \in Seq(Notices), w # <<>>, NEW d \in Int, NEW j \in Nat \ {0}
    PROVE  Awaited(Tail(w), d, j) = Awaited(w, d, j + 1)
BY Arriving DEF Awaited, Prompt

LEMMA AwaitedAging ==
    ASSUME NEW w \in Seq(Notices), NEW v, Len(v) = Len(w),
           \A i \in 1 .. Len(w) : v[i].left = w[i].left - 1,
           NEW d \in Int, NEW j \in Nat \ {0}
    PROVE  Awaited(v, d - 1, j) = Awaited(w, d, j) - 1
<1>1. Len(w) \in Nat
  BY LenProperties
<1> QED  BY <1>1 DEF Awaited, Prompt

LEMMA AwaitedSent ==
    ASSUME NEW w \in Seq(Notices), NEW n \in Notices, n.left = Delay,
           NEW d \in (-Late) .. Period, NEW e \in Int, e <= d + Period,
           NEW j \in Nat \ {0}
    PROVE  Awaited(Append(w, n), e, j) <= Awaited(w, d, j)
<1>1. /\ Len(w) \in Nat /\ Len(Append(w, n)) = Len(w) + 1
      /\ \A i \in 1 .. Len(w) : Append(w, n)[i] = w[i] /\ w[i] \in Notices
      /\ Append(w, n)[Len(w) + 1] = n
  BY Sending, ElementOfSeq
<1>2. \A i \in 1 .. Len(w) : w[i].left \in 0 .. Delay
  BY <1>1 DEF Notices
<1>3. CASE j <= Len(w)
  BY <1>1, <1>2, <1>3 DEF Awaited
<1>4. CASE j = Len(w) + 1
  BY <1>1, <1>4 DEF Awaited, Prompt
<1>5. CASE j > Len(w) + 1
  BY <1>1, <1>5 DEF Awaited, Prompt
<1> QED  BY <1>1, <1>3, <1>4, <1>5

LEMMA AwaitedAtMost ==
    ASSUME NEW w \in Seq(Notices), NEW d \in (-Late) .. Period, NEW j \in Nat \ {0}
    PROVE  Awaited(w, d, j) <= Period * j + Prompt
<1>1. Len(w) \in Nat /\ \A i \in 1 .. Len(w) : w[i] \in Notices
  BY LenProperties, ElementOfSeq
<1>2. \A i \in 1 .. Len(w) : w[i].left \in 0 .. Delay
  BY <1>1 DEF Notices
<1> QED  BY <1>1, <1>2 DEF Awaited, Prompt

-----------------------------------------------------------------------------
(* Notices arrive in the order they were sent, and of those on their way     *)
(* while the client is connected at most the first is not of this connection *)
(* and at most the first two are not of a tick of presence_refresh_loop.     *)
LEMMA SortedSent ==
    ASSUME NEW w \in Seq(Notices), Sorted(w), NEW n \in Notices, n.left = Delay
    PROVE  Sorted(Append(w, n))
<1>1. /\ Len(w) \in Nat /\ DOMAIN w = 1 .. Len(w)
      /\ DOMAIN Append(w, n) = 1 .. Len(w) + 1
      /\ \A i \in 1 .. Len(w) : Append(w, n)[i] = w[i] /\ w[i] \in Notices
      /\ Append(w, n)[Len(w) + 1] = n
  BY Sending, ElementOfSeq, LenProperties
<1>2. \A i \in 1 .. Len(w) : w[i].left \in 0 .. Delay
  BY <1>1 DEF Notices
<1> SUFFICES ASSUME NEW i \in 1 .. Len(w) + 1, NEW j \in 1 .. Len(w) + 1, i < j
             PROVE  Append(w, n)[i].left <= Append(w, n)[j].left
  BY <1>1 DEF Sorted
<1>3. CASE j <= Len(w)
  BY <1>1, <1>3 DEF Sorted
<1>4. CASE j = Len(w) + 1
  BY <1>1, <1>2, <1>4
<1> QED  BY <1>1, <1>3, <1>4

(* A step of the friend, of the clock, and of the client's ticks.            *)
LEMMA OneFewer ==
    ASSUME TypeOK, WireInv, Receive \/ Lose
    PROVE  /\ WireInv'
           /\ Connected =>
                 /\ ~Behind'
                 /\ Behind => wire' # <<>> /\ wire'[1].addr = "observed"
                 /\ ~Behind => wire' = <<>> \/ wire'[1].addr = "udp"
                 /\ ~Behind => Head(wire).kind = "online"
<1>1. wire \in Seq(Notices) /\ wire # <<>> /\ wire' = Tail(wire) /\ Connected' = Connected
  BY DEF TypeOK, Receive, Lose, Connected
<1>2. /\ Len(wire) \in Nat \ {0} /\ Len(wire') = Len(wire) - 1
      /\ DOMAIN wire = 1 .. Len(wire) /\ DOMAIN wire' = 1 .. Len(wire) - 1
      /\ \A i \in 1 .. Len(wire) - 1 : wire'[i] = wire[i + 1]
      /\ \A i \in 1 .. Len(wire) : wire[i] \in Notices
      /\ Head(wire) = wire[1] /\ wire' \in Seq(Notices)
  BY <1>1, Arriving, LenProperties, ElementOfSeq
<1>3. \A i \in 1 .. Len(wire) : wire[i].addr \in {"observed", "udp"}
  BY <1>2 DEF Notices, Address
<1>4. Sorted(wire')
  <2> SUFFICES ASSUME NEW i \in 1 .. Len(wire) - 1, NEW j \in 1 .. Len(wire) - 1, i < j
               PROVE  wire'[i].left <= wire'[j].left
    BY <1>2 DEF Sorted
  <2>1. i + 1 \in DOMAIN wire /\ j + 1 \in DOMAIN wire /\ i + 1 < j + 1
    BY <1>2
  <2> QED  BY <1>2, <2>1 DEF WireInv, Sorted
<1>5. ASSUME Connected
      PROVE  /\ \A i \in 1 .. Len(wire) - 1 :
                    /\ i >= 2 => wire'[i].addr = "udp"
                    /\ wire'[i].kind = "online"
             /\ ~Behind => Head(wire).kind = "online"
  <2>1. ASSUME NEW i \in 1 .. Len(wire) - 1
        PROVE  (i >= 2 => wire'[i].addr = "udp") /\ wire'[i].kind = "online"
    <3>1. i + 1 \in DOMAIN wire /\ i + 1 # 1 /\ wire'[i] = wire[i + 1]
      BY <1>2
    <3> QED  BY <1>5, <3>1 DEF WireInv
  <2>2. 1 \in DOMAIN wire
    BY <1>2
  <2> QED  BY <1>2, <1>5, <2>1, <2>2 DEF WireInv
<1>6. WireInv'
  BY <1>1, <1>2, <1>4, <1>5 DEF WireInv
<1>7. ASSUME Connected
      PROVE  /\ ~Behind'
             /\ Behind => wire' # <<>> /\ wire'[1].addr = "observed"
             /\ ~Behind => wire' = <<>> \/ wire'[1].addr = "udp"
  <2>1. ~Behind'
    BY <1>2, <1>5, <1>7 DEF Behind
  <2>2. Behind => wire' # <<>> /\ wire'[1].addr = "observed"
    BY <1>2 DEF Behind
  <2>3. ~Behind => wire' = <<>> \/ wire'[1].addr = "udp"
    <3>1. CASE Len(wire) = 1
      BY <1>2, <3>1, EmptySeq
    <3>2. CASE Len(wire) >= 2
      BY <1>2, <1>3, <3>2 DEF Behind
    <3> QED  BY <1>2, <3>1, <3>2
  <2> QED  BY <2>1, <2>2, <2>3
<1> QED  BY <1>5, <1>6, <1>7

LEMMA SecondLater ==
    ASSUME TypeOK, WireInv, Second
    PROVE  /\ WireInv' /\ Behind' = Behind /\ Enough' = Enough /\ EnoughTicks' = EnoughTicks
           /\ Connected => \A j \in Nat \ {0} :
                 Awaited(wire', due', j) = Awaited(wire, due, j) - 1
           /\ DOMAIN wire' = DOMAIN wire
           /\ \A i \in DOMAIN wire : wire'[i].addr = wire[i].addr
<1>1. wire \in Seq(Notices) /\ Connected' = Connected /\ lost' = lost
  BY DEF TypeOK, Second, Connected
<1>2. /\ Len(wire) \in Nat /\ Len(wire') = Len(wire)
      /\ DOMAIN wire = 1 .. Len(wire) /\ DOMAIN wire' = 1 .. Len(wire)
      /\ \A i \in 1 .. Len(wire) : /\ wire'[i].left = wire[i].left - 1
                                  /\ wire'[i].addr = wire[i].addr
                                  /\ wire'[i].kind = wire[i].kind
                                  /\ wire[i] \in Notices
      /\ wire' = <<>> <=> wire = <<>>
  BY <1>1, Aging, LenProperties, ElementOfSeq, EmptySeq DEF Second
<1>3. Sorted(wire')
  <2>1. \A i \in 1 .. Len(wire) : wire[i].left \in Int
    BY <1>2 DEF Notices
  <2> QED  BY <1>2, <2>1 DEF WireInv, Sorted
<1>4. Behind' = Behind
  BY <1>2 DEF Behind
<1>5. WireInv'
  BY <1>1, <1>2, <1>3, <1>4 DEF WireInv
<1>6. (wire # <<>> /\ wire[1].addr = "observed")' = (wire # <<>> /\ wire[1].addr = "observed")
  <2>1. CASE wire = <<>>
    BY <1>2, <2>1
  <2>2. CASE wire # <<>>
    <3>1. 1 \in 1 .. Len(wire)
      BY <1>1, <1>2, <2>2, EmptySeq
    <3> QED  BY <1>2, <3>1
  <2> QED  BY <2>1, <2>2
<1>7. ASSUME Connected, NEW j \in Nat \ {0}
      PROVE  Awaited(wire', due', j) = Awaited(wire, due, j) - 1
  <2>1. due' = due - 1 /\ due \in Int
    BY <1>7 DEF Second, TypeOK
  <2>2. Awaited(wire', due - 1, j) = Awaited(wire, due, j) - 1
    BY <1>1, <1>2, <2>1, AwaitedAging
  <2> QED  BY <2>1, <2>2
<1> QED  BY <1>1, <1>2, <1>4, <1>5, <1>6, <1>7 DEF Enough, EnoughTicks

LEMMA TickSent ==
    ASSUME TypeOK, WireInv, PresenceTick \/ AnnounceNow
    PROVE  /\ WireInv' /\ Behind' = Behind /\ Enough' = Enough /\ EnoughTicks' = EnoughTicks
           /\ \A j \in Nat \ {0} : Awaited(wire', due', j) <= Awaited(wire, due, j)
           /\ \A i \in DOMAIN wire' : \/ i \in DOMAIN wire /\ wire'[i] = wire[i]
                                      \/ wire'[i].addr = "udp"
<1> DEFINE n == Notice("online", "udp")
<1>1. /\ wire \in Seq(Notices) /\ Connected /\ Connected' /\ lost' = lost
      /\ wire' = Append(wire, n)
      /\ due \in (-Late) .. Period /\ due' \in Int /\ due' <= due + Period
  BY DEF TypeOK, PresenceTick, AnnounceNow, Announce, Connected
<1>2. n \in Notices /\ n.left = Delay /\ n.addr = "udp" /\ n.kind = "online"
  BY DEF Notice, Notices, Address
<1> HIDE DEF n
<1>3. /\ Len(wire) \in Nat /\ Len(wire') = Len(wire) + 1
      /\ DOMAIN wire = 1 .. Len(wire) /\ DOMAIN wire' = 1 .. Len(wire) + 1
      /\ \A i \in 1 .. Len(wire) : wire'[i] = wire[i]
      /\ wire'[Len(wire) + 1] = n
  BY <1>1, <1>2, Sending, LenProperties
<1>4. Sorted(wire')
  BY <1>1, <1>2, SortedSent DEF WireInv
<1>5. Behind' = Behind
  BY <1>2, <1>3 DEF Behind
<1>6. ASSUME NEW i \in 1 .. Len(wire) + 1
      PROVE  /\ i >= 3 => wire'[i].addr = "udp"
             /\ wire'[i].kind = "online" \/ (i = 1 /\ Behind')
  <2>1. CASE i <= Len(wire)
    BY <1>1, <1>3, <1>5, <2>1 DEF WireInv
  <2>2. CASE i = Len(wire) + 1
    BY <1>2, <1>3, <2>2
  <2> QED  BY <1>3, <2>1, <2>2
<1>7. WireInv'
  BY <1>3, <1>4, <1>6 DEF WireInv
<1>8. (wire # <<>> /\ wire[1].addr = "observed")' = (wire # <<>> /\ wire[1].addr = "observed")
  <2>1. CASE wire = <<>>
    <3>1. Len(wire) = 0
      BY <2>1
    <3> QED  BY <1>2, <1>3, <2>1, <3>1
  <2>2. CASE wire # <<>>
    <3>1. Len(wire) >= 1
      BY <1>1, <1>3, <2>2, EmptySeq
    <3>2. wire'[1] = wire[1] /\ wire' # <<>>
      BY <1>3, <3>1
    <3> QED  BY <2>2, <3>2
  <2> QED  BY <2>1, <2>2
<1>9. \A j \in Nat \ {0} : Awaited(wire', due', j) <= Awaited(wire, due, j)
  BY <1>1, <1>2, AwaitedSent
<1>10. \A i \in DOMAIN wire' : (i \in DOMAIN wire /\ wire'[i] = wire[i]) \/ wire'[i].addr = "udp"
  BY <1>2, <1>3
<1> QED  BY <1>1, <1>5, <1>7, <1>8, <1>9, <1>10 DEF Enough, EnoughTicks

LEMMA HandshakeSent ==
    ASSUME TypeOK, WireInv, Handshake
    PROVE  /\ WireInv'
           /\ \/ Len(wire') = 1 /\ ~Behind' /\ wire' # <<>> /\ wire'[1].addr = "observed"
              \/ Len(wire') = 2 /\ Behind'
           /\ wire'[Len(wire')].left = Delay
<1> DEFINE n == Notice("online", "observed")
<1>1. wire \in Seq(Notices) /\ Len(wire) <= 1 /\ Connected' /\ wire' = Append(wire, n)
  BY DEF TypeOK, Handshake, Announce, Connected
<1>2. n \in Notices /\ n.left = Delay /\ n.addr = "observed" /\ n.kind = "online"
  BY DEF Notice, Notices, Address
<1> HIDE DEF n
<1>3. /\ Len(wire) \in {0, 1} /\ Len(wire') = Len(wire) + 1
      /\ DOMAIN wire' = 1 .. Len(wire) + 1 /\ wire'[Len(wire) + 1] = n
  <2>1. /\ Len(wire) \in Nat /\ Len(wire') = Len(wire) + 1
        /\ wire' \in Seq(Notices) /\ wire'[Len(wire) + 1] = n
    BY <1>1, <1>2, Sending
  <2>2. DOMAIN wire' = 1 .. Len(wire')
    BY <2>1, LenProperties
  <2>3. \A l \in Nat : l <= 1 => l \in {0, 1}
    OBVIOUS
  <2> QED  BY ONLY <1>1, <2>1, <2>2, <2>3
<1>4. Sorted(wire')
  BY <1>1, <1>2, SortedSent DEF WireInv
<1>5. CASE Len(wire) = 0
  <2>1. Len(wire') = 1 /\ DOMAIN wire' = {1} /\ wire'[1] = n
    BY <1>3, <1>5
  <2>2. wire' # <<>>
    BY <2>1
  <2> QED  BY <1>2, <1>4, <2>1, <2>2 DEF WireInv, Behind
<1>6. CASE Len(wire) = 1
  <2>1. Len(wire') = 2 /\ DOMAIN wire' = {1, 2} /\ wire'[2] = n
    BY <1>3, <1>6
  <2>2. Behind'
    BY <1>2, <2>1 DEF Behind
  <2> QED  BY <1>2, <1>4, <2>1, <2>2 DEF WireInv
<1> QED  BY <1>3, <1>5, <1>6

(* The order of the notices, which append_online_peer relies on, is kept by  *)
(* every step.                                                               *)
THEOREM WireOrder == Spec => []WireInv
<1>1. Init => WireInv
  BY DEF Init, WireInv, Sorted, Connected
<1>2. TypeOK /\ WireInv /\ [Next]_vars => WireInv'
  <2> SUFFICES ASSUME TypeOK, WireInv, [Next]_vars PROVE WireInv'
    OBVIOUS
  <2>1. CASE Handshake
    BY <2>1, HandshakeSent
  <2>2. CASE PresenceTick \/ AnnounceNow
    BY <2>2, TickSent
  <2>3. CASE Shutdown \/ Break
    <3>1. Sorted(wire')
      BY <2>3, PartingSteps, Parting DEF TypeOK, WireInv
    <3>2. ~Connected'
      BY <2>3 DEF Shutdown, Break, Off, Connected
    <3> QED  BY <3>1, <3>2 DEF WireInv
  <2>4. CASE Receive \/ Lose
    BY <2>4, OneFewer
  <2>5. CASE Second
    BY <2>5, SecondLater
  <2>6. CASE UNCHANGED vars
    BY <2>6 DEF vars, WireInv, Sorted, Connected, Behind
  <2> QED  BY <2>1, <2>2, <2>3, <2>4, <2>5, <2>6 DEF Next
<1> QED  BY <1>1, <1>2, TypeCorrect, PTL DEF Spec

-----------------------------------------------------------------------------
(* A connected client stays online for its friend, if ONLINE_TTL_SECS leaves *)
(* room for one interval of presence_refresh_loop more than notices are lost *)
(* in a row, and for what a tick and a notice may be late.                   *)
THEOREM StaysOnline ==
    ASSUME (MaxLost + 1) * Period + Late + Delay <= ONLINE_TTL_SECS
    PROVE  Spec => []OnlineWhileConnected
<1>0. 15 * MaxLost + 15 + Prompt <= 35 /\ MaxLost \in {0, 1} /\ Prompt \in Nat
  BY DEF Prompt
<1>1. Init => OnlineInv
  BY DEF Init, OnlineInv, Connected
<1>2. TypeOK /\ TypeOK' /\ WireInv /\ OnlineInv /\ [Next]_vars => OnlineInv'
  <2> SUFFICES ASSUME TypeOK, TypeOK', WireInv, OnlineInv, [Next]_vars PROVE OnlineInv'
    OBVIOUS
  <2>0. /\ wire \in Seq(Notices) /\ Sorted(wire)
        /\ due \in (-Late) .. Period /\ due \in Int
        /\ lost \in 0 .. MaxLost /\ Enough \in Nat \ {0}
        /\ lasts \in Nat
    BY DEF TypeOK, WireInv, Enough
  <2>1. Awaited(wire, due, Enough) \in Nat
    BY <2>0, AwaitedType
  <2>9. entry # None => entry.age \in Nat
    <3>1. entry \in [addr : Address, age : 0 .. 36] \cup {None}
      BY DEF TypeOK
    <3> QED  BY <3>1
  <2>2. CASE Handshake
    <3>1. due' = 0 /\ lasts' = 0 /\ lost' = lost
      BY <2>2 DEF Handshake
    <3>2. CASE Len(wire') = 1 /\ ~Behind' /\ wire'[1].left = Delay
      <4>1. Enough' = MaxLost - lost + 1
        BY <3>1, <3>2 DEF Enough
      <4> QED  BY <1>0, <2>0, <3>1, <3>2, <4>1 DEF OnlineInv, Awaited, Prompt
    <3>3. CASE Len(wire') = 2 /\ Behind' /\ wire'[2].left = Delay
      <4>1. Enough' = MaxLost + 2
        BY <3>3 DEF Enough
      <4> QED  BY <1>0, <3>1, <3>3, <4>1 DEF OnlineInv, Awaited, Prompt
    <3> QED  BY <2>2, <3>2, <3>3, HandshakeSent
  <2>3. CASE PresenceTick \/ AnnounceNow
    <3>1. Awaited(wire', due', Enough') <= Awaited(wire, due, Enough) /\ Behind' = Behind
      BY <2>0, <2>3, TickSent
    <3>2. Connected /\ lasts' = lasts /\ entry' = entry
      BY <2>3 DEF PresenceTick, AnnounceNow, Connected
    <3>3. Awaited(wire', due', Enough') \in Nat
      <4>1. wire' \in Seq(Notices) /\ due' \in (-Late) .. Period /\ Enough' \in Nat \ {0}
        BY <2>0, <2>3, TickSent DEF TypeOK
      <4> QED  BY <4>1, AwaitedType
    <3>4. CASE lasts + Awaited(wire, due, Enough) <= Prompt
      BY <1>0, <2>0, <2>1, <3>1, <3>2, <3>3, <3>4 DEF OnlineInv
    <3>5. CASE ~Behind /\ entry # None /\ entry.age + Awaited(wire, due, Enough) <= 35
      BY <2>1, <2>9, <3>1, <3>2, <3>3, <3>5 DEF OnlineInv
    <3> QED  BY <3>2, <3>4, <3>5 DEF OnlineInv
  <2>4. CASE Shutdown \/ Break
    BY <2>4 DEF Shutdown, Break, Off, OnlineInv, Connected
  <2>5. CASE Receive \/ Lose
    <3> SUFFICES ASSUME Connected PROVE OnlineInv'
      BY <2>5 DEF Receive, Lose, OnlineInv, Connected
    <3>1. wire # <<>> /\ wire' = Tail(wire) /\ due' = due /\ lasts' = lasts /\ Tail(wire) \in Seq(Notices)
      BY <2>0, <2>5, Arriving DEF Receive, Lose
    <3>2. ~Behind' /\ Enough' = MaxLost - lost' + 1
      BY <2>5, OneFewer DEF Enough
    <3>3. \A j \in Nat \ {0} : Awaited(wire', due', j) = Awaited(wire, due, j + 1)
      BY <2>0, <3>1, AwaitedTail
    <3>4. CASE Receive
      <4>1. Enough' = MaxLost + 1
        BY <3>2, <3>4 DEF Receive
      <4>2. CASE Behind
        <5>1. Awaited(wire', due', Enough') = Awaited(wire, due, Enough)
          BY <3>3, <4>1, <4>2 DEF Enough
        <5> QED  BY <3>1, <4>2, <5>1 DEF OnlineInv
      <4>3. CASE ~Behind
        <5>1. entry' = [addr |-> Head(wire).addr, age |-> 0]
          BY <2>5, <3>4, <4>3, OneFewer DEF Receive
        <5>2. entry' # None /\ entry'.age = 0
          <6>1. Head(wire).addr \in {"observed", "udp"}
            BY <2>0, <3>1, Arriving DEF Notices, Address
          <6> QED  BY <5>1, <6>1
        <5>3. Awaited(wire', due', Enough') <= 15 * (MaxLost + 1) + Prompt
          <6>1. MaxLost + 1 \in Nat \ {0}
            OBVIOUS
          <6> QED  BY <2>0, <3>1, <4>1, <6>1, AwaitedAtMost
        <5>4. Awaited(wire', due', Enough') \in Nat
          <6>1. MaxLost + 1 \in Nat \ {0}
            OBVIOUS
          <6> QED  BY <2>0, <3>1, <4>1, <6>1, AwaitedType
        <5> QED  BY <1>0, <3>2, <5>2, <5>3, <5>4 DEF OnlineInv
      <4> QED  BY <4>2, <4>3
    <3>5. CASE Lose
      <4>1. lost < MaxLost /\ Enough' = MaxLost - lost /\ entry' = entry
        <5>1. lost < MaxLost /\ lost' = lost + 1 /\ entry' = entry
          BY <3>5 DEF Lose
        <5>2. MaxLost - (lost + 1) + 1 = MaxLost - lost
          BY <2>0
        <5> QED  BY <3>2, <5>1, <5>2
      <4>2. MaxLost - lost \in Nat \ {0} /\ MaxLost - lost + 1 <= Enough
        BY <2>0, <4>1 DEF Enough
      <4>3. Awaited(wire', due', Enough') = Awaited(wire, due, MaxLost - lost + 1)
        BY <3>3, <4>1, <4>2
      <4>4. Awaited(wire, due, MaxLost - lost + 1) <= Awaited(wire, due, Enough)
        <5>1. MaxLost - lost + 1 \in Nat \ {0} /\ Enough \in Nat
          BY <2>0, <4>2
        <5> QED  BY ONLY <2>0, <4>2, <5>1, AwaitedLater
      <4>5. Awaited(wire, due, MaxLost - lost + 1) \in Nat
        <5>1. MaxLost - lost + 1 \in Nat \ {0}
          BY <2>0, <4>2
        <5> QED  BY <2>0, <5>1, AwaitedType
      <4>6. CASE lasts + Awaited(wire, due, Enough) <= Prompt
        BY <1>0, <2>0, <2>1, <3>1, <4>3, <4>4, <4>5, <4>6 DEF OnlineInv
      <4>7. CASE ~Behind /\ entry # None /\ entry.age + Awaited(wire, due, Enough) <= 35
        BY <2>1, <2>9, <3>2, <4>1, <4>3, <4>4, <4>5, <4>7 DEF OnlineInv
      <4> QED  BY <4>6, <4>7 DEF OnlineInv
    <3> QED  BY <2>5, <3>4, <3>5
  <2>6. CASE Second
    <3> SUFFICES ASSUME Connected PROVE OnlineInv'
      BY <2>6 DEF Second, OnlineInv, Connected
    <3>1. Awaited(wire', due', Enough') = Awaited(wire, due, Enough) - 1 /\ Behind' = Behind
      BY <2>0, <2>6, SecondLater
    <3>2. lasts' \in Nat /\ lasts' <= lasts + 1
      <4>1. lasts' = lasts \/ lasts' = lasts + 1
        BY <2>6 DEF Second
      <4> QED  BY <2>0, <4>1
    <3>3. entry # None => entry' # None /\ entry'.age \in Nat /\ entry'.age <= entry.age + 1
      <4>1. entry \in [addr : Address, age : 0 .. 36] \cup {None} /\ entry' = Older(entry)
        BY <2>6 DEF Second, TypeOK
      <4> QED  BY <2>9, <4>1, EntryOlder
    <3>4. CASE lasts + Awaited(wire, due, Enough) <= Prompt
      BY <1>0, <2>0, <2>1, <3>1, <3>2, <3>4 DEF OnlineInv
    <3>5. CASE ~Behind /\ entry # None /\ entry.age + Awaited(wire, due, Enough) <= 35
      BY <2>1, <2>9, <3>1, <3>3, <3>5 DEF OnlineInv
    <3> QED  BY <3>4, <3>5 DEF OnlineInv
  <2>7. CASE UNCHANGED vars
    BY <2>7 DEF vars, OnlineInv, Connected, Enough, Behind
  <2> QED  BY <2>2, <2>3, <2>4, <2>5, <2>6, <2>7 DEF Next
<1>3. TypeOK /\ OnlineInv => OnlineWhileConnected
  <2> SUFFICES ASSUME TypeOK, OnlineInv, Connected, lasts > Prompt
               PROVE  entry # None /\ ~Dropped(entry)
    BY DEF OnlineWhileConnected, load_online_peers
  <2>1. /\ wire \in Seq(Notices) /\ due \in (-Late) .. Period
        /\ lost \in 0 .. MaxLost /\ lasts \in Nat
    BY DEF TypeOK
  <2>2. Awaited(wire, due, Enough) \in Nat
    <3>1. Enough \in Nat \ {0}
      BY <2>1 DEF Enough
    <3> QED  BY <2>1, <3>1, AwaitedType
  <2>3. entry # None /\ entry.age + Awaited(wire, due, Enough) <= 35
    <3>1. ~(lasts + Awaited(wire, due, Enough) <= Prompt)
      BY <1>0, <2>1, <2>2
    <3> QED  BY <3>1 DEF OnlineInv
  <2>4. entry \in [addr : Address, age : 0 .. 36] \cup {None}
    BY DEF TypeOK
  <2>5. entry.age \in Int
    BY <2>3, <2>4
  <2> QED  BY <2>2, <2>3, <2>5 DEF Dropped
<1> QED  BY <1>1, <1>2, <1>3, TypeCorrect, WireOrder, PTL DEF Spec

(* The UDP address of MY_ADDRESS takes the place of the address that the     *)
(* handshake announced, with the first tick that comes through.              *)
THEOREM AddressGivesWay == Spec => []AddressSettles
<1>0. Prompt \in Nat /\ Settled \in Nat /\ Settled = 15 * MaxLost + Prompt
  BY DEF Prompt, Settled
<1>1. Init => AddressInv
  BY DEF Init, AddressInv, Connected
<1>2. TypeOK /\ TypeOK' /\ WireInv /\ AddressInv /\ [Next]_vars => AddressInv'
  <2> SUFFICES ASSUME TypeOK, TypeOK', WireInv, AddressInv, [Next]_vars PROVE AddressInv'
    OBVIOUS
  <2>0. /\ wire \in Seq(Notices) /\ wire' \in Seq(Notices) /\ Sorted(wire)
        /\ due \in (-Late) .. Period /\ due \in Int /\ due' \in (-Late) .. Period
        /\ lost \in 0 .. MaxLost /\ lost' \in 0 .. MaxLost
        /\ lasts \in Nat /\ lasts' \in Nat
    BY DEF TypeOK, WireInv
  <2>1. EnoughTicks \in Nat \ {0} /\ EnoughTicks' \in Nat \ {0}
    <3>1. \A l \in 0 .. MaxLost : MaxLost - l + 1 \in Nat \ {0}
      OBVIOUS
    <3>2. MaxLost + 3 \in Nat \ {0} /\ MaxLost + 2 \in Nat \ {0}
      OBVIOUS
    <3> QED  BY <2>0, <3>1, <3>2 DEF EnoughTicks
  <2>2. Awaited(wire, due, EnoughTicks) \in Nat /\ Awaited(wire', due', EnoughTicks') \in Nat
    BY <2>0, <2>1, AwaitedType
  <2>3. CASE Handshake
    <3>1. due' = 0 /\ lasts' = 0
      BY <2>3 DEF Handshake
    <3>2. CASE Len(wire') = 1 /\ ~Behind' /\ wire' # <<>> /\ wire'[1].addr = "observed"
               /\ wire'[1].left = Delay
      <4>1. EnoughTicks' = MaxLost + 2
        BY <3>2 DEF EnoughTicks
      <4> QED  BY <1>0, <3>1, <3>2, <4>1 DEF AddressInv, Awaited
    <3>3. CASE Len(wire') = 2 /\ Behind' /\ wire'[2].left = Delay
      <4>1. EnoughTicks' = MaxLost + 3
        BY <3>3 DEF EnoughTicks
      <4> QED  BY <1>0, <3>1, <3>3, <4>1 DEF AddressInv, Awaited
    <3> QED  BY <2>3, <3>2, <3>3, HandshakeSent
  <2>4. CASE PresenceTick \/ AnnounceNow
    <3>1. /\ Awaited(wire', due', EnoughTicks') <= Awaited(wire, due, EnoughTicks)
          /\ \A i \in DOMAIN wire' : (i \in DOMAIN wire /\ wire'[i] = wire[i]) \/ wire'[i].addr = "udp"
      BY <2>1, <2>4, TickSent
    <3>2. Connected /\ lasts' = lasts /\ entry' = entry
      BY <2>4 DEF PresenceTick, AnnounceNow, Connected
    <3>3. CASE lasts + Awaited(wire, due, EnoughTicks) <= Settled
      BY <1>0, <2>0, <2>2, <3>1, <3>2, <3>3 DEF AddressInv
    <3>4. CASE /\ entry # None => entry.addr = "udp"
               /\ \A i \in DOMAIN wire : wire[i].addr = "udp"
      BY <3>1, <3>2, <3>4 DEF AddressInv
    <3> QED  BY <3>2, <3>3, <3>4 DEF AddressInv
  <2>5. CASE Shutdown \/ Break
    BY <2>5 DEF Shutdown, Break, Off, AddressInv, Connected
  <2>6. CASE Receive \/ Lose
    <3> SUFFICES ASSUME Connected PROVE AddressInv'
      BY <2>6 DEF Receive, Lose, AddressInv, Connected
    <3>1. wire # <<>> /\ wire' = Tail(wire) /\ due' = due /\ lasts' = lasts
      BY <2>6 DEF Receive, Lose
    <3>2. /\ Len(wire) \in Nat \ {0} /\ DOMAIN wire = 1 .. Len(wire)
          /\ DOMAIN wire' = 1 .. Len(wire) - 1 /\ Head(wire) = wire[1]
          /\ \A i \in 1 .. Len(wire) - 1 : wire'[i] = wire[i + 1]
      BY <2>0, <3>1, Arriving, LenProperties
    <3>3. /\ ~Behind'
          /\ Behind => wire' # <<>> /\ wire'[1].addr = "observed"
          /\ ~Behind => wire' = <<>> \/ wire'[1].addr = "udp"
      BY <2>6, OneFewer
    <3>4. \A j \in Nat \ {0} : Awaited(wire', due', j) = Awaited(wire, due, j + 1)
      BY <2>0, <3>1, AwaitedTail
    <3>5. ASSUME \A i \in DOMAIN wire : wire[i].addr = "udp"
          PROVE  /\ \A i \in DOMAIN wire' : wire'[i].addr = "udp"
                 /\ Receive => AddressInv'
      <4>1. \A i \in DOMAIN wire' : wire'[i].addr = "udp"
        <5> SUFFICES ASSUME NEW i \in 1 .. Len(wire) - 1 PROVE wire'[i].addr = "udp"
          BY <3>2
        <5>1. i + 1 \in DOMAIN wire /\ wire'[i] = wire[i + 1]
          BY <3>2
        <5> QED  BY <3>5, <5>1
      <4>2. 1 \in DOMAIN wire /\ Head(wire).addr = "udp"
        BY <3>2, <3>5
      <4>3. Receive => (entry' # None => entry'.addr = "udp")
        BY <4>2 DEF Receive
      <4> QED  BY <4>1, <4>3 DEF AddressInv
    <3>6. CASE /\ entry # None => entry.addr = "udp"
               /\ \A i \in DOMAIN wire : wire[i].addr = "udp"
      <4>1. Lose => AddressInv'
        BY <3>5, <3>6 DEF Lose, AddressInv
      <4> QED  BY <2>6, <3>5, <3>6, <4>1
    <3>7. CASE lasts + Awaited(wire, due, EnoughTicks) <= Settled
      <4>1. CASE Behind
        <5>1. EnoughTicks' = MaxLost + 2 /\ EnoughTicks = MaxLost + 3
          BY <3>3, <4>1 DEF EnoughTicks
        <5>2. Awaited(wire', due', EnoughTicks') = Awaited(wire, due, EnoughTicks)
          BY <3>4, <5>1
        <5> QED  BY <3>1, <3>7, <5>2 DEF AddressInv
      <4>2. CASE ~Behind /\ wire[1].addr = "observed"
        <5>1. EnoughTicks' = MaxLost - lost' + 1 /\ EnoughTicks = MaxLost + 2
          BY <3>1, <3>3, <4>2 DEF EnoughTicks
        <5>2. Awaited(wire', due', EnoughTicks') = Awaited(wire, due, EnoughTicks' + 1)
          BY <2>1, <3>4
        <5>3. Awaited(wire, due, EnoughTicks' + 1) <= Awaited(wire, due, EnoughTicks)
          <6>1. EnoughTicks' + 1 \in Nat \ {0} /\ EnoughTicks' + 1 <= EnoughTicks
            <7>1. \A l \in 0 .. MaxLost : /\ MaxLost - l + 1 + 1 \in Nat \ {0}
                                        /\ MaxLost - l + 1 + 1 <= MaxLost + 2
              OBVIOUS
            <7> QED  BY <2>0, <5>1, <7>1
          <6> QED  BY <2>0, <2>1, <6>1, AwaitedLater
        <5> QED  BY <1>0, <2>0, <2>2, <3>1, <3>7, <5>2, <5>3 DEF AddressInv
      <4>3. CASE ~Behind /\ wire[1].addr # "observed"
        <5>1. \A i \in DOMAIN wire : wire[i].addr \in {"observed", "udp"}
          <6>1. \A i \in DOMAIN wire : wire[i] \in Notices
            BY <2>0, <3>2, ElementOfSeq
          <6> QED  BY <6>1 DEF Notices, Address
        <5>2. \A i \in DOMAIN wire : wire[i].addr = "udp"
          <6> SUFFICES ASSUME NEW i \in 1 .. Len(wire) PROVE wire[i].addr = "udp"
            BY <3>2
          <6>1. CASE i \in {1, 2}
            BY <3>2, <4>3, <5>1, <6>1 DEF Behind
          <6>2. CASE i >= 3
            BY <3>2, <6>2 DEF WireInv
          <6> QED  BY <3>2, <6>1, <6>2
        <5>3. CASE Receive
          BY <3>5, <5>2, <5>3
        <5>4. CASE Lose
          <6>1. EnoughTicks' = MaxLost - (lost + 1) + 1 /\ EnoughTicks = MaxLost - lost + 1
            BY <3>3, <4>3, <5>4 DEF EnoughTicks, Lose
          <6>2. EnoughTicks = EnoughTicks' + 1
            BY <2>0, <6>1
          <6>3. Awaited(wire', due', EnoughTicks') = Awaited(wire, due, EnoughTicks)
            BY <2>1, <3>4, <6>2
          <6> QED  BY <3>1, <3>7, <6>3 DEF AddressInv
        <5> QED  BY <2>6, <5>3, <5>4
      <4> QED  BY <4>1, <4>2, <4>3
    <3> QED  BY <3>6, <3>7 DEF AddressInv
  <2>7. CASE Second
    <3> SUFFICES ASSUME Connected PROVE AddressInv'
      BY <2>7 DEF Second, AddressInv, Connected
    <3>1. Awaited(wire', due', EnoughTicks') = Awaited(wire, due, EnoughTicks) - 1
      BY <2>1, <2>7, SecondLater
    <3>2. lasts' <= lasts + 1
      <4>1. lasts' = lasts \/ lasts' = lasts + 1
        BY <2>7 DEF Second
      <4> QED  BY <2>0, <4>1
    <3>3. CASE lasts + Awaited(wire, due, EnoughTicks) <= Settled
      BY <1>0, <2>0, <2>2, <3>1, <3>2, <3>3 DEF AddressInv
    <3>4. CASE /\ entry # None => entry.addr = "udp"
               /\ \A i \in DOMAIN wire : wire[i].addr = "udp"
      <4>1. entry' # None => entry'.addr = "udp"
        <5>1. entry \in [addr : Address, age : 0 .. 36] \cup {None} /\ entry' = Older(entry)
          BY <2>7 DEF Second, TypeOK
        <5> QED  BY <3>4, <5>1, EntryOlder
      <4>2. \A i \in DOMAIN wire' : wire'[i].addr = "udp"
        BY <2>7, <3>4, SecondLater
      <4> QED  BY <4>1, <4>2 DEF AddressInv
    <3> QED  BY <3>3, <3>4 DEF AddressInv
  <2>8. CASE UNCHANGED vars
    BY <2>8 DEF vars, AddressInv, Connected, EnoughTicks, Behind
  <2> QED  BY <2>3, <2>4, <2>5, <2>6, <2>7, <2>8 DEF Next
<1>3. TypeOK /\ AddressInv => AddressSettles
  <2> SUFFICES ASSUME TypeOK, AddressInv, Connected, lasts > Settled, entry # None
               PROVE  entry.addr = "udp"
    BY DEF AddressSettles, load_online_peers
  <2>1. /\ wire \in Seq(Notices) /\ due \in (-Late) .. Period
        /\ EnoughTicks \in Nat \ {0} /\ lasts \in Nat
    BY DEF TypeOK, EnoughTicks
  <2>2. Awaited(wire, due, EnoughTicks) \in Nat
    BY <2>1, AwaitedType
  <2>3. ~(lasts + Awaited(wire, due, EnoughTicks) <= Settled)
    BY <1>0, <2>1, <2>2
  <2> QED  BY <2>3 DEF AddressInv
<1> QED  BY <1>1, <1>2, <1>3, TypeCorrect, WireOrder, PTL DEF Spec
=============================================================================
