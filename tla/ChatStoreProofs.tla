-------------------------- MODULE ChatStoreProofs ----------------------------
(***************************************************************************)
(* Theorems about chat.db, for any number of threads that open it, any     *)
(* messages and any number of incarnations.                                *)
(***************************************************************************)
EXTENDS ChatStore, FiniteSetTheorems, SequenceTheorems, TLAPS

USE StoreConstants

Row == Msg \cup {Old}

-----------------------------------------------------------------------------
(* The keys of chat.db are an interval: find_counter returns the key behind  *)
(* it, and the rows in order are those of the interval.                      *)
Spans(r, a, n) == a \in {0, 1} /\ n \in Nat /\ DOMAIN r = a .. a + n - 1

LEMMA KeysFollow ==
    ASSUME NEW r, Consecutive(r)
    PROVE  \E a, n : Spans(r, a, n)
BY FS_CardinalityType DEF Consecutive, Spans

LEMMA FollowingKeys ==
    ASSUME NEW r, NEW a, NEW n, Spans(r, a, n),
           \A k \in DOMAIN r : r[k] = Old => k = 0
    PROVE  Consecutive(r)
<1>1. IsFiniteSet(DOMAIN r) /\ Cardinality(DOMAIN r) = n
  BY FS_Interval DEF Spans
<1> QED  BY <1>1 DEF Consecutive, Spans

LEMMA MaxOfInterval ==
    ASSUME NEW a \in Nat, NEW b \in Nat, a <= b
    PROVE  Max(a .. b) = b
<1>1. \E x \in a .. b : \A y \in a .. b : x >= y
  OBVIOUS
<1>2. Max(a .. b) \in a .. b /\ \A y \in a .. b : Max(a .. b) >= y
  BY <1>1 DEF Max
<1> QED  BY <1>2

LEMMA RowsInOrder ==
    ASSUME NEW r, NEW a, NEW n, Spans(r, a, n), NEW S, \A k \in DOMAIN r : r[k] \in S
    PROVE  /\ InOrder(r) \in Seq(S) /\ Len(InOrder(r)) = n
           /\ \A i \in 1 .. n : a + i - 1 \in DOMAIN r /\ InOrder(r)[i] = r[a + i - 1]
<1>0. a \in {0, 1} /\ n \in Nat /\ DOMAIN r = a .. a + n - 1
  BY DEF Spans
<1>1. Cardinality(DOMAIN r) = n
  BY <1>0, FS_Interval
<1>2. ASSUME NEW k \in DOMAIN r PROVE Cardinality({j \in DOMAIN r : j < k}) = k - a
  <2>1. {j \in DOMAIN r : j < k} = a .. k - 1
    BY <1>0
  <2>2. a \in Int /\ k - 1 \in Int /\ (a > k - 1 => k - a = 0) /\ k - 1 - a + 1 = k - a
    BY <1>0
  <2> QED  BY <2>1, <2>2, FS_Interval
<1>3. ASSUME NEW i \in 1 .. n PROVE Nth(r, i) = a + i - 1 /\ Nth(r, i) \in DOMAIN r
  <2>1. PICK l \in DOMAIN r : l = a + i - 1
    BY <1>0
  <2>2. \E k \in DOMAIN r : Cardinality({j \in DOMAIN r : j < k}) = i - 1
    <3>1. Cardinality({j \in DOMAIN r : j < l}) = l - a
      BY <1>2
    <3>2. l - a = i - 1
      BY <1>0, <2>1
    <3> QED  BY <3>1, <3>2
  <2>3. Nth(r, i) \in DOMAIN r /\ Cardinality({j \in DOMAIN r : j < Nth(r, i)}) = i - 1
    BY <2>2 DEF Nth
  <2>4. Nth(r, i) - a = i - 1
    BY <1>2, <2>3
  <2> QED  BY <1>0, <2>3, <2>4
<1>4. InOrder(r) = [i \in 1 .. n |-> r[Nth(r, i)]]
  BY <1>1 DEF InOrder
<1>5. \A i \in 1 .. n : a + i - 1 \in DOMAIN r /\ InOrder(r)[i] = r[a + i - 1]
  BY <1>3, <1>4
<1>6. InOrder(r) \in [1 .. n -> S]
  BY <1>3, <1>4
<1>7. InOrder(r) \in Seq(S)
  BY <1>0, <1>6, SeqDef
<1>8. Len(InOrder(r)) = n
  <2>1. DOMAIN InOrder(r) = 1 .. n
    BY <1>4
  <2> QED  BY <1>0, <1>7, <2>1, LenProperties
<1> QED  BY <1>5, <1>7, <1>8

LEMMA FiniteRows ==
    ASSUME NEW r, Consecutive(r)
    PROVE  IsFiniteSet({r[k] : k \in DOMAIN r})
<1> DEFINE T == {r[k] : k \in DOMAIN r}
           f == [k \in DOMAIN r |-> r[k]]
<1>1. f \in Surjection(DOMAIN r, T)
  BY DEF Surjection
<1>2. IsFiniteSet(DOMAIN r)
  BY DEF Consecutive
<1> QED  BY <1>1, <1>2, FS_Surjection

LEMMA OrderedType ==
    ASSUME NEW r, Consecutive(r), NEW S, \A k \in DOMAIN r : r[k] \in S
    PROVE  /\ InOrder(r) \in Seq(S)
           /\ Range(InOrder(r)) = {r[k] : k \in DOMAIN r}
<1>1. PICK a, n : Spans(r, a, n)
  BY KeysFollow
<1>2. a \in {0, 1} /\ n \in Nat /\ DOMAIN r = a .. a + n - 1
  BY <1>1 DEF Spans
<1>3. /\ InOrder(r) \in Seq(S) /\ Len(InOrder(r)) = n
      /\ \A i \in 1 .. n : a + i - 1 \in DOMAIN r /\ InOrder(r)[i] = r[a + i - 1]
  BY <1>1, RowsInOrder
<1>4. DOMAIN InOrder(r) = 1 .. n
  BY <1>3, LenProperties
<1>5. Range(InOrder(r)) \subseteq {r[k] : k \in DOMAIN r}
  BY <1>3, <1>4 DEF Range
<1>6. ASSUME NEW k \in DOMAIN r PROVE r[k] \in Range(InOrder(r))
  <2>1. PICK i \in 1 .. n : a + i - 1 = k
    <3>1. k - a + 1 \in 1 .. n /\ a + (k - a + 1) - 1 = k
      BY <1>2
    <3> QED  BY <3>1
  <2> QED  BY <1>3, <1>4, <2>1 DEF Range
<1> QED  BY <1>3, <1>5, <1>6

(* Inserting at the key find_counter returns appends a row.                  *)
LEMMA NextKeyOfRows ==
    ASSUME NEW r, NEW a, NEW n, Spans(r, a, n), NEW m
    PROVE  /\ NextKey(r) = IF n = 0 THEN 0 ELSE a + n
           /\ NextKey(r) \in Nat /\ NextKey(r) \notin DOMAIN r
           /\ Spans(WithRow(r, NextKey(r), m), IF n = 0 THEN 0 ELSE a, n + 1)
<1>1. a \in {0, 1} /\ n \in Nat /\ DOMAIN r = a .. a + n - 1
  BY DEF Spans
<1>2. DOMAIN WithRow(r, NextKey(r), m) = DOMAIN r \cup {NextKey(r)}
  BY DEF WithRow
<1>3. CASE n = 0
  <2>1. DOMAIN r = {} /\ NextKey(r) = 0
    BY <1>1, <1>3 DEF NextKey
  <2>2. DOMAIN WithRow(r, NextKey(r), m) = 0 .. 0 + (0 + 1) - 1
    BY <1>2, <2>1
  <2> QED  BY <1>3, <2>1, <2>2 DEF Spans
<1>4. CASE n > 0
  <2>1. a + n - 1 \in Nat /\ a <= a + n - 1 /\ a \in Nat
    BY <1>1, <1>4
  <2>2. Max(DOMAIN r) = a + n - 1 /\ DOMAIN r # {}
    BY <1>1, <2>1, MaxOfInterval
  <2>3. NextKey(r) = a + n /\ NextKey(r) \in Nat /\ NextKey(r) \notin DOMAIN r
    BY <1>1, <2>2 DEF NextKey
  <2>4. DOMAIN WithRow(r, NextKey(r), m) = a .. a + (n + 1) - 1
    BY <1>1, <1>2, <1>4, <2>3
  <2> QED  BY <1>1, <1>4, <2>3, <2>4 DEF Spans
<1> QED  BY <1>1, <1>3, <1>4

LEMMA InsertAppends ==
    ASSUME NEW r, Consecutive(r), NEW m \in Msg, \A k \in DOMAIN r : r[k] \in Row
    PROVE  /\ NextKey(r) \in Nat /\ NextKey(r) \notin DOMAIN r
           /\ Consecutive(WithRow(r, NextKey(r), m))
           /\ InOrder(WithRow(r, NextKey(r), m)) = Append(InOrder(r), m)
<1>0. PICK a, n : Spans(r, a, n)
  BY KeysFollow
<1>1. a \in {0, 1} /\ n \in Nat
  BY <1>0 DEF Spans
<1>2. PICK k, w, b : /\ k = NextKey(r) /\ w = WithRow(r, k, m)
                     /\ b = (IF n = 0 THEN 0 ELSE a)
  OBVIOUS
<1>3. /\ k = IF n = 0 THEN 0 ELSE a + n
      /\ k \in Nat /\ k \notin DOMAIN r /\ Spans(w, b, n + 1)
  BY <1>0, <1>2, NextKeyOfRows
<1>4. DOMAIN w = DOMAIN r \cup {k} /\ w[k] = m /\ \A j \in DOMAIN r : w[j] = r[j]
  BY <1>2, <1>3 DEF WithRow
<1>5. \A j \in DOMAIN w : w[j] \in Row /\ (w[j] = Old => j = 0)
  BY <1>4 DEF Row, Consecutive
<1>6. Consecutive(w)
  BY <1>3, <1>5, FollowingKeys
<1>7. /\ InOrder(r) \in Seq(Row) /\ Len(InOrder(r)) = n
      /\ \A i \in 1 .. n : a + i - 1 \in DOMAIN r /\ InOrder(r)[i] = r[a + i - 1]
  BY <1>0, RowsInOrder
<1>8. /\ InOrder(w) \in Seq(Row) /\ Len(InOrder(w)) = n + 1
      /\ \A i \in 1 .. n + 1 : InOrder(w)[i] = w[b + i - 1]
  <2>1. PICK l : l = n + 1
    OBVIOUS
  <2>2. /\ InOrder(w) \in Seq(Row) /\ Len(InOrder(w)) = l
        /\ \A i \in 1 .. l : b + i - 1 \in DOMAIN w /\ InOrder(w)[i] = w[b + i - 1]
    <3>1. Spans(w, b, l) /\ \A j \in DOMAIN w : w[j] \in Row
      BY <1>3, <1>5, <2>1
    <3> QED  BY <3>1, RowsInOrder
  <2> QED  BY <2>1, <2>2
<1>9. m \in Row
  BY DEF Row
<1>10. /\ Append(InOrder(r), m) \in Seq(Row) /\ Len(Append(InOrder(r), m)) = n + 1
       /\ \A i \in 1 .. n : Append(InOrder(r), m)[i] = InOrder(r)[i]
       /\ Append(InOrder(r), m)[n + 1] = m
  BY <1>7, <1>9, AppendProperties
<1>11. ASSUME NEW i \in 1 .. n + 1 PROVE InOrder(w)[i] = Append(InOrder(r), m)[i]
  <2>1. CASE i = n + 1
    <3>1. b + i - 1 = k
      BY <1>1, <1>2, <1>3, <2>1
    <3> QED  BY <1>4, <1>8, <1>10, <2>1, <3>1
  <2>2. CASE i \in 1 .. n
    <3>1. b = a /\ a + i - 1 \in DOMAIN r
      BY <1>1, <1>2, <1>7, <2>2
    <3> QED  BY <1>4, <1>7, <1>8, <1>10, <2>2, <3>1
  <2>3. i = n + 1 \/ i \in 1 .. n
    BY <1>1
  <2> QED  BY <2>1, <2>2, <2>3
<1>12. InOrder(w) = Append(InOrder(r), m)
  BY <1>8, <1>10, <1>11, SeqEqual
<1> QED  BY <1>2, <1>3, <1>6, <1>12

(* Reading drops the unreadable row at the front, or nothing.                *)
LEMMA ReadableRows ==
    ASSUME NEW r, \A k \in DOMAIN r : r[k] \in Row
    PROVE  /\ \A k \in DOMAIN Decrypted(r) : k \in DOMAIN r /\ Decrypted(r)[k] = r[k]
           /\ \A k \in DOMAIN Decrypted(r) : Decrypted(r)[k] \in Msg
           /\ {Decrypted(r)[k] : k \in DOMAIN Decrypted(r)} = {r[k] : k \in DOMAIN r} \ {Old}
           /\ Decrypted(Decrypted(r)) = Decrypted(r)
<1>1. /\ DOMAIN Decrypted(r) = {j \in DOMAIN r : r[j] # Old}
      /\ \A k \in DOMAIN Decrypted(r) : k \in DOMAIN r /\ Decrypted(r)[k] = r[k]
  BY DEF Decrypted
<1>2. \A k \in DOMAIN Decrypted(r) : Decrypted(r)[k] \in Msg /\ Decrypted(r)[k] # Old
  BY <1>1 DEF Row
<1>3. {j \in DOMAIN Decrypted(r) : Decrypted(r)[j] # Old} = DOMAIN Decrypted(r)
  BY <1>2
<1>4. Decrypted(Decrypted(r)) = [k \in DOMAIN Decrypted(r) |-> Decrypted(r)[k]]
  BY <1>3 DEF Decrypted
<1>5. Decrypted(r) = [k \in DOMAIN Decrypted(r) |-> Decrypted(r)[k]]
  BY DEF Decrypted
<1>6. {Decrypted(r)[k] : k \in DOMAIN Decrypted(r)} = {r[k] : k \in DOMAIN r} \ {Old}
  BY <1>1
<1> QED  BY <1>1, <1>2, <1>4, <1>5, <1>6

Dropped(s, t) == \E n \in 1 .. Len(s) :
    /\ \A i \in 1 .. Len(s) : s[i] = Old <=> i <= n
    /\ t = SubSeq(s, n + 1, Len(s))

LEMMA ReadDrops ==
    ASSUME NEW r, Consecutive(r), \A k \in DOMAIN r : r[k] \in Row
    PROVE  /\ Consecutive(Decrypted(r))
           /\ Readable(r) = InOrder(r) \/ Dropped(InOrder(r), Readable(r))
<1>0. PICK a, n : Spans(r, a, n)
  BY KeysFollow
<1>1. a \in {0, 1} /\ n \in Nat /\ DOMAIN r = a .. a + n - 1
  BY <1>0 DEF Spans
<1>2. PICK d : d = Decrypted(r)
  OBVIOUS
<1>3. /\ DOMAIN d = {j \in DOMAIN r : r[j] # Old} /\ Readable(r) = InOrder(d)
      /\ \A k \in DOMAIN d : k \in DOMAIN r /\ d[k] = r[k] /\ d[k] \in Row
  BY <1>2 DEF Decrypted, Readable
<1>4. /\ InOrder(r) \in Seq(Row) /\ Len(InOrder(r)) = n
      /\ \A i \in 1 .. n : a + i - 1 \in DOMAIN r /\ InOrder(r)[i] = r[a + i - 1]
  BY <1>0, RowsInOrder
<1>5. CASE \A k \in DOMAIN r : r[k] # Old
  <2>1. Spans(d, a, n) /\ DOMAIN d = DOMAIN r
    BY <1>0, <1>3, <1>5 DEF Spans
  <2>2. Consecutive(d)
    BY <1>3, <1>5, <2>1, FollowingKeys
  <2>3. /\ InOrder(d) \in Seq(Row) /\ Len(InOrder(d)) = n
        /\ \A i \in 1 .. n : a + i - 1 \in DOMAIN d /\ InOrder(d)[i] = d[a + i - 1]
    BY <1>3, <2>1, RowsInOrder
  <2>4. \A i \in 1 .. n : InOrder(d)[i] = InOrder(r)[i]
    BY <1>3, <1>4, <2>3
  <2>5. InOrder(d) = InOrder(r)
    BY <1>4, <2>3, <2>4, SeqEqual
  <2> QED  BY <1>2, <1>3, <2>2, <2>5
<1>6. CASE \E k \in DOMAIN r : r[k] = Old
  <2>1. 0 \in DOMAIN r /\ r[0] = Old /\ \A k \in DOMAIN r : r[k] = Old <=> k = 0
    BY <1>6 DEF Consecutive
  <2>2. a = 0 /\ n \in Nat \ {0} /\ DOMAIN d = 1 .. n - 1
    BY <1>1, <1>3, <2>1
  <2>3. PICK l : l = n - 1
    OBVIOUS
  <2>4. Spans(d, 1, l) /\ l \in Nat
    BY <2>2, <2>3 DEF Spans
  <2>5. Consecutive(d)
    <3>1. \A k \in DOMAIN d : d[k] = Old => k = 0
      BY <1>3
    <3> QED  BY <2>4, <3>1, FollowingKeys
  <2>6. /\ InOrder(d) \in Seq(Row) /\ Len(InOrder(d)) = l
        /\ \A i \in 1 .. l : 1 + i - 1 \in DOMAIN d /\ InOrder(d)[i] = d[1 + i - 1]
    <3>1. PICK b : b = 1
      OBVIOUS
    <3>2. Spans(d, b, l) /\ \A k \in DOMAIN d : d[k] \in Row
      BY <1>3, <2>4, <3>1
    <3>3. /\ InOrder(d) \in Seq(Row) /\ Len(InOrder(d)) = l
          /\ \A i \in 1 .. l : b + i - 1 \in DOMAIN d /\ InOrder(d)[i] = d[b + i - 1]
      BY <3>2, RowsInOrder
    <3> QED  BY <3>1, <3>3
  <2>7. PICK t : t = SubSeq(InOrder(r), 2, n)
    OBVIOUS
  <2>8. /\ t \in Seq(Row) /\ Len(t) = l
        /\ \A i \in 1 .. l : t[i] = InOrder(r)[2 + i - 1]
    <3>1. \A i \in 2 .. n : InOrder(r)[i] \in Row
      BY <1>4, <2>2, ElementOfSeq
    <3>2. /\ t \in Seq(Row) /\ Len(t) = IF 2 <= n THEN n - 2 + 1 ELSE 0
          /\ \A i \in 1 .. n - 2 + 1 : t[i] = InOrder(r)[2 + i - 1]
      <4>1. PICK s, k : s = InOrder(r) /\ k = 2 /\ s \in Seq(Row) /\ k \in Int /\ n \in Int
        BY <1>4, <2>2
      <4>2. /\ SubSeq(s, k, n) \in Seq(Row) /\ Len(SubSeq(s, k, n)) = IF k <= n THEN n - k + 1 ELSE 0
            /\ \A i \in 1 .. n - k + 1 : SubSeq(s, k, n)[i] = s[k + i - 1]
        BY <3>1, <4>1, SubSeqProperties
      <4> QED  BY <2>7, <4>1, <4>2
    <3>3. n - 2 + 1 = l /\ (~(2 <= n) => l = 0)
      BY <2>2, <2>3
    <3> QED  BY <3>2, <3>3
  <2>9. ASSUME NEW i \in 1 .. l PROVE InOrder(d)[i] = t[i]
    <3>1. 2 + i - 1 = i + 1 /\ i + 1 \in 1 .. n /\ 0 + (i + 1) - 1 = i /\ 1 + i - 1 = i
      BY <2>2, <2>3
    <3>2. InOrder(d)[i] = d[i] /\ i \in DOMAIN d
      BY <2>6, <3>1
    <3>3. InOrder(r)[i + 1] = r[i]
      BY <1>4, <2>2, <3>1
    <3> QED  BY <1>3, <2>8, <3>1, <3>2, <3>3
  <2>10. InOrder(d) = t
    BY <2>6, <2>8, <2>9, SeqEqual
  <2>11. \A i \in 1 .. n : InOrder(r)[i] = Old <=> i <= 1
    <3> SUFFICES ASSUME NEW i \in 1 .. n PROVE InOrder(r)[i] = Old <=> i <= 1
      OBVIOUS
    <3>1. 0 + i - 1 \in DOMAIN r /\ InOrder(r)[i] = r[0 + i - 1]
      BY <1>4, <2>2
    <3>2. 0 + i - 1 = 0 <=> i <= 1
      BY <2>2
    <3> QED  BY <2>1, <3>1, <3>2
  <2>12. Dropped(InOrder(r), t)
    <3>1. 1 \in 1 .. n /\ 1 + 1 = 2
      BY <2>2
    <3> QED  BY <1>4, <2>7, <2>11, <3>1 DEF Dropped
  <2> QED  BY <1>2, <1>3, <2>5, <2>10, <2>12
<1> QED  BY <1>5, <1>6

-----------------------------------------------------------------------------
LEMMA NoRowsFollow == Consecutive(NoRows) /\ DOMAIN NoRows = {} /\ InOrder(NoRows) = <<>>
<1>1. Spans(NoRows, 0, 0) /\ DOMAIN NoRows = {}
  BY DEF Spans, NoRows
<1>2. Consecutive(NoRows)
  BY <1>1, FollowingKeys
<1>3. InOrder(NoRows) = <<>>
  BY <1>1, FS_EmptySet DEF InOrder
<1> QED  BY <1>1, <1>2, <1>3

(* With one holder of the lock of each incarnation, the two steps            *)
(* find_counter and insert of one user are not interrupted by another insert *)
(* into the same files.  So no row is overwritten, and what was stored is    *)
(* there until it is purged.                                                 *)
StoreSafe == StoreTypeOK /\ StoreInv /\ StoredUntilPurged

LEMMA StoreStart == StoreInit => StoreSafe
<1> SUFFICES ASSUME StoreInit PROVE StoreSafe
  OBVIOUS
<1>1. DOMAIN rows = Gen /\ \A g \in Gen : rows[g] = IF g = 1 THEN [k \in {0} |-> Old] ELSE NoRows
  BY DEF StoreInit
<1>2. Consecutive([k \in {0} |-> Old])
  <2>1. PICK r : r = [k \in {0} |-> Old]
    OBVIOUS
  <2>2. Spans(r, 0, 1) /\ \A k \in DOMAIN r : k = 0
    BY <2>1 DEF Spans
  <2>3. Consecutive(r)
    BY <2>2, FollowingKeys
  <2> QED  BY <2>1, <2>3
<1>3. \A g \in Gen : Consecutive(rows[g]) /\ (g > gen => rows[g] = NoRows)
  BY <1>1, <1>2, NoRowsFollow DEF StoreInit, Gen
<1>4. StoreInv
  BY <1>3 DEF StoreInit, StoreInv, HasOpen
<1>5. \A g \in Gen : DOMAIN rows[g] \subseteq Nat /\ \A k \in DOMAIN rows[g] : rows[g][k] \in Row
  BY <1>1, NoRowsFollow DEF Row
<1>6. StoreTypeOK
  <2>1. /\ lock \in [Gen -> User \cup {None}] /\ handle \in [User -> 0 .. MaxGen]
        /\ work \in [User -> Msg \cup {None}] /\ counter \in [User -> Nat]
    BY DEF StoreInit
  <2>2. step \in [User -> {"idle", "store", "count", "insert", "ok", "err", "load", "read"}]
    BY DEF StoreInit
  <2>3. gen \in Gen /\ dir \in {0, gen} /\ stored \subseteq Msg /\ purged \subseteq Msg
    BY DEF StoreInit, Gen
  <2> QED  BY <1>1, <1>5, <2>1, <2>2, <2>3 DEF StoreTypeOK, Row
<1>7. StoredUntilPurged
  BY DEF StoreInit, StoredUntilPurged
<1> QED  BY <1>4, <1>6, <1>7 DEF StoreSafe

(* A step of a user that leaves the files alone.                             *)
LEMMA Aside ==
    ASSUME StoreSafe, NEW u \in User, NEW s \in {"idle", "store", "ok", "err", "load"},
           step' = [step EXCEPT ![u] = s],
           UNCHANGED <<gen, dir, rows, lock, handle, counter, stored, purged>>,
           NEW m \in Msg \cup {None}, work' = [work EXCEPT ![u] = m],
           s = "store" => m \in Msg
    PROVE  StoreSafe'
<1>1. StoreTypeOK'
  BY DEF StoreSafe, StoreTypeOK
<1>2. /\ \A v \in User : v # u => step'[v] = step[v] /\ work'[v] = work[v]
      /\ step'[u] = s /\ work'[u] = m
  BY DEF StoreSafe, StoreTypeOK
<1>3. StoreInv'
  BY <1>2 DEF StoreSafe, StoreInv, HasOpen
<1>4. StoredUntilPurged'
  BY DEF StoreSafe, StoredUntilPurged, InChat
<1> QED  BY <1>1, <1>3, <1>4 DEF StoreSafe

LEMMA Opening ==
    ASSUME StoreSafe, NEW u \in User, NEW s \in {"count", "read"}, SledOpen(u, s),
           s = "count" => work[u] \in Msg
    PROVE  StoreSafe'
<1> USE DEF StoreSafe
<1>0. /\ gen \in Gen /\ dir \in {0, gen} /\ gen' \in Gen /\ dir' = gen' /\ gen <= gen'
      /\ gen \in Nat \ {0} /\ gen' \in Nat \ {0}
  BY DEF StoreTypeOK, SledOpen, Gen
<1>1. /\ lock' = [lock EXCEPT ![dir'] = u] /\ handle' = [handle EXCEPT ![u] = dir']
      /\ step' = [step EXCEPT ![u] = s] /\ UNCHANGED <<rows, work, counter, stored, purged>>
  BY DEF SledOpen
<1>2. StoreTypeOK'
  <2>1. lock' \in [Gen -> User \cup {None}]
    BY <1>0, <1>1 DEF StoreTypeOK
  <2>2. handle' \in [User -> 0 .. MaxGen]
    BY <1>0, <1>1 DEF StoreTypeOK, Gen
  <2>3. step' \in [User -> {"idle", "store", "count", "insert", "ok", "err", "load", "read"}]
    BY <1>1 DEF StoreTypeOK
  <2> QED  BY <1>0, <1>1, <2>1, <2>2, <2>3 DEF StoreTypeOK
<1>3. /\ \A v \in User : v # u => step'[v] = step[v] /\ handle'[v] = handle[v]
      /\ step'[u] = s /\ handle'[u] = dir' /\ lock'[dir'] = u
      /\ \A g \in Gen : g # dir' => lock'[g] = lock[g]
  BY <1>0, <1>1 DEF StoreTypeOK
<1>4. (* nobody has the opened files open *)
      \A v \in User : HasOpen(v) => handle[v] # dir' /\ handle[v] \in Gen /\ handle[v] <= gen
  <2> SUFFICES ASSUME NEW v \in User, HasOpen(v)
               PROVE  handle[v] # dir' /\ handle[v] \in Gen /\ handle[v] <= gen
    OBVIOUS
  <2>1. handle[v] \in 1 .. gen /\ lock[handle[v]] = v
    BY DEF StoreInv
  <2>2. handle[v] # dir'
    <3>1. CASE dir = 0
      <4>1. dir' = gen + 1
        BY <3>1 DEF SledOpen
      <4> QED  BY <1>0, <2>1, <4>1
    <3>2. CASE dir # 0
      <4>1. lock[dir] = None /\ dir' = dir
        BY <3>2 DEF SledOpen
      <4> QED  BY <2>1, <4>1
    <3> QED  BY <3>1, <3>2
  <2> QED  BY <1>0, <2>1, <2>2 DEF Gen
<1>5. ASSUME NEW v \in User
      PROVE  /\ HasOpen(v)' => handle'[v] \in 1 .. gen' /\ lock'[handle'[v]] = v
             /\ step'[v] \in {"store", "count", "insert"} => work'[v] \in Msg
             /\ step'[v] = "insert" => counter'[v] = NextKey(rows'[handle'[v]])
             /\ step'[v] \in {"count", "insert"} /\ handle'[v] # dir' => work'[v] \in purged'
  <2>1. CASE v = u
    BY <1>0, <1>1, <1>3, <2>1 DEF HasOpen
  <2>2. CASE v # u
    <3>1. step'[v] = step[v] /\ handle'[v] = handle[v] /\ HasOpen(v)' = HasOpen(v)
      BY <1>3, <2>2 DEF HasOpen
    <3>2. HasOpen(v) => handle'[v] \in 1 .. gen' /\ lock'[handle'[v]] = v
      BY <1>0, <1>3, <1>4, <3>1 DEF StoreInv
    <3>3. /\ step[v] \in {"store", "count", "insert"} => work[v] \in Msg
          /\ step[v] = "insert" => counter[v] = NextKey(rows[handle[v]])
      BY DEF StoreInv
    <3>4. step[v] \in {"count", "insert"} /\ handle[v] # dir' => work[v] \in purged
      <4>1. step[v] \in {"count", "insert"} /\ handle[v] # dir => work[v] \in purged
        BY DEF StoreInv
      <4>2. step[v] \in {"count", "insert"} => handle[v] # dir
        <5>1. CASE dir = 0
          BY <1>4, <5>1 DEF HasOpen, Gen
        <5>2. CASE dir # 0
          BY <1>4, <5>2 DEF HasOpen, SledOpen
        <5> QED  BY <5>1, <5>2
      <4> QED  BY <4>1, <4>2
    <3> QED  BY <1>1, <3>1, <3>2, <3>3, <3>4
  <2> QED  BY <2>1, <2>2
<1>6. \A g \in Gen : Consecutive(rows'[g]) /\ (g > gen' => rows'[g] = NoRows)
  BY <1>0, <1>1 DEF StoreInv, Gen
<1>7. StoreInv'
  BY <1>5, <1>6 DEF StoreInv
<1>8. StoredUntilPurged'
  <2>1. CASE dir = 0
    BY <1>1, <2>1 DEF StoredUntilPurged, InChat
  <2>2. CASE dir # 0
    BY <1>1, <2>2 DEF StoredUntilPurged, InChat, SledOpen
  <2> QED  BY <2>1, <2>2
<1> QED  BY <1>2, <1>7, <1>8

(* The files that a user has open, which nobody else has.                    *)
LEMMA OpenFiles ==
    ASSUME StoreSafe, NEW u \in User, HasOpen(u)
    PROVE  /\ handle[u] \in Gen /\ handle[u] <= gen /\ gen \in Nat
           /\ Consecutive(rows[handle[u]])
           /\ \A k \in DOMAIN rows[handle[u]] : rows[handle[u]][k] \in Row
           /\ \A v \in User : v # u /\ HasOpen(v) => handle[v] # handle[u]
<1>1. gen \in Gen /\ Gen = 1 .. MaxGen
  BY DEF StoreSafe, StoreTypeOK, Gen
<1>2. \A v \in User : HasOpen(v) => handle[v] \in 1 .. gen /\ lock[handle[v]] = v
  BY DEF StoreSafe, StoreInv
<1>3. handle[u] \in Gen /\ handle[u] <= gen /\ gen \in Nat
  BY <1>1, <1>2
<1>4. \A v \in User : v # u /\ HasOpen(v) => handle[v] # handle[u]
  BY <1>2
<1>5. Consecutive(rows[handle[u]])
  BY <1>3 DEF StoreSafe, StoreInv
<1>6. \A k \in DOMAIN rows[handle[u]] : rows[handle[u]][k] \in Row
  BY <1>3 DEF StoreSafe, StoreTypeOK, Row
<1> QED  BY <1>3, <1>4, <1>5, <1>6

LEMMA Counting ==
    ASSUME StoreSafe, NEW u \in User, FindCounter(u)
    PROVE  StoreSafe'
<1>1. step[u] = "count" /\ HasOpen(u)
  BY DEF FindCounter, HasOpen
<1>2. PICK c \in Nat : c = NextKey(rows[handle[u]])
  <2>1. PICK a, n : Spans(rows[handle[u]], a, n)
    BY <1>1, OpenFiles, KeysFollow
  <2> QED  BY <2>1, NextKeyOfRows
<1>3. /\ counter' = [counter EXCEPT ![u] = c] /\ step' = [step EXCEPT ![u] = "insert"]
      /\ UNCHANGED <<gen, dir, rows, lock, handle, work, stored, purged>>
  BY <1>2 DEF FindCounter
<1>4. StoreTypeOK'
  BY <1>3 DEF StoreSafe, StoreTypeOK
<1>5. /\ \A v \in User : v # u => step'[v] = step[v] /\ counter'[v] = counter[v]
      /\ step'[u] = "insert" /\ counter'[u] = c
  BY <1>3 DEF StoreSafe, StoreTypeOK
<1>6. StoreInv'
  BY <1>1, <1>2, <1>3, <1>5 DEF StoreSafe, StoreInv, HasOpen
<1>7. StoredUntilPurged'
  BY <1>3 DEF StoreSafe, StoredUntilPurged, InChat
<1> QED  BY <1>4, <1>6, <1>7 DEF StoreSafe

(* A step that changes the files and closes them.                            *)
LEMMA Closing ==
    ASSUME StoreSafe, NEW u \in User, HasOpen(u), NEW r, NEW s \in {"idle", "ok"},
           rows' = [rows EXCEPT ![handle[u]] = r], Close(u),
           step' = [step EXCEPT ![u] = s], UNCHANGED <<gen, dir, work, purged>>,
           counter' \in [User -> Nat], \A v \in User \ {u} : counter'[v] = counter[v],
           Consecutive(r), \A k \in DOMAIN r : r[k] \in Row,
           stored' \subseteq InChat' \cup purged, stored' \subseteq Msg
    PROVE  StoreSafe'
<1> DEFINE h == handle[u]
<1>1. /\ h \in Gen /\ h <= gen /\ gen \in Nat
      /\ \A v \in User : v # u /\ HasOpen(v) => handle[v] # h
  BY OpenFiles
<1>2. lock' = [lock EXCEPT ![h] = None] /\ handle' = [handle EXCEPT ![u] = 0]
  BY DEF Close
<1>3. /\ DOMAIN rows' = Gen /\ rows'[h] = r /\ lock'[h] = None
      /\ \A g \in Gen : g # h => rows'[g] = rows[g] /\ lock'[g] = lock[g]
      /\ step'[u] = s /\ handle'[u] = 0
      /\ \A v \in User : v # u => step'[v] = step[v] /\ handle'[v] = handle[v]
  BY <1>1, <1>2 DEF StoreSafe, StoreTypeOK
<1>4. DOMAIN r \subseteq Nat
  <2>1. PICK a, n : Spans(r, a, n)
    BY KeysFollow
  <2> QED  BY <2>1 DEF Spans
<1>5. StoreTypeOK'
  <2>1. \A g \in Gen : /\ DOMAIN rows'[g] \subseteq Nat
                       /\ \A k \in DOMAIN rows'[g] : rows'[g][k] \in Msg \cup {Old}
    BY <1>3, <1>4 DEF StoreSafe, StoreTypeOK, Row
  <2>2. lock' \in [Gen -> User \cup {None}] /\ handle' \in [User -> 0 .. MaxGen]
    <3>1. 0 \in 0 .. MaxGen
      OBVIOUS
    <3>2. lock' \in [Gen -> User \cup {None}]
      BY <1>2 DEF StoreSafe, StoreTypeOK
    <3> QED  BY <1>2, <3>1, <3>2 DEF StoreSafe, StoreTypeOK
  <2>3. step' \in [User -> {"idle", "store", "count", "insert", "ok", "err", "load", "read"}]
    BY DEF StoreSafe, StoreTypeOK
  <2> QED  BY <1>3, <2>1, <2>2, <2>3 DEF StoreSafe, StoreTypeOK
<1>6. \A g \in Gen : Consecutive(rows'[g]) /\ (g > gen' => rows'[g] = NoRows)
  <2> SUFFICES ASSUME NEW g \in Gen
               PROVE  Consecutive(rows'[g]) /\ (g > gen' => rows'[g] = NoRows)
    OBVIOUS
  <2>1. CASE g = h
    BY <1>1, <1>3, <2>1 DEF Gen
  <2>2. CASE g # h
    BY <1>3, <2>2 DEF StoreSafe, StoreInv
  <2> QED  BY <2>1, <2>2
<1>7. ASSUME NEW v \in User
      PROVE  /\ HasOpen(v)' => handle'[v] \in 1 .. gen' /\ lock'[handle'[v]] = v
             /\ step'[v] \in {"store", "count", "insert"} => work'[v] \in Msg
             /\ step'[v] = "insert" => counter'[v] = NextKey(rows'[handle'[v]])
             /\ step'[v] \in {"count", "insert"} /\ handle'[v] # dir' => work'[v] \in purged'
  <2>1. CASE v = u
    BY <1>3, <2>1 DEF HasOpen
  <2>2. CASE v # u
    <3>1. /\ step'[v] = step[v] /\ handle'[v] = handle[v] /\ counter'[v] = counter[v]
          /\ HasOpen(v)' = HasOpen(v)
      BY <1>3, <2>2 DEF HasOpen
    <3>2. HasOpen(v) => handle[v] # h /\ handle[v] \in Gen
      BY <1>1, <2>2, OpenFiles
    <3>3. step[v] = "insert" => HasOpen(v)
      BY DEF HasOpen
    <3>4. HasOpen(v) => /\ lock'[handle[v]] = lock[handle[v]]
                        /\ rows'[handle[v]] = rows[handle[v]]
      BY <1>3, <3>2
    <3>5. /\ HasOpen(v) => handle[v] \in 1 .. gen /\ lock[handle[v]] = v
          /\ step[v] \in {"store", "count", "insert"} => work[v] \in Msg
          /\ step[v] = "insert" => counter[v] = NextKey(rows[handle[v]])
          /\ step[v] \in {"count", "insert"} /\ handle[v] # dir => work[v] \in purged
      BY DEF StoreSafe, StoreInv
    <3> QED  BY <3>1, <3>3, <3>4, <3>5
  <2> QED  BY <2>1, <2>2
<1>8. StoreInv'
  BY <1>6, <1>7 DEF StoreInv
<1> QED  BY <1>5, <1>8 DEF StoreSafe, StoredUntilPurged

LEMMA Inserting ==
    ASSUME StoreSafe, NEW u \in User, Insert(u)
    PROVE  StoreSafe'
<1>1. step[u] = "insert" /\ HasOpen(u)
  BY DEF Insert, HasOpen
<1>2. work[u] \in Msg /\ counter[u] = NextKey(rows[handle[u]])
  BY <1>1 DEF StoreSafe, StoreInv
<1>3. PICK r, w : r = rows[handle[u]] /\ w = WithRow(r, counter[u], work[u])
  OBVIOUS
<1>4. /\ handle[u] \in Gen /\ Consecutive(r) /\ \A k \in DOMAIN r : r[k] \in Row
  BY <1>1, <1>3, OpenFiles
<1>5. Consecutive(w) /\ counter[u] \notin DOMAIN r
  BY <1>2, <1>3, <1>4, InsertAppends
<1>6. /\ DOMAIN w = DOMAIN r \cup {counter[u]} /\ w[counter[u]] = work[u]
      /\ \A k \in DOMAIN r : w[k] = r[k]
  BY <1>3, <1>5 DEF WithRow
<1>7. \A k \in DOMAIN w : w[k] \in Row
  BY <1>2, <1>4, <1>6 DEF Row
<1>8. /\ rows' = [rows EXCEPT ![handle[u]] = w] /\ stored' = stored \cup {work[u]} /\ Close(u)
      /\ step' = [step EXCEPT ![u] = "ok"] /\ counter' = [counter EXCEPT ![u] = 0]
      /\ UNCHANGED <<gen, dir, work, purged>>
  BY <1>3 DEF Insert
<1>9. counter' \in [User -> Nat] /\ \A v \in User \ {u} : counter'[v] = counter[v]
  BY <1>8 DEF StoreSafe, StoreTypeOK
<1>10. stored' \subseteq InChat' \cup purged /\ stored' \subseteq Msg
  <2>1. stored \subseteq InChat \cup purged /\ stored \subseteq Msg
    BY DEF StoreSafe, StoredUntilPurged, StoreTypeOK
  <2>2. dir \in Gen \cup {0} /\ DOMAIN rows = Gen
    BY DEF StoreSafe, StoreTypeOK
  <2>3. CASE handle[u] # dir
    <3>1. work[u] \in purged
      BY <1>1, <2>3 DEF StoreSafe, StoreInv
    <3>2. dir # 0 => rows'[dir] = rows[dir]
      BY <1>8, <2>2, <2>3
    <3>3. InChat' = InChat
      BY <1>8, <3>2 DEF InChat
    <3> QED  BY <1>2, <1>8, <2>1, <3>1, <3>3
  <2>4. CASE handle[u] = dir
    <3>1. dir # 0 /\ rows'[dir] = w /\ rows[dir] = r
      BY <1>3, <1>4, <1>8, <2>2, <2>4 DEF Gen
    <3>2. work[u] # Old
      BY <1>2
    <3>3. InChat \subseteq InChat' /\ work[u] \in InChat'
      BY <1>6, <1>8, <3>1, <3>2 DEF InChat
    <3> QED  BY <1>2, <1>8, <2>1, <3>3
  <2> QED  BY <2>3, <2>4
<1> QED  BY <1>1, <1>5, <1>7, <1>8, <1>9, <1>10, Closing

LEMMA Reading ==
    ASSUME StoreSafe, NEW u \in User, ReadRows(u)
    PROVE  StoreSafe' /\ InChat' = InChat
<1>1. HasOpen(u)
  BY DEF ReadRows, HasOpen
<1>2. PICK r, d : r = rows[handle[u]] /\ d = Decrypted(r)
  OBVIOUS
<1>3. /\ handle[u] \in Gen /\ Consecutive(r) /\ \A k \in DOMAIN r : r[k] \in Row
  BY <1>1, <1>2, OpenFiles
<1>4. /\ Consecutive(d) /\ \A k \in DOMAIN d : d[k] \in Row
      /\ {d[k] : k \in DOMAIN d} = {r[k] : k \in DOMAIN r} \ {Old}
  <2>1. Consecutive(d)
    BY <1>2, <1>3, ReadDrops
  <2>2. \A k \in DOMAIN d : d[k] \in Msg
    BY <1>2, <1>3, ReadableRows
  <2>3. {d[k] : k \in DOMAIN d} = {r[k] : k \in DOMAIN r} \ {Old}
    BY <1>2, <1>3, ReadableRows
  <2> QED  BY <2>1, <2>2, <2>3 DEF Row
<1>5. /\ rows' = [rows EXCEPT ![handle[u]] = d] /\ Close(u)
      /\ step' = [step EXCEPT ![u] = "idle"]
      /\ UNCHANGED <<gen, dir, work, counter, stored, purged>>
  BY <1>2 DEF ReadRows
<1>6. InChat' = InChat
  <2>1. dir \in Gen \cup {0} /\ DOMAIN rows = Gen
    BY DEF StoreSafe, StoreTypeOK
  <2>2. CASE handle[u] # dir
    <3>1. dir # 0 => rows'[dir] = rows[dir]
      BY <1>5, <2>1, <2>2
    <3> QED  BY <1>5, <3>1 DEF InChat
  <2>3. CASE handle[u] = dir
    <3>1. dir # 0 /\ rows'[dir] = d /\ rows[dir] = r
      BY <1>2, <1>3, <1>5, <2>1, <2>3 DEF Gen
    <3> QED  BY <1>4, <1>5, <3>1 DEF InChat
  <2> QED  BY <2>2, <2>3
<1>7. counter' \in [User -> Nat] /\ \A v \in User \ {u} : counter'[v] = counter[v]
  BY <1>5 DEF StoreSafe, StoreTypeOK
<1>8. stored' \subseteq InChat' \cup purged /\ stored' \subseteq Msg
  BY <1>5, <1>6 DEF StoreSafe, StoredUntilPurged, StoreTypeOK
<1> QED  BY <1>1, <1>4, <1>5, <1>6, <1>7, <1>8, Closing

LEMMA Removing ==
    ASSUME StoreSafe, RemoveDir
    PROVE  StoreSafe' /\ InChat' = {}
<1>1. /\ dir' = 0 /\ rows' = [g \in Gen |-> IF lock[g] = None THEN NoRows ELSE rows[g]]
      /\ purged' = (purged \cup InChat) \cup BeingStored
      /\ UNCHANGED <<gen, lock, step, handle, work, counter, stored>>
  BY DEF RemoveDir
<1>2. InChat \subseteq Msg /\ BeingStored \subseteq Msg
  <2>1. InChat \subseteq Msg
    BY DEF StoreSafe, StoreTypeOK, InChat
  <2>2. BeingStored \subseteq Msg
    BY DEF StoreSafe, StoreInv, BeingStored
  <2> QED  BY <2>1, <2>2
<1>3. \A g \in Gen : rows'[g] = NoRows \/ rows'[g] = rows[g]
  BY <1>1
<1>4. StoreTypeOK'
  <2>1. \A g \in Gen : /\ DOMAIN rows'[g] \subseteq Nat
                       /\ \A k \in DOMAIN rows'[g] : rows'[g][k] \in Msg \cup {Old}
    BY <1>3, NoRowsFollow DEF StoreSafe, StoreTypeOK
  <2>2. DOMAIN rows' = Gen /\ purged' \subseteq Msg
    BY <1>1, <1>2 DEF StoreSafe, StoreTypeOK
  <2> QED  BY <1>1, <2>1, <2>2 DEF StoreSafe, StoreTypeOK
<1>5. \A g \in Gen : Consecutive(rows'[g]) /\ (g > gen' => rows'[g] = NoRows)
  BY <1>1, <1>3, NoRowsFollow DEF StoreSafe, StoreInv
<1>6. ASSUME NEW v \in User
      PROVE  /\ HasOpen(v)' => handle'[v] \in 1 .. gen' /\ lock'[handle'[v]] = v
             /\ step'[v] \in {"store", "count", "insert"} => work'[v] \in Msg
             /\ step'[v] = "insert" => counter'[v] = NextKey(rows'[handle'[v]])
             /\ step'[v] \in {"count", "insert"} /\ handle'[v] # dir' => work'[v] \in purged'
  <2>1. HasOpen(v) => handle[v] \in Gen /\ lock[handle[v]] = v
    BY OpenFiles DEF StoreSafe, StoreInv
  <2>2. HasOpen(v) => rows'[handle[v]] = rows[handle[v]]
    BY <1>1, <2>1
  <2>3. step[v] \in {"count", "insert"} => work[v] \in purged' /\ HasOpen(v)
    BY <1>1 DEF BeingStored, HasOpen
  <2> QED  BY <1>1, <2>1, <2>2, <2>3 DEF StoreSafe, StoreInv, HasOpen
<1>7. StoreInv'
  BY <1>5, <1>6 DEF StoreInv
<1>8. InChat' = {}
  BY <1>1 DEF InChat
<1>9. StoredUntilPurged'
  BY <1>1 DEF StoreSafe, StoredUntilPurged
<1> QED  BY <1>4, <1>7, <1>8, <1>9 DEF StoreSafe

(* The types, the order of the rows and what sled's lock protects hold       *)
(* together over every step of the threads: insert_message_stored uses the   *)
(* key find_counter returned only while it is still the next one.            *)
THEOREM StoreInvariance == StoreSpec => []StoreSafe
<1>1. StoreSafe /\ [StoreNext]_store => StoreSafe'
  <2> SUFFICES ASSUME StoreSafe, [StoreNext]_store PROVE StoreSafe'
    OBVIOUS
  <2>1. ASSUME NEW u \in User, StartHistory(u) \/ StoreFails(u) \/ HistoryFails(u)
        PROVE  StoreSafe'
    <3>1. PICK s \in {"idle", "err", "load"} : step' = [step EXCEPT ![u] = s]
      BY <2>1 DEF StartHistory, StoreFails, HistoryFails
    <3>2. UNCHANGED <<gen, dir, rows, lock, handle, work, counter, stored, purged>>
      BY <2>1 DEF StartHistory, StoreFails, HistoryFails
    <3>3. work[u] \in Msg \cup {None} /\ work' = [work EXCEPT ![u] = work[u]]
      BY <3>2 DEF StoreSafe, StoreTypeOK
    <3> QED  BY <3>1, <3>2, <3>3, Aside
  <2>2. ASSUME NEW u \in User, NEW m \in Msg, StartStore(u, m) PROVE StoreSafe'
    BY <2>2, Aside DEF StartStore
  <2>3. ASSUME NEW u \in User, Done(u) PROVE StoreSafe'
    BY <2>3, Aside DEF Done
  <2>4. ASSUME NEW u \in User, OpenToStore(u) \/ OpenToRead(u) PROVE StoreSafe'
    <3>1. step[u] = "store" => work[u] \in Msg
      BY DEF StoreSafe, StoreInv
    <3> QED  BY <2>4, <3>1, Opening DEF OpenToStore, OpenToRead
  <2>5. ASSUME NEW u \in User, FindCounter(u) \/ Insert(u) \/ ReadRows(u) PROVE StoreSafe'
    BY <2>5, Counting, Inserting, Reading
  <2>6. CASE RemoveDir
    BY <2>6, Removing
  <2>7. CASE UNCHANGED store
    <3>1. UNCHANGED <<gen, dir, rows, lock, step, handle, work, counter, stored, purged>>
      BY <2>7 DEF store
    <3>2. StoreTypeOK'
      BY <3>1 DEF StoreSafe, StoreTypeOK
    <3>3. StoreInv'
      BY <3>1 DEF StoreSafe, StoreInv, HasOpen
    <3>4. StoredUntilPurged'
      BY <3>1 DEF StoreSafe, StoredUntilPurged, InChat
    <3> QED  BY <3>2, <3>3, <3>4 DEF StoreSafe
  <2> QED  BY <2>1, <2>2, <2>3, <2>4, <2>5, <2>6, <2>7 DEF StoreNext
<1> QED  BY <1>1, StoreStart, PTL DEF StoreSpec

(* Whatever a message that insert_message_stored reported as stored meets    *)
(* (other threads that store, reading the history, a purge that removes the  *)
(* directory under an open handle), it is in chat.db until it is purged.     *)
THEOREM NothingOverwritten == StoreSpec => []StoredUntilPurged
BY StoreInvariance, PTL DEF StoreSafe

-----------------------------------------------------------------------------
(* chat.db implements the log: an insert into the present directory appends, *)
(* reading it drops the row of the earlier identity or nothing, removing it  *)
(* clears the log, and no other step changes the rows it shows.              *)
LEMMA LogStart == StoreInit => Log!Init
<1> SUFFICES ASSUME StoreInit PROVE ChatRows = <<Old>>
  BY DEF Log!Init
<1>1. PICK r : r = rows[dir] /\ r = [k \in {0} |-> Old] /\ dir = 1
  BY DEF StoreInit, Gen
<1>2. Spans(r, 0, 1) /\ r[0] = Old /\ \A k \in DOMAIN r : r[k] \in {Old}
  BY <1>1 DEF Spans
<1>3. /\ InOrder(r) \in Seq({Old}) /\ Len(InOrder(r)) = 1
      /\ \A i \in 1 .. 1 : 0 + i - 1 \in DOMAIN r /\ InOrder(r)[i] = r[0 + i - 1]
  <2>1. PICK a, n : a = 0 /\ n = 1
    OBVIOUS
  <2>2. /\ InOrder(r) \in Seq({Old}) /\ Len(InOrder(r)) = n
        /\ \A i \in 1 .. n : a + i - 1 \in DOMAIN r /\ InOrder(r)[i] = r[a + i - 1]
    <3>1. Spans(r, a, n) /\ \A k \in DOMAIN r : r[k] \in {Old}
      BY <1>2, <2>1
    <3> QED  BY <3>1, RowsInOrder
  <2> QED  BY <2>1, <2>2
<1>4. InOrder(r)[1] = Old
  BY <1>2, <1>3
<1>5. InOrder(r) = <<Old>>
  BY <1>3, <1>4
<1> QED  BY <1>1, <1>5 DEF ChatRows

LEMMA LogKept ==
    ASSUME dir' = dir, dir # 0 => rows'[dir] = rows[dir]
    PROVE  ChatRows' = ChatRows
BY DEF ChatRows

LEMMA LogStep ==
    ASSUME StoreSafe, StoreNext
    PROVE  Log!Next \/ ChatRows' = ChatRows
<1>1. dir \in {0, gen} /\ gen \in Gen /\ DOMAIN rows = Gen
  BY DEF StoreSafe, StoreTypeOK
<1>2. CASE RemoveDir
  <2>1. dir' = 0
    BY <1>2 DEF RemoveDir
  <2> QED  BY <2>1 DEF ChatRows, Log!Next, Log!Clear
<1>3. ASSUME NEW u \in User, Insert(u) PROVE Log!Next \/ ChatRows' = ChatRows
  <2>1. step[u] = "insert" /\ HasOpen(u)
    BY <1>3 DEF Insert, HasOpen
  <2>2. work[u] \in Msg /\ counter[u] = NextKey(rows[handle[u]])
    BY <2>1 DEF StoreSafe, StoreInv
  <2>3. PICK r, w : r = rows[handle[u]] /\ w = WithRow(r, counter[u], work[u])
    OBVIOUS
  <2>4. handle[u] \in Gen /\ Consecutive(r) /\ \A k \in DOMAIN r : r[k] \in Row
    BY <2>1, <2>3, OpenFiles
  <2>5. InOrder(w) = Append(InOrder(r), work[u])
    BY <2>2, <2>3, <2>4, InsertAppends
  <2>6. rows' = [rows EXCEPT ![handle[u]] = w] /\ dir' = dir
    BY <1>3, <2>3 DEF Insert
  <2>7. CASE handle[u] = dir
    <3>1. dir # 0 /\ rows'[dir] = w
      BY <1>1, <2>4, <2>6, <2>7 DEF Gen
    <3>2. ChatRows' = Append(ChatRows, work[u])
      BY <2>3, <2>5, <2>6, <2>7, <3>1 DEF ChatRows
    <3> QED  BY <2>2, <3>2 DEF Log!Next, Log!AppendMsg
  <2>8. CASE handle[u] # dir
    BY <1>1, <2>6, <2>8, LogKept
  <2> QED  BY <2>7, <2>8
<1>4. ASSUME NEW u \in User, ReadRows(u) PROVE Log!Next \/ ChatRows' = ChatRows
  <2>1. HasOpen(u)
    BY <1>4 DEF ReadRows, HasOpen
  <2>2. PICK r, d : r = rows[handle[u]] /\ d = Decrypted(r)
    OBVIOUS
  <2>3. handle[u] \in Gen /\ Consecutive(r) /\ \A k \in DOMAIN r : r[k] \in Row
    BY <2>1, <2>2, OpenFiles
  <2>4. InOrder(d) = InOrder(r) \/ Dropped(InOrder(r), InOrder(d))
    BY <2>2, <2>3, ReadDrops DEF Readable
  <2>5. rows' = [rows EXCEPT ![handle[u]] = d] /\ dir' = dir
    BY <1>4, <2>2 DEF ReadRows
  <2>6. CASE handle[u] = dir
    <3>1. dir # 0 /\ rows'[dir] = d
      BY <1>1, <2>3, <2>5, <2>6 DEF Gen
    <3>2. ChatRows' = InOrder(d) /\ ChatRows = InOrder(r)
      BY <2>2, <2>5, <2>6, <3>1 DEF ChatRows
    <3> QED  BY <2>4, <3>2 DEF Dropped, Log!Next, Log!DropOld
  <2>7. CASE handle[u] # dir
    BY <1>1, <2>5, <2>7, LogKept
  <2> QED  BY <2>6, <2>7
<1>5. ASSUME NEW u \in User, OpenToStore(u) \/ OpenToRead(u) PROVE ChatRows' = ChatRows
  <2>1. /\ dir' = dir \/ (dir = 0 /\ gen < MaxGen /\ dir' = gen + 1)
        /\ rows' = rows
    BY <1>5 DEF OpenToStore, OpenToRead, SledOpen
  <2>2. CASE dir' = dir
    BY <2>1, <2>2, LogKept
  <2>3. CASE dir = 0 /\ gen < MaxGen /\ dir' = gen + 1
    <3>1. gen + 1 \in Gen /\ gen + 1 > gen /\ gen + 1 # 0
      BY <1>1, <2>3 DEF Gen
    <3>2. rows'[dir'] = NoRows
      BY <2>1, <2>3, <3>1 DEF StoreSafe, StoreInv
    <3>3. ChatRows' = <<>>
      BY <2>3, <3>1, <3>2, NoRowsFollow DEF ChatRows
    <3> QED  BY <2>3, <3>3 DEF ChatRows
  <2> QED  BY <2>1, <2>2, <2>3
<1>6. ASSUME NEW u \in User,
             \/ StartHistory(u) \/ (\E m \in Msg : StartStore(u, m)) \/ StoreFails(u)
             \/ FindCounter(u) \/ Done(u) \/ HistoryFails(u)
      PROVE  ChatRows' = ChatRows
  <2>1. dir' = dir /\ rows' = rows
    BY <1>6 DEF StartHistory, StartStore, StoreFails, FindCounter, Done, HistoryFails
  <2> QED  BY <2>1, LogKept
<1> QED  BY <1>2, <1>3, <1>4, <1>5, <1>6 DEF StoreNext

(* The separate steps of the threads amount to appends at the end of one log *)
(* that only a purge empties.                                                *)
THEOREM StoreImplementsLog == StoreSpec => ImplementsLog
<1>1. StoreSafe /\ [StoreNext]_store => [Log!Next]_ChatRows
  <2>1. CASE UNCHANGED store
    BY <2>1 DEF store, ChatRows
  <2> QED  BY <2>1, LogStep
<1> QED  BY <1>1, LogStart, StoreInvariance, PTL DEF StoreSpec, ImplementsLog, Log!Spec
=============================================================================
