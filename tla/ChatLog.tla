------------------------------ MODULE ChatLog -------------------------------
(***************************************************************************)
(* What the chat store of one peer promises the rest of the client: an     *)
(* append-only log of messages.  A message is added at the end or not at   *)
(* all; the log is emptied only as a whole; the messages of an earlier     *)
(* identity, which come first and which the storage key cannot open, may   *)
(* be dropped.                                                             *)
(***************************************************************************)
EXTENDS Integers, Sequences

CONSTANTS Msg, Old

VARIABLE log

Init == log = <<Old>>

AppendMsg == \E m \in Msg : log' = Append(log, m)

Clear == log' = <<>>

DropOld == \E n \in 1 .. Len(log) :
    /\ \A i \in 1 .. Len(log) : log[i] = Old <=> i <= n
    /\ log' = SubSeq(log, n + 1, Len(log))

Next == AppendMsg \/ Clear \/ DropOld

Spec == Init /\ [][Next]_log
=============================================================================
