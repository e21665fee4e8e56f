--------------------------- MODULE MCConnections ----------------------------
(***************************************************************************)
(* Connections for TLC.  Tasks are interchangeable.                        *)
(***************************************************************************)
EXTENDS Connections, TLC

TaskSymmetry == Permutations(Task)

(* The tasks by themselves.  No task reads an intent, and PunchHole events   *)
(* arrive with or without one, so leaving the intents empty loses no         *)
(* behaviour of the tasks.                                                   *)
TaskSpec == Init /\ [][Next /\ UNCHANGED intents]_vars /\ Fairness
=============================================================================
