------------------------------- MODULE MCP2P --------------------------------
(***************************************************************************)
(* P2PSession for TLC.  The timestamps of the punches are only compared    *)
(* for equality, so they are interchangeable.                              *)
(***************************************************************************)
EXTENDS P2PSession, TLC

PunchSymmetry == Permutations(Punch)
=============================================================================
