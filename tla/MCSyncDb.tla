------------------------------ MODULE MCSyncDb ------------------------------
(* The bridge on a pool of two or three connections.                         *)
EXTENDS SyncDb, TLC

ConnSymmetry == Permutations(Conns)
=============================================================================
