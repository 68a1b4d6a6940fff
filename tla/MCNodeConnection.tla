-------------------------- MODULE MCNodeConnection --------------------------
(***************************************************************************)
(* Small instances of NodeConnection.                                      *)
(***************************************************************************)
EXTENDS NodeConnection

CONSTANTS u, r    \* a caller under nodesInfoMtx, and one without it
=============================================================================
