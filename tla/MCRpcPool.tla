----------------------------- MODULE MCRpcPool ------------------------------
(* A pool of three nodes for TLC.                                           *)
EXTENDS RpcClientPool, TLC

CONSTANTS n1, n2, n3

ThreeNodes == (0 :> n1) @@ (1 :> n2) @@ (2 :> n3)

=============================================================================
