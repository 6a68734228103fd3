---------------------------- MODULE MCNodeLifecycle ----------------------------
(* Two contexts; two nodes of the one and one of the other.                            *)
EXTENDS NodeLifecycle, TLC

CONSTANTS c1, c2, n1, n2, n3

MCContextOf == (n1 :> c1) @@ (n2 :> c1) @@ (n3 :> c2)

===============================================================================
