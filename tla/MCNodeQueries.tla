----------------------------- MODULE MCNodeQueries -----------------------------
(* A remote node with a name of its own and one with this node's name, a participant with  *)
(* a name but no namespace, and one without a name; an endpoint of this node and one of a  *)
(* remote node.                                                                            *)
EXTENDS NodeQueries, TLC

CONSTANTS p1, p2, p3, p4, e1, e2, n1, n2

MCNameOf == (Self :> n1) @@ (p1 :> n2) @@ (p2 :> n1) @@ (p3 :> NoName) @@ (p4 :> NoName)
MCOwnerOf == (e1 :> Self) @@ (e2 :> p1)

================================================================================
