-------------------------- MODULE MCDiscoveryListener --------------------------
(* A participant with two endpoints, one with a single endpoint, and two callers. *)
EXTENDS DiscoveryListener, TLC

CONSTANTS e1, e2, e3, p1, p2, t1, t2

MCEndpoint == {e1, e2, e3}
MCParticipantOf == (e1 :> p1) @@ (e2 :> p1) @@ (e3 :> p2)

===============================================================================
