------------------------------ MODULE MCEntities ------------------------------
(* Entities with GUIDs of their own, except those in Alike, whose handles all have     *)
(* the same one.                                                                       *)
EXTENDS Entities

CONSTANTS Alike, unknown

MCGuid == Entity \cup {unknown}
MCGuidOf == [e \in Entity |-> [k \in Graph |-> IF e \in Alike THEN unknown ELSE e]]

===============================================================================
