-------------------------------- MODULE Registry --------------------------------
(***************************************************************************)
(* What the graph of a node promises of the entities created on it: one    *)
(* that rmw_create_* has returned has all its entries there until its      *)
(* destruction begins, one that has been destroyed has none, and a         *)
(* creation that fails has not shown everything: in fact nothing, unless   *)
(* the entity has two entries, of which the reader's comes first and goes  *)
(* last.  Entities, which shows how entities come and go otherwise,        *)
(* implements it.                                                          *)
(***************************************************************************)
CONSTANTS
    Entity,
    Entries   \* the entries of an entity, "pub" and "sub"

VARIABLES
    life,        \* where the life of each entity is
    shown,       \* its entries in the graph
    node         \* whether the node is there

registryVars == <<life, shown, node>>

RegistryInit ==
    /\ life = [e \in Entity |-> "none"]
    /\ shown = [e \in Entity |-> {}]
    /\ node = "up"

Complete(e) == shown[e] = Entries[e]

Turn(e, here, next) ==
    /\ life[e] = here
    /\ life' = [life EXCEPT ![e] = next]
    /\ UNCHANGED <<shown, node>>

\* What has entries is a node's.
Begin(e) == Turn(e, "none", "creating") /\ (node = "up" \/ Entries[e] = {})

Show(e, k) ==
    /\ life[e] = "creating" /\ node = "up"
    /\ k = "pub" /\ "sub" \in Entries[e] => "sub" \in shown[e]
    /\ shown' = [shown EXCEPT ![e] = @ \cup {k}]
    /\ UNCHANGED <<life, node>>

Return(e) == Turn(e, "creating", "open") /\ Complete(e)

GiveUp(e) == Turn(e, "creating", "failed") /\ (shown[e] = {} \/ ~Complete(e))

Close(e) == Turn(e, "open", "closing") /\ Complete(e)

Hide(e, k) ==
    /\ life[e] = "closing" /\ node = "up"
    /\ k = "sub" => "pub" \notin shown[e]
    /\ shown' = [shown EXCEPT ![e] = @ \ {k}]
    /\ UNCHANGED <<life, node>>

Finish(e) == Turn(e, "closing", "closed") /\ shown[e] = {}

\* The node goes after its entities, and its graph with it.
EndNode ==
    /\ node = "up"
    /\ \A e \in Entity : Entries[e] # {} => life[e] \in {"none", "closed", "failed"}
    /\ node' = "gone"
    /\ shown' = [e \in Entity |-> {}]
    /\ UNCHANGED life

RegistryNext ==
    \/ \E e \in Entity :
        \/ Begin(e) \/ Return(e) \/ GiveUp(e) \/ Close(e) \/ Finish(e)
        \/ \E k \in Entries[e] : Show(e, k) \/ Hide(e, k)
    \/ EndNode

RegistrySpec == RegistryInit /\ [][RegistryNext]_registryVars

===============================================================================
