-------------------------------- MODULE Entities --------------------------------
(***************************************************************************)
(* Publishers, subscriptions, clients, servers (rmw services) and wait     *)
(* sets of one node, from rmw_create_* to rmw_destroy_*.                   *)
(*                                                                         *)
(* A creation acquires one thing after the other, and any step may fail.   *)
(* What there is then is released by up to three pieces of code, each with *)
(* its own view of what that is: cleanup() of the class, called by the     *)
(* catch block of its constructor and by its destructor;                   *)
(* RmwAllocateFree::create, which frees the memory of an object whose      *)
(* constructor threw; and clean_*, called by rmw_create_* when it fails    *)
(* and by rmw_destroy_*.  What is acquired is in one of                    *)
(*  - the process: what the code allocates and frees itself;               *)
(*  - the participant: the DDS entities, which the code never deletes one  *)
(*    by one but with delete_contained_entities when the node goes;        *)
(*  - the node's graph: the two discovery caches, which know an endpoint   *)
(*    by the GUID of its handle.  Nothing in the code says that different  *)
(*    handles have different GUIDs, see NodeGraph.                         *)
(* Any number of threads create and destroy entities, each entity by one   *)
(* thread at a time.  The requester and replier of the generated type      *)
(* support own their DataReader and DataWriter.                            *)
(***************************************************************************)
EXTENDS Naturals, Sequences

CONSTANTS
    Publisher, Subscription, Client, Server, WaitSet,
    Guid,
    GuidOf   \* what get_repoid gives for the handles of an entity's writer and reader

Rpc == Client \cup Server
Entity == Publisher \cup Subscription \cup Rpc \cup WaitSet

Graph == {"pub", "sub"}

ASSUME DistinctEntities ==
    /\ Publisher \cap (Subscription \cup Rpc \cup WaitSet) = {}
    /\ Subscription \cap (Rpc \cup WaitSet) = {}
    /\ Client \cap (Server \cup WaitSet) = {}
    /\ Server \cap WaitSet = {}

ASSUME GuidOfType == GuidOf \in [Entity -> [Graph -> Guid]]

VARIABLES
    phase,    \* where the life of each entity is
    done,     \* how many steps of its creation have been taken
    held,     \* what has been acquired for it and not released
    graph,    \* the GUIDs in the caches of writers ("pub") and of readers ("sub")
    node,     \* whether the node is there
    touched   \* an unrolling has used memory that was never initialized

vars == <<phase, done, held, graph, node, touched>>

\* The steps of a creation.  "object" is the memory RmwAllocateFree gets for the wrapper;
\* "factory" the DDS Publisher or Subscriber (both for Rpc); "rpc" the requester or
\* replier; "writer" that it hands out a writer; "pub" and "sub" that the entity is
\* recorded in the graph.
TopicBased == <<"handle", "object", "topic">>
ServiceBased == <<"handle", "object", "factory">>

\* Fault: the listener is declared, and so initialised, before the topic.
PublisherPlanListenerFirst ==
    <<"handle", "object", "listener", "topic", "factory", "endpoint", "pub">>

PublisherPlan == TopicBased \o <<"listener", "factory", "endpoint", "pub">>
SubscriptionPlan == TopicBased \o <<"listener", "factory", "endpoint", "condition", "sub">>
RpcPlan == ServiceBased \o <<"rpc", "condition", "writer", "sub", "pub">>
WaitSetPlan ==
    <<"handle", "info", "wait_set", "active_memory", "attached_memory", "active", "attached">>

Plan == [e \in Entity |->
    CASE e \in Publisher    -> PublisherPlan
      [] e \in Subscription -> SubscriptionPlan
      [] e \in Rpc          -> RpcPlan
      [] e \in WaitSet      -> WaitSetPlan]

Steps == [e \in Entity |-> {Plan[e][i] : i \in 1 .. Len(Plan[e])}]

Entries == [e \in Entity |-> Steps[e] \cap Graph]

\* What delete_contained_entities deletes.
Contained == {"topic", "factory", "endpoint", "condition"}

Init ==
    /\ phase = [e \in Entity |-> "none"]
    /\ done = [e \in Entity |-> 0]
    /\ held = [e \in Entity |-> {}]
    /\ graph = [k \in Graph |-> {}]
    /\ node = "up"
    /\ touched = FALSE

-------------------------------------------------------------------------------
(* Creation *)

\* The node must be there, except for a wait set, which belongs to no node.
Create(e) ==
    /\ phase[e] = "none"
    /\ node = "up" \/ e \in WaitSet
    /\ phase' = [phase EXCEPT ![e] = "creating"]
    /\ UNCHANGED <<done, held, graph, node, touched>>

Step(e) == Plan[e][done[e] + 1]

CanGoOn(e) == phase[e] = "creating" /\ done[e] < Len(Plan[e])

Take(e) ==
    /\ CanGoOn(e)
    /\ held' = [held EXCEPT ![e] = @ \cup {Step(e)}]
    /\ done' = [done EXCEPT ![e] = @ + 1]
    /\ UNCHANGED <<phase, node, touched>>

Acquire(e) == Take(e) /\ Step(e) \notin Graph /\ UNCHANGED graph

\* add_pub, add_sub: a GUID that is there already is there once.
Register(e, k) ==
    /\ Take(e) /\ Step(e) = k
    /\ graph' = [graph EXCEPT ![k] = @ \cup {GuidOf[e][k]}]

\* Fault: the entity is returned before it is entered in the graph.
CreatedUnseen(e) ==
    /\ phase[e] = "creating"
    /\ Steps[e] \ Graph \subseteq held[e]
    /\ phase' = [phase EXCEPT ![e] = "open"]
    /\ UNCHANGED <<done, held, graph, node, touched>>

\* rmw_create_* returns the entity.
Created(e) ==
    /\ phase[e] = "creating" /\ done[e] = Len(Plan[e])
    /\ phase' = [phase EXCEPT ![e] = "open"]
    /\ UNCHANGED <<done, held, graph, node, touched>>

-------------------------------------------------------------------------------
(* Failure *)

\* add_pub and add_sub do not fail; what a client or a server asks of its reader and
\* writer before each of them, in add_to, does.
CanFail(e) == CanGoOn(e) /\ (Step(e) \in Graph => e \in Rpc)

\* The members that throw while they are initialised, before the constructor's try block.
Initialised(e) == IF e \in Rpc THEN {"factory"} ELSE {"topic"}

\* Who catches the failure of the next step: rmw_create_* if no constructor is running,
\* RmwAllocateFree::create if it has not reached its try block, else its catch block.
Catcher(e) ==
    CASE Step(e) \in {"handle", "object"} \cup Graph -> "rmw_create"
      [] Step(e) \in Initialised(e)                 -> "raf_create"
      [] OTHER                                      -> "constructor"

Unwinding == {"constructor", "raf_create", "rmw_create"}

\* Fault: the failure of a step goes unnoticed.
FailUnnoticed(e) ==
    /\ CanFail(e) /\ e \notin WaitSet
    /\ done' = [done EXCEPT ![e] = @ + 1]
    /\ UNCHANGED <<phase, held, graph, node, touched>>

Fail(e) ==
    /\ CanFail(e) /\ e \notin WaitSet
    /\ phase' = [phase EXCEPT ![e] = Catcher(e)]
    /\ UNCHANGED <<done, held, graph, node, touched>>

\* What cleanup() of the class destroys.  It gives up its references to DDS entities as
\* well, but only a client or a server deletes one, its read condition, and goes on if
\* that fails.
Parts(e) == IF e \in Rpc THEN {"rpc", "writer", "condition"} ELSE {"listener"}

CleanedUp(e) == {held[e] \ Parts(e), held[e] \ (Parts(e) \ {"condition"})}

Unwind(e, catcher, next, left) ==
    /\ phase[e] = catcher
    /\ \E h \in left : held' = [held EXCEPT ![e] = h]
    /\ phase' = [phase EXCEPT ![e] = next]
    /\ UNCHANGED <<done, graph, node, touched>>

\* The catch block of the constructor cleans up and throws on.
ConstructorCatches(e) == Unwind(e, "constructor", "raf_create", CleanedUp(e))

\* RmwAllocateFree::create frees the memory of an object whose constructor threw.
RafCatches(e) == Unwind(e, "raf_create", "rmw_create", {held[e] \ {"object"}})

\* The handle's data points to the wrapper once its constructor has returned.
DataSet(e) == done[e] < Len(Plan[e]) => Step(e) \in Graph

\* clean_publisher, clean_subscription, clean_client destroy the wrapper if there is one
\* and free the handle; the body of clean_service is a comment; destroy_wait_set.
Discarded(e) ==
    CASE e \in WaitSet -> {{}}
      [] e \in Server  -> {held[e]}
      [] OTHER         -> IF DataSet(e) THEN {h \ {"object", "handle"} : h \in CleanedUp(e)}
                                        ELSE {held[e] \ {"handle"}}

\* The end of rmw_create_* after a failure.
CreateCatches(e) == Unwind(e, "rmw_create", "failed", Discarded(e))

\* The block at the label fail reads the pointers of the wait set's info, destroys what
\* they point to and frees it, whether or not they were set and the objects constructed.
GotoFail(e) ==
    /\ CanFail(e) /\ e \in WaitSet
    /\ held' = [held EXCEPT ![e] = {}]
    /\ phase' = [phase EXCEPT ![e] = "failed"]
    /\ touched' \in {touched, touched \/ "info" \in held[e]}
    /\ UNCHANGED <<done, graph, node>>

-------------------------------------------------------------------------------
(* Destruction *)

Destroy(e) ==
    /\ phase[e] = "open"
    /\ phase' = [phase EXCEPT ![e] = "closing"]
    /\ UNCHANGED <<done, held, graph, node, touched>>

\* remove_pub, then remove_sub: the GUID goes, whoever else is recorded under it.
Unregister(e, k) ==
    /\ phase[e] = "closing"
    /\ k \in held[e] \cap Graph
    /\ k = "sub" => "pub" \notin held[e]
    /\ held' = [held EXCEPT ![e] = @ \ {k}]
    /\ graph' = [graph EXCEPT ![k] = @ \ {GuidOf[e][k]}]
    /\ UNCHANGED <<phase, done, node, touched>>

\* Fault: the wrapper is destroyed before its entries are taken out of the graph.
CleanEarly(e) ==
    /\ phase[e] = "closing"
    /\ \E h \in Discarded(e) : held' = [held EXCEPT ![e] = h]
    /\ phase' = [phase EXCEPT ![e] = IF held[e] \cap Graph = {} THEN "closed" ELSE "closing"]
    /\ UNCHANGED <<done, graph, node, touched>>

\* The end of rmw_destroy_*.
Clean(e) == held[e] \cap Graph = {} /\ Unwind(e, "closing", "closed", Discarded(e))

\* OpenDDSNode::cleanup, once the application has destroyed the node's entities: it
\* deletes what the participant contains, only notes if that fails, and frees the caches.
DestroyNode ==
    /\ node = "up"
    /\ \A e \in Entity \ WaitSet : phase[e] \in {"none", "closed", "failed"}
    /\ node' = "gone"
    /\ \E deleted \in {Contained, {}} :
        held' = [e \in Entity |->
            IF e \in WaitSet THEN held[e] ELSE held[e] \ (deleted \cup Graph)]
    /\ graph' = [k \in Graph |-> {}]
    /\ UNCHANGED <<phase, done, touched>>

-------------------------------------------------------------------------------
Creation(e) ==
    \/ Create(e) \/ Acquire(e) \/ Created(e)
    \/ \E k \in Graph : Register(e, k)

Failure(e) ==
    \/ Fail(e) \/ ConstructorCatches(e) \/ RafCatches(e) \/ CreateCatches(e)
    \/ GotoFail(e)

Destruction(e) ==
    \/ Destroy(e) \/ Clean(e)
    \/ \E k \in Graph : Unregister(e, k)

Next == (\E e \in Entity : Creation(e) \/ Failure(e) \/ Destruction(e)) \/ DestroyNode

Spec == Init /\ [][Next]_vars

-------------------------------------------------------------------------------
(* Properties *)

Phase == {"none", "creating", "open", "closing", "closed", "failed"} \cup Unwinding

\* Every variable keeps its type, and a creation that goes on has everything its steps
\* have acquired.
TypeOK ==
    /\ phase \in [Entity -> Phase]
    /\ done \in [Entity -> Nat]
    /\ held \in [Entity -> SUBSET UNION {Steps[e] : e \in Entity}]
    /\ graph \in [Graph -> SUBSET Guid]
    /\ node \in {"up", "gone"}
    /\ touched \in BOOLEAN
    /\ \A e \in Entity :
        /\ done[e] \in 0 .. Len(Plan[e])
        /\ held[e] \subseteq Steps[e]
        /\ phase[e] \in {"none", "creating"} => held[e] = {Plan[e][i] : i \in 1 .. done[e]}

\* A client whose add_to threw between its two registrations keeps the entry of a reader
\* that is gone.
HalfRegistered(e) == e \in Client /\ phase[e] = "failed" /\ held[e] \cap Graph = {"sub"}

\* The DDS endpoints of the entity exist: its peers see them.
InDomain(e) == {"endpoint", "rpc"} \cap held[e] # {}

\* The node's own graph shows only what its peers can see too: a GUID in it was recorded
\* for an entity whose endpoint exists and whose object has not been freed, through
\* creation, failure and destruction and with GUIDs that are shared, but for a client
\* that failed half-way through add_to.
GraphTruthful ==
    \A k \in Graph : \A g \in graph[k] : \E e \in Entity :
        /\ k \in held[e] /\ GuidOf[e][k] = g
        /\ \/ InDomain(e) /\ "object" \in held[e]
           \/ HalfRegistered(e)

\* Memory is freed from the inside out, whichever of the three clean-ups does it: the
\* memory of an object never goes while it owns a listener, requester or replier, nor the
\* handle while it has an object, for nobody could free those then; and in the end, of a
\* failure at any step or of a destruction, the handle is gone.  A service's is not.
FreedInsideOut ==
    \A e \in Entity \ WaitSet :
        /\ "object" \notin held[e] => held[e] \cap {"listener", "rpc"} = {}
        /\ "handle" \notin held[e] => "object" \notin held[e]
        /\ phase[e] \in {"closed", "failed"} /\ e \notin Server => "handle" \notin held[e]

\* The entities whose GUIDs no other entity has in the same cache.
Unshared ==
    {e \in Entity : \A f \in Entity \ {e} : \A k \in Entries[e] \cap Entries[f] :
        GuidOf[e][k] # GuidOf[f][k]}

\* Seen through its graph, a node is a registry of what has been created on it and not
\* destroyed: an entity is returned with all its entries, which stay until its destruction
\* begins and are gone when it ends; a failed creation has never shown itself whole; a
\* client's or service's writer is never there without its reader (add_to, remove_from).
\* This is so for the entities whose GUIDs are their own, whatever the others do.
Registry == INSTANCE Registry WITH
    Entity <- Unshared,
    life <- [e \in Unshared |-> IF phase[e] \in Unwinding THEN "creating" ELSE phase[e]],
    shown <- [e \in Unshared |-> {k \in Entries[e] : GuidOf[e][k] \in graph[k]}]

ImplementsRegistry == Registry!RegistrySpec

\* What the comment at wait_set.cpp:31 says: an error results in the unrolling of what has
\* been done so far.
UnrollsOnlyWhatWasDone == ~touched

===============================================================================
