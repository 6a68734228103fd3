------------------------------ MODULE NodeLifecycle ------------------------------
(***************************************************************************)
(* Contexts and nodes, from rmw_init and rmw_create_node to                *)
(* rmw_destroy_node, rmw_shutdown and rmw_context_fini.                    *)
(*                                                                         *)
(* The constructor of OpenDDSNode takes its steps one by one and any may   *)
(* fail; cleanup() then undoes them, as it does when the node is           *)
(* destroyed.  Once the listeners are installed OpenDDS calls them back    *)
(* from its own threads, and they use the node's listeners and its graph   *)
(* guard condition.  All contexts of the process share one participant     *)
(* factory, whose default QoS carries a node's name to its participant,    *)
(* and one service participant, which the end of any context shuts down.   *)
(*                                                                         *)
(* The callers keep to rmw: calls of rmw_create_node do not overlap each   *)
(* other, and rmw_shutdown does not overlap the creation or destruction of *)
(* a node of that context.  OpenDDS keeps to DDS: no callback of a         *)
(* participant runs once it has been deleted or shut down.                 *)
(***************************************************************************)

CONSTANTS
    Context,
    Node,
    NoNode,
    ContextOf

ASSUME ContextOfType == ContextOf \in [Node -> Context]
ASSUME NoNodeAssumption == NoNode \notin Node

Kind == {"pub", "sub"}

VARIABLES
    context,      \* "ended": rmw_shutdown has been called, impl is null
    pc,           \* where the life of each node is
    gc,           \* nodes with a guard condition
    listener,     \* the listeners each node has allocated
    participant,  \* the state of its DomainParticipant; an "orphan" is known to DDS only
    installed,    \* the built-in readers that have its listeners
    running,      \* the callbacks in progress
    defaultName,  \* whose name the factory's default participant QoS carries
    name          \* whose name the participant carries

vars == <<context, pc, gc, listener, participant, installed, running, defaultName, name>>

nodeVars == <<pc, gc, listener, participant, installed, running>>
nameVars == <<defaultName, name>>

\* The locations in the constructor, before each of its steps, and in cleanup().
Constructing == {"qos", "gc", "pub_listener", "sub_listener", "participant", "transport",
                 "install_pub", "install_sub"}
Cleaning == {"cleanup", "free_sub", "free_pub", "free_gc"}

Valid(n) == context[ContextOf[n]] = "valid"

Init ==
    /\ context = [c \in Context |-> "zero"]
    /\ pc = [n \in Node |-> "none"]
    /\ gc = {}
    /\ listener = [n \in Node |-> {}]
    /\ participant = [n \in Node |-> "none"]
    /\ installed = [n \in Node |-> {}]
    /\ running = [n \in Node |-> {}]
    /\ defaultName = NoNode
    /\ name = [n \in Node |-> NoNode]

-------------------------------------------------------------------------------
(* Contexts *)

\* rmw_init; if it fails the context stays zero-initialized.
InitContext(c) ==
    /\ context[c] = "zero"
    /\ context' = [context EXCEPT ![c] = "valid"]
    /\ UNCHANGED <<nodeVars, nameVars>>

\* rmw_shutdown: the destructor of the impl shuts the service participant down, and with
\* it every participant of the process.
ShutDown(c) ==
    /\ context[c] = "valid"
    /\ \A n \in Node : ContextOf[n] = c => pc[n] \notin Constructing \cup Cleaning
    /\ \A n \in Node : running[n] = {}
    /\ context' = [context EXCEPT ![c] = "ended"]
    /\ participant' =
        [n \in Node |-> IF participant[n] = "none" THEN "none" ELSE "shut"]
    /\ UNCHANGED <<pc, gc, listener, installed, running, nameVars>>

\* rmw_context_fini refuses a context that has not been shut down.
FiniContext(c) ==
    /\ context[c] = "ended"
    /\ context' = [context EXCEPT ![c] = "zero"]
    /\ UNCHANGED <<nodeVars, nameVars>>

-------------------------------------------------------------------------------
(* rmw_create_node *)

Goto(n, here, next) ==
    /\ pc[n] = here
    /\ pc' = [pc EXCEPT ![n] = next]

CreateNode(n) ==
    /\ Valid(n)
    /\ \A m \in Node : pc[m] \notin Constructing
    /\ Goto(n, "none", "qos")
    /\ UNCHANGED <<context, gc, listener, participant, installed, running, nameVars>>

\* Fault: the default QoS is set by the first node only.
SetDefaultQosOnce(n) ==
    /\ Goto(n, "qos", "gc")
    /\ defaultName' = IF defaultName = NoNode THEN n ELSE defaultName
    /\ UNCHANGED <<context, gc, listener, participant, installed, running, name>>

\* set_default_participant_qos: the factory keeps the name, also if the node fails.
SetDefaultQos(n) ==
    /\ Goto(n, "qos", "gc")
    /\ defaultName' = n
    /\ UNCHANGED <<context, gc, listener, participant, installed, running, name>>

CreateGuardCondition(n) ==
    /\ Goto(n, "gc", "pub_listener")
    /\ gc' = gc \cup {n}
    /\ UNCHANGED <<context, listener, participant, installed, running, nameVars>>

CreateListener(n, k) ==
    /\ \/ k = "pub" /\ Goto(n, "pub_listener", "sub_listener")
       \/ k = "sub" /\ Goto(n, "sub_listener", "participant")
    /\ listener' = [listener EXCEPT ![n] = @ \cup {k}]
    /\ UNCHANGED <<context, gc, participant, installed, running, nameVars>>

CreateParticipant(n) ==
    /\ Goto(n, "participant", "transport")
    /\ participant' = [participant EXCEPT ![n] = "alive"]
    /\ name' = [name EXCEPT ![n] = defaultName]
    /\ UNCHANGED <<context, gc, listener, installed, running, defaultName>>

ConfigureTransport(n) ==
    /\ Goto(n, "transport", "install_pub")
    /\ UNCHANGED <<context, gc, listener, participant, installed, running, nameVars>>

\* set_listener on the built-in readers.  After a shutdown by another context their
\* lookup fails.
InstallListener(n, k) ==
    /\ participant[n] = "alive"
    /\ \/ k = "pub" /\ Goto(n, "install_pub", "install_sub")
       \/ k = "sub" /\ Goto(n, "install_sub", "open")
    /\ installed' = [installed EXCEPT ![n] = @ \cup {k}]
    /\ UNCHANGED <<context, gc, listener, participant, running, nameVars>>

\* The catch blocks of the constructor.
ConstructorFails(n) ==
    /\ pc[n] \in Constructing
    /\ pc' = [pc EXCEPT ![n] = "cleanup"]
    /\ UNCHANGED <<context, gc, listener, participant, installed, running, nameVars>>

-------------------------------------------------------------------------------
(* OpenDDS's threads in on_data_available *)

CallbackBegins(n, k) ==
    /\ participant[n] \in {"alive", "orphan"} /\ k \in installed[n] \ running[n]
    /\ running' = [running EXCEPT ![n] = @ \cup {k}]
    /\ UNCHANGED <<context, pc, gc, listener, participant, installed, nameVars>>

CallbackEnds(n, k) ==
    /\ k \in running[n]
    /\ running' = [running EXCEPT ![n] = @ \ {k}]
    /\ UNCHANGED <<context, pc, gc, listener, participant, installed, nameVars>>

-------------------------------------------------------------------------------
(* rmw_destroy_node and OpenDDSNode::cleanup *)

\* Fault: a node is destroyed whatever became of its context.
DestroyNodeAnyway(n) ==
    /\ Goto(n, "open", "cleanup")
    /\ UNCHANGED <<context, gc, listener, participant, installed, running, nameVars>>

\* Without a context impl the call returns an error and the node stays.
DestroyNode(n) ==
    /\ Valid(n)
    /\ Goto(n, "open", "cleanup")
    /\ UNCHANGED <<context, gc, listener, participant, installed, running, nameVars>>

\* Fault: the participant is left to the factory.
KeepParticipant(n) ==
    /\ Goto(n, "cleanup", "free_sub")
    /\ UNCHANGED <<context, gc, listener, participant, installed, running, nameVars>>

\* delete_contained_entities and delete_participant, if there is a participant.
DeleteParticipant(n) ==
    /\ Valid(n) /\ running[n] = {}
    /\ Goto(n, "cleanup", "free_sub")
    /\ participant' = [participant EXCEPT ![n] = "none"]
    /\ installed' = [installed EXCEPT ![n] = {}]
    /\ UNCHANGED <<context, gc, listener, running, nameVars>>

\* The deletion fails, or there is no factory: dp_ is forgotten, the participant lives on.
DeleteParticipantFails(n) ==
    /\ Goto(n, "cleanup", "free_sub")
    /\ participant' = [participant EXCEPT ![n] = IF @ = "alive" THEN "orphan" ELSE @]
    /\ UNCHANGED <<context, gc, listener, installed, running, nameVars>>

\* Fault: the publications' listener is forgotten.
FreeSubListenerOnly(n, k) ==
    /\ \/ k = "sub" /\ Goto(n, "free_sub", "free_gc")
       \/ k = "pub" /\ Goto(n, "free_pub", "free_gc")
    /\ listener' = [listener EXCEPT ![n] = @ \ {k}]
    /\ UNCHANGED <<context, gc, participant, installed, running, nameVars>>

FreeListener(n, k) ==
    /\ \/ k = "sub" /\ Goto(n, "free_sub", "free_pub")
       \/ k = "pub" /\ Goto(n, "free_pub", "free_gc")
    /\ listener' = [listener EXCEPT ![n] = @ \ {k}]
    /\ UNCHANGED <<context, gc, participant, installed, running, nameVars>>

FreeGuardCondition(n) ==
    /\ Goto(n, "free_gc", "gone")
    /\ gc' = gc \ {n}
    /\ UNCHANGED <<context, listener, participant, installed, running, nameVars>>

-------------------------------------------------------------------------------
Next ==
    \/ \E c \in Context : InitContext(c) \/ ShutDown(c) \/ FiniContext(c)
    \/ \E n \in Node :
        \/ CreateNode(n) \/ SetDefaultQos(n) \/ CreateGuardCondition(n)
        \/ CreateParticipant(n) \/ ConfigureTransport(n) \/ ConstructorFails(n)
        \/ DestroyNode(n) \/ DeleteParticipant(n) \/ DeleteParticipantFails(n)
        \/ FreeGuardCondition(n)
        \/ \E k \in Kind :
            \/ CreateListener(n, k) \/ InstallListener(n, k) \/ FreeListener(n, k)
            \/ CallbackBegins(n, k) \/ CallbackEnds(n, k)

Spec == Init /\ [][Next]_vars

-------------------------------------------------------------------------------
(* Properties *)

\* Every variable keeps its type.
TypeOK ==
    /\ context \in [Context -> {"zero", "valid", "ended"}]
    /\ pc \in [Node -> {"none", "open", "gone"} \cup Constructing \cup Cleaning]
    /\ gc \subseteq Node
    /\ listener \in [Node -> SUBSET Kind]
    /\ participant \in [Node -> {"none", "alive", "orphan", "shut"}]
    /\ installed \in [Node -> SUBSET Kind]
    /\ running \in [Node -> SUBSET Kind]
    /\ defaultName \in Node \cup {NoNode}
    /\ name \in [Node -> Node \cup {NoNode}]

\* A callback of OpenDDS, at whatever moment of the node's construction, failure or
\* destruction it comes, finds the listener it is called on and the guard condition it
\* will trigger: cleanup() deletes the participant before it frees them.  The exception
\* is a participant whose deletion failed, which still knows the freed listeners.
CallbackFindsNode ==
    \A n \in Node : participant[n] # "orphan" =>
        /\ running[n] \subseteq listener[n]
        /\ running[n] # {} => n \in gc

\* A participant carries the name of its own node, although the name travels through
\* the factory, which the other nodes of all contexts and the failed ones use too.
OwnName == \A n \in Node : participant[n] # "none" => name[n] = n

\* Once a node is gone, after a failure of its constructor at any step or a call of
\* rmw_destroy_node, nothing of it is left but a participant that could not be deleted.
GoneIsReleased ==
    \A n \in Node : pc[n] \in {"none", "gone"} =>
        /\ n \notin gc /\ listener[n] = {}
        /\ participant[n] \in {"none", "orphan", "shut"}

\* The branch of cleanup() for a context without a factory (OpenDDSNode.cpp:417) is never
\* taken: a node is constructed and destroyed only while its context is valid.
FactoryInReach ==
    \A n \in Node : pc[n] \in Constructing \cup {"cleanup"} => Valid(n)

===============================================================================
