-------------------------------- MODULE Endpoints --------------------------------
(***************************************************************************)
(* What an application asks for when it creates a publisher, a             *)
(* subscription, a client or a server, and what it and others are told of  *)
(* it afterwards: the QoS profile that becomes the QoS of the DDS          *)
(* endpoints and is read back by get_actual_qos, and the name and the type *)
(* that go into the DDS topic, travel through the two topic caches of a    *)
(* node and come back in the answers of its graph queries.                 *)
(*                                                                         *)
(* A participant has one DDS topic of a name, which stays until the        *)
(* participant goes.  The threads that create entities look it up first    *)
(* and find or create it in another step.  The topics of services are made *)
(* by the generated code, for each service its own.                        *)
(*                                                                         *)
(* The caches are sets of entities here: how their entries get there is    *)
(* the business of DiscoveryListener and NodeGraph, when a query reads     *)
(* them that of NodeQueries.  A query is an operator on the entries.       *)
(***************************************************************************)
EXTENDS Names, Qos

CONSTANTS
    Entity,   \* publishers, subscriptions, clients and servers, of any node
    Self,     \* the node that is asked
    Word,     \* what names are made of
    Request   \* what may be asked for: kind, node, name, type, raw and profile

Kind == {"publisher", "subscription", "client", "server"}

\* The words that the code puts into names and types or searches them for.
Markers == {"/", "_", "Request", "Reply", "Response", "::msg", "::srv", "::dds_::", "Sample_"}

ASSUME EntityAssumption == IsFiniteSet(Entity)
ASSUME WordAssumption == RosPrefixes \cup Markers \subseteq Word
ASSUME RequestType ==
    \A r \in Request :
        /\ r.kind \in Kind /\ r.raw \in BOOLEAN
        /\ r.name \in Seq(Word) /\ r.name # <<>>
        /\ r.profile.depth \in 0 .. Sizes - 1 /\ r.profile.lease \in 0 .. Sizes - 1
        /\ \A p \in Policy : r.profile[p] \in Values(p) \cup {"default", "unknown"}

\* rmw is given names that start with a slash, unless they are raw; and nobody gives a raw
\* service a name that is mangled already.  The endpoints of other systems, whose names are
\* arbitrary, are raw publishers and subscriptions.
ASSUME NamesAssumption ==
    \A r \in Request :
        /\ ~r.raw => r.name[1] = "/"
        /\ r.raw /\ r.kind \in {"client", "server"} => RosPrefix(r.name) = ""

\* Types have the names that rosidl gives them: <package>::<directory>::<CamelCase>.
RosidlType ==
    [package   : Word,
     directory : Word \cap {"::msg", "::srv", "::action"},
     name      : Seq(Word \ {"/", "_", "::msg", "::srv"}) \ {<<>>}]

ASSUME TypesAssumption == \A r \in Request : r.type \in RosidlType

VARIABLES
    made,       \* what each entity is created with
    step,       \* how far the DDS topic of a publisher or subscription is
    topicType,  \* the type of that topic
    dds,        \* the QoS of its DDS endpoints, or NotCreated
    pubs,       \* the entities whose DataWriter is in the cache of pub_listener_
    subs        \* the entities whose DataReader is in the cache of sub_listener_

vars == <<made, step, topicType, dds, pubs, subs>>
topicVars == <<step, topicType>>

NoTopic == [name |-> "none"]
NotCreated == [depth |-> "none"]
Created(e) == dds[e] # NotCreated

HasWriter(e) == made[e].kind # "subscription"
HasReader(e) == made[e].kind # "publisher"
IsLocal(e) == made[e].node = Self
IsTopic(e) == made[e].kind \in {"publisher", "subscription"}

-------------------------------------------------------------------------------
(* Creation, discovery and destruction *)

\* get_default_datawriter_qos and get_default_datareader_qos of OpenDDS; the two
\* endpoints of a service get the same profile, of which one is enough.
DefaultQos(kind) ==
    [history |-> "keep_last", depth |-> 1, durability |-> "volatile",
     reliability |-> IF kind = "subscription" THEN "best_effort" ELSE "reliable",
     liveliness |-> "automatic", lease |-> ULongs \div 2 - 1]

Init ==
    /\ made \in [Entity -> Request]
    /\ step = [e \in Entity |-> "start"]
    /\ topicType = [e \in Entity |-> NoTopic]
    /\ dds = [e \in Entity |-> NotCreated]
    /\ pubs = {} /\ subs = {}

\* Two publishers or subscriptions of a node that have one DDS topic.
SameTopic(e, f) ==
    /\ IsTopic(e) /\ IsTopic(f)
    /\ made[e].node = made[f].node
    /\ TopicName(made[e].name, made[e].raw) = TopicName(made[f].name, made[f].raw)

\* The topics of the entity's name that its participant has, by their types.
Existing(e) == {topicType[f] : f \in {g \in Entity : SameTopic(e, g) /\ step[g] = "made"}}

\* find_or_create_topic: lookup_topicdescription.
LookUpTopic(e) ==
    /\ IsTopic(e) /\ step[e] = "start"
    /\ step' = [step EXCEPT ![e] = IF Existing(e) # {} THEN "found" ELSE "missed"]
    /\ UNCHANGED <<made, topicType, dds, pubs, subs>>

\* find_topic: whatever its type is.
FindTopic(e) ==
    /\ step[e] = "found"
    /\ step' = [step EXCEPT ![e] = "made"]
    /\ \E type \in Existing(e) : topicType' = [topicType EXCEPT ![e] = type]
    /\ UNCHANGED <<made, dds, pubs, subs>>

\* OpenDDS, asked for a topic that another thread has created meanwhile, hands it out if its
\* type is the same, and none otherwise.
TypeAccepted(e) == Existing(e) \subseteq {made[e].type}

\* create_topic
CreateTopic(e) ==
    /\ step[e] = "missed" /\ TypeAccepted(e)
    /\ step' = [step EXCEPT ![e] = "made"]
    /\ topicType' = [topicType EXCEPT ![e] = made[e].type]
    /\ UNCHANGED <<made, dds, pubs, subs>>

\* get_datawriter_qos and get_datareader_qos, then create_datawriter and
\* create_datareader, which may fail too.
Create(e) ==
    LET default == DefaultQos(made[e].kind)
    IN  /\ ~Created(e)
        /\ IsTopic(e) => step[e] = "made"
        /\ ~Refused(made[e].profile, default)
        /\ dds' = [dds EXCEPT ![e] = ToDds(made[e].profile, default)]
        /\ UNCHANGED <<made, topicVars, pubs, subs>>

\* A client or server of this node enters its reader first (add_to) and takes its writer
\* out first (remove_from); those of other nodes come and go as discovery reports them.
AddSub(e) ==
    /\ Created(e) /\ HasReader(e) /\ e \notin subs
    /\ subs' = subs \cup {e}
    /\ UNCHANGED <<made, topicVars, dds, pubs>>

AddPub(e) ==
    /\ Created(e) /\ HasWriter(e) /\ e \notin pubs
    /\ IsLocal(e) /\ HasReader(e) => e \in subs
    /\ pubs' = pubs \cup {e}
    /\ UNCHANGED <<made, topicVars, dds, subs>>

RemovePub(e) ==
    /\ e \in pubs
    /\ pubs' = pubs \ {e}
    /\ UNCHANGED <<made, topicVars, dds, subs>>

RemoveSub(e) ==
    /\ e \in subs
    /\ IsLocal(e) => e \notin pubs
    /\ subs' = subs \ {e}
    /\ UNCHANGED <<made, topicVars, dds, pubs>>

Next ==
    \E e \in Entity :
        \/ LookUpTopic(e) \/ FindTopic(e) \/ CreateTopic(e)
        \/ Create(e) \/ AddSub(e) \/ AddPub(e) \/ RemovePub(e) \/ RemoveSub(e)

Spec == Init /\ [][Next]_vars

-------------------------------------------------------------------------------
(* The entries of the caches *)

WriterPart == [publisher |-> "Message", client |-> "Request", server |-> "Response"]
ReaderPart == [subscription |-> "Message", client |-> "Response", server |-> "Request"]

\* A node enters its own publishers and subscriptions with the type it asked for; what
\* others are told is the type of the topic.
MessageType(e) == IF IsLocal(e) THEN made[e].type ELSE topicType[e]

\* A DDSTopicEndpointInfo, for one of the two endpoints of an entity.
Info(e, part) ==
    LET r == made[e]
    IN  [entity |-> e,
         node   |-> r.node,
         topic  |-> CASE part = "Message"  -> TopicName(r.name, r.raw)
                      [] part = "Request"  -> RequestName(r.name, r.raw)
                      [] part = "Response" -> ReplyName(r.name, r.raw),
         type   |-> IF part = "Message" THEN TypeName(MessageType(e))
                                        ELSE ServiceTypeName(r.type, part)]

PubInfos == {Info(e, WriterPart[made[e].kind]) : e \in pubs}
SubInfos == {Info(e, ReaderPart[made[e].kind]) : e \in subs}

OfNode(infos, node) == {i \in infos : i.node = node}

-------------------------------------------------------------------------------
(* The queries *)

\* Fault: the topics of other systems are not looked at.
CountRosTopics(infos, name) ==
    Cardinality({i \in infos : RosPrefix(i.topic) = "rt" /\ DemangleTopic(i.topic) = name})

\* count_topic, for rmw_count_publishers and rmw_count_subscribers.
CountTopic(infos, name) == Cardinality({i \in infos : DemangleTopic(i.topic) = name})

\* _get_topic_fqdns
TopicFqdns(name, noMangle) ==
    {name} \cup IF noMangle THEN {} ELSE {<<prefix>> \o name : prefix \in RosPrefixes}

\* _get_info_by_topic: fill_topic_endpoint_infos for each of the names, an entry that
\* answers to two of them counting twice.
InfoByTopic(infos, name, noMangle) ==
    {x \in TopicFqdns(name, noMangle) \X infos :
        x[1] = IF noMangle THEN x[2].topic ELSE DemangleTopic(x[2].topic)}

\* Fault: the prefix is not looked at, and two DDS topics are shown under one name.
TopicNamesTypesOfAll(infos, noDemangle) ==
    {[dds   |-> topic,
      name  |-> IF noDemangle THEN topic ELSE DemangleTopic(topic),
      types |-> {IF noDemangle THEN i.type ELSE DemangleType(i.type) :
                    i \in {j \in infos : j.topic = topic}}] :
        topic \in {i.topic : i \in infos}}

\* fill_topic_names_and_types and fill_topic_names_and_types_by_guid, a map by DDS topics,
\* then copy_topic_names_types: an entry of the answer for each key of the map.
TopicNamesTypes(infos, noDemangle) ==
    LET kept == {i \in infos : noDemangle \/ RosPrefix(i.topic) = "rt"}
    IN  {[dds   |-> topic,
          name  |-> IF noDemangle THEN topic ELSE DemangleTopic(topic),
          types |-> {IF noDemangle THEN i.type ELSE DemangleType(i.type) :
                        i \in {j \in kept : j.topic = topic}}] :
            topic \in {i.topic : i \in kept}}

\* fill_service_names_and_types, a map by service names, then copy_service_names_types.
ServiceNamesTypes(infos) ==
    LET kept == {i \in infos : ServiceOfTopic(i.topic) # <<>> /\ ServiceType(i.type) # <<>>}
    IN  {[name  |-> service,
          types |-> {StripSample(ServiceType(i.type)) :
                        i \in {j \in kept : ServiceOfTopic(j.topic) = service}}] :
            service \in {ServiceOfTopic(i.topic) : i \in kept}}

\* Fault: the word that tells requests from replies is not looked for.
ServicesByNodeAnyWord(infos, node, word) == ServiceNamesTypes(OfNode(infos, node))

\* fill_service_names_and_types_by_guid looks for the word anywhere in the topic.
ServicesByNode(infos, node, word) ==
    ServiceNamesTypes({i \in OfNode(infos, node) : Occurs(i.topic, <<word>>)})

-------------------------------------------------------------------------------
(* Properties *)

\* A raw topic that looks like a ROS topic is taken for one.
IsRosTopic(e) == IsTopic(e) /\ (made[e].raw => RosPrefix(made[e].name) = "rt")
RosName(e) == IF made[e].raw THEN Tail(made[e].name) ELSE made[e].name

RosTypeName(type) == <<type.package, "/">> \o type.name
\* Only the types of a package's msg directory are demangled.
ShownType(e) ==
    LET type == MessageType(e)
    IN  IF type.directory = "::msg" THEN RosTypeName(type) ELSE TypeName(type)

\* Services of the srv directory; those behind actions and the raw ones are not listed.
IsListed(e) == ~IsTopic(e) /\ ~made[e].raw /\ made[e].type.directory = "::srv"
BareType(type) == [type EXCEPT !.name = IF Head(@) = "Sample_" THEN Tail(@) ELSE @]

\* What a list of the topics, or of the services, has to tell of an entity.
AsTopic(e) == [name |-> RosName(e), type |-> ShownType(e)]
AsService(e) == [name |-> made[e].name, type |-> RosTypeName(BareType(made[e].type))]

\* An answer has each of the names once, with its types and no others.
Tells(answer, told) ==
    /\ {x.name : x \in answer} = {t.name : t \in told}
    /\ \A x \in answer :
        /\ x.types = {t.type : t \in {u \in told : u.name = x.name}}
        /\ \A y \in answer : y.name = x.name => y = x

\* The list of the topics, of the node or of one node's publishers or subscriptions, has
\* each ROS topic exactly once, under the name it was created with and with the types of
\* its entities, for those of other nodes the types of their DDS topics, and no half of a
\* service (fill_topic_names_and_types*, copy_topic_names_types).
TopicsListed ==
    LET Shows(infos, entities) ==
            Tells(TopicNamesTypes(infos, FALSE),
                  {AsTopic(e) : e \in {f \in entities : IsRosTopic(f)}})
    IN  /\ Shows(PubInfos \cup SubInfos, pubs \cup subs)
        /\ \A node \in {made[e].node : e \in Entity} :
            /\ Shows(OfNode(PubInfos, node), {e \in pubs : made[e].node = node})
            /\ Shows(OfNode(SubInfos, node), {e \in subs : made[e].node = node})

RosNames == {name \in {made[e].name : e \in Entity} : name[1] = "/"}

\* The number of publishers (subscriptions) on a ROS name is the number of the endpoint
\* infos for it, each once: the two queries, one by the demangled names, the other by
\* every name a topic could have, never disagree (count_topic, _get_info_by_topic).
CountMatchesInfo ==
    \A name \in RosNames, infos \in {PubInfos, SubInfos} :
        CountTopic(infos, name) = Cardinality(InfoByTopic(infos, name, FALSE))

\* The list of the services has each service once, whether its client or its server, its
\* reader or its writer is in a cache, under the name and with the type it was created
\* with, however much of it looks like a suffix (_demangle_service_from_topic).
ServicesListed ==
    Tells(ServiceNamesTypes(PubInfos \cup SubInfos),
          {AsService(e) : e \in {f \in pubs \cup subs : IsListed(f)}})

SideWord == [server |-> "Request", client |-> "Reply"]
Serving(node, kind) ==
    {e \in subs : IsListed(e) /\ made[e].node = node /\ made[e].kind = kind}

\* The services of a node's servers, or of its clients, are all told; and no others, unless
\* the name of one that the node has the other half of has the word in it.
ServicesShown(node, kind) ==
    LET word == SideWord[kind]
        answer == ServicesByNode(SubInfos, node, word)
    IN  /\ \A e \in Serving(node, kind) :
            \E x \in answer : x.name = made[e].name /\ AsService(e).type \in x.types
        /\ (\A e \in subs : IsListed(e) /\ made[e].node = node
                                => made[e].kind = kind \/ ~Occurs(made[e].name, <<word>>))
              => Tells(answer, {AsService(e) : e \in Serving(node, kind)})

\* The services of a node have those it has servers for, with their types, and its clients'
\* services those it has clients for, each once and nothing else: unless a name has the word
\* "Request" or "Reply" in it, which SuffixAtTheEnd is about
\* (fill_service_names_and_types_by_guid).
ServicesOfNode ==
    \A node \in {made[e].node : e \in Entity} : \A kind \in {"server", "client"} :
        ServicesShown(node, kind)

\* The word that tells requests from replies is looked for at the end of the topic, as the
\* comment in fill_service_names_and_types_by_guid says: a service shows on the side of its
\* topic's suffix, whatever else is in its name.
SuffixAtTheEnd ==
    \A node \in {made[e].node : e \in Entity} : \A kind \in {"server", "client"} :
        LET word == <<SideWord[kind]>>
        IN  ServicesByNode(SubInfos, node, SideWord[kind]) =
                ServiceNamesTypes({i \in OfNode(SubInfos, node) : EndsWith(i.topic, word)})

\* What a profile asks for explicitly is what get_actual_qos answers; a default is that
\* of OpenDDS.  A lease is kept if its seconds fit a Long.  The depth of a KEEP_LAST
\* history is kept, or the creation is refused, or the depth is one that DDS takes for
\* negative (rmw_qos_to_dds_qos).
AskedIsActual ==
    \A e \in {f \in Entity : IsTopic(f) /\ Created(f)} :
        LET asked == made[e].profile
            actual == ToRmw(dds[e])
        IN  /\ \A p \in Policy :
                  actual[p] = IF asked[p] = "default" THEN DefaultQos(made[e].kind)[p] ELSE asked[p]
            /\ asked.lease \in 1 .. ULongs \div 2 - 1 => actual.lease = asked.lease
            /\ actual.history = "keep_last" /\ asked.depth # 0 =>
                  actual.depth = asked.depth \/ 2 * (asked.depth % ULongs) >= ULongs

\* What get_actual_qos answers can be asked for: a publisher or subscription created with
\* it, as a bridge or a recorder does with the profile of its peer, gets the same QoS,
\* whatever the defaults of its own kind.  This needs a depth and a lease that DDS takes
\* for positive (dds_qos_to_rmw_qos, rmw_qos_to_dds_qos).
ActualIsAskable ==
    \A e \in {f \in Entity : IsTopic(f) /\ Created(f)}, kind \in {"publisher", "subscription"} :
        LET actual == ToRmw(dds[e])
            default == DefaultQos(kind)
        IN  dds[e].depth > 0 /\ dds[e].lease > 0 =>
                ~Refused(actual, default) /\ ToDds(actual, default) = dds[e]

===============================================================================
