---------------------------------- MODULE Names ----------------------------------
(***************************************************************************)
(* How names travel through DDS (DDSTopic.cpp, Service.cpp,                *)
(* namespace_prefix.cpp, demangle.cpp): ROS names get a prefix and,        *)
(* services, a suffix on the way in, and lose them on the way out.         *)
(*                                                                         *)
(* A string is the sequence of its words: what is searched for, "/" and    *)
(* "_" are words of their own, and whatever else there is between them.    *)
(***************************************************************************)
EXTENDS Naturals, Sequences, FiniteSetsExt

\* Where t occurs in s, as std::string::find and rfind see it.
Occurrences(s, t) ==
    {i \in 1 .. Len(s) : i + Len(t) <= Len(s) + 1 /\ SubSeq(s, i, i + Len(t) - 1) = t}

Occurs(s, t) == Occurrences(s, t) # {}

First(s, t) == Min(Occurrences(s, t))

Last(s, t) == Max(Occurrences(s, t))

EndsWith(s, t) == Len(s) + 1 - Len(t) \in Occurrences(s, t)

-------------------------------------------------------------------------------
(* On the way in *)

\* create_topic_name, create_request_name, create_reply_name; raw names are those of
\* profiles with avoid_ros_namespace_conventions.
Prefixed(prefix, name, raw) == IF raw THEN name ELSE <<prefix>> \o name

TopicName(name, raw) == Prefixed("rt", name, raw)

RequestName(name, raw) == Prefixed("rq", name, raw) \o <<"Request">>

ReplyName(name, raw) == Prefixed("rr", name, raw) \o <<"Reply">>

Mangled(type) == <<type.package, type.directory, "::dds_::">> \o type.name

\* create_type_name, for a type of the package's msg or action directory.
TypeName(type) == Mangled(type) \o <<"_">>

\* The generated code names the two types of a service.
ServiceTypeName(type, part) == Mangled(type) \o <<"_", part, "_">>

-------------------------------------------------------------------------------
(* On the way out *)

RosPrefixes == {"rt", "rq", "rr"}

\* _get_ros_prefix_if_exists
RosPrefix(topic) ==
    IF Len(topic) >= 2 /\ topic[1] \in RosPrefixes /\ topic[2] = "/" THEN topic[1] ELSE ""

\* _demangle_if_ros_topic
DemangleTopic(topic) == IF RosPrefix(topic) # "" THEN Tail(topic) ELSE topic

RosType == <<"::msg", "::dds_::">>

\* _demangle_if_ros_type: <pkg>::msg::dds_::<type>_ becomes <pkg>/<type>.
DemangleType(type) ==
    IF type[Len(type)] = "_" /\ Occurs(type, RosType)
    THEN LET i == First(type, RosType)
         IN  SubSeq(type, 1, i - 1) \o <<"/">> \o SubSeq(type, i + 2, Len(type) - 1)
    ELSE type

\* Fault: the first occurrence of the suffix is taken for the last.
ServiceOfTopicFirst(topic) ==
    LET prefix == RosPrefix(topic)
        suffix == IF prefix = "rr" THEN <<"Reply">> ELSE <<"Request">>
    IN  IF prefix \in {"rr", "rq"} /\ Occurs(topic, suffix)
        THEN SubSeq(topic, 2, First(topic, suffix) - 1)
        ELSE <<>>

\* _demangle_service_from_topic; the empty name is no service.
ServiceOfTopic(topic) ==
    LET prefix == RosPrefix(topic)
        suffix == IF prefix = "rr" THEN <<"Reply">> ELSE <<"Request">>
    IN  IF prefix \in {"rr", "rq"} /\ Occurs(topic, suffix)
        THEN SubSeq(topic, 2, Last(topic, suffix) - 1)
        ELSE <<>>

RosServiceType == <<"::srv", "::dds_::">>
ResponseSuffix == <<"_", "Response", "_">>
RequestSuffix == <<"_", "Request", "_">>

\* _demangle_service_type_only: a response suffix counts at the end only, a request
\* suffix anywhere.
ServiceType(type) ==
    LET suffix == IF EndsWith(type, ResponseSuffix) THEN ResponseSuffix ELSE RequestSuffix
    IN  IF Occurs(type, RosServiceType) /\ Occurs(type, suffix)
        THEN LET i == First(type, RosServiceType)
             IN  SubSeq(type, 1, i - 1) \o <<"/">> \o SubSeq(type, i + 2, Last(type, suffix) - 1)
        ELSE <<>>

\* copy_service_names_types drops what the OpenSplice type support puts before a name.
StripSample(type) ==
    IF Occurs(type, <<"/", "Sample_">>)
    THEN LET i == First(type, <<"/", "Sample_">>)
         IN  SubSeq(type, 1, i) \o SubSeq(type, i + 2, Len(type))
    ELSE type

===============================================================================
