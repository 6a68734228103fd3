------------------------------ MODULE GraphCache ------------------------------
(***************************************************************************)
(* What a CustomDataReaderListener promises to its callers: the discovery  *)
(* cache is one set of endpoints, and adding, removing and querying it are *)
(* atomic, whatever the threads that call it do.  DiscoveryListener, where *)
(* each call is the sequence of steps the code takes, implements it; the   *)
(* node-level module NodeGraph relies on it.                               *)
(***************************************************************************)

CONSTANTS
    Endpoint,       \* the GUIDs of DataWriters (or DataReaders)
    Participant,    \* the GUIDs of DomainParticipants
    Thread,         \* application and discovery threads that call the listener
    ParticipantOf   \* the participant each endpoint belongs to

VARIABLES
    live,      \* the endpoints with an entry
    success,   \* the result of the thread's last add_information or remove_information
    answer     \* the endpoints the thread's last query went through

cacheVars == <<live, success, answer>>

CacheInit ==
    /\ live = {}
    /\ success = [t \in Thread |-> FALSE]
    /\ answer = [t \in Thread |-> {}]

EndpointsOf(p) == {e \in live : ParticipantOf[e] = p}

\* add_information: recorded unless already there.
AtomicAdd(t, e) ==
    /\ live' = live \cup {e}
    /\ success' = [success EXCEPT ![t] = e \notin live]
    /\ UNCHANGED answer

\* remove_information: erased if there.
AtomicRemove(t, e) ==
    /\ live' = live \ {e}
    /\ success' = [success EXCEPT ![t] = e \in live]
    /\ UNCHANGED answer

\* count_topic, fill_topic_endpoint_infos and fill_topic_names_and_types.
AtomicScan(t) ==
    /\ answer' = [answer EXCEPT ![t] = live]
    /\ UNCHANGED <<live, success>>

\* fill_topic_names_and_types_by_guid and fill_service_names_and_types_by_guid.
AtomicScanParticipant(t, p) ==
    /\ answer' = [answer EXCEPT ![t] = EndpointsOf(p)]
    /\ UNCHANGED <<live, success>>

CacheNext ==
    \E t \in Thread :
        \/ \E e \in Endpoint : AtomicAdd(t, e) \/ AtomicRemove(t, e)
        \/ AtomicScan(t)
        \/ \E p \in Participant : AtomicScanParticipant(t, p)

CacheSpec == CacheInit /\ [][CacheNext]_cacheVars

===============================================================================
