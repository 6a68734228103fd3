--------------------------- MODULE DiscoveryListener ---------------------------
(***************************************************************************)
(* CustomDataReaderListener and the TopicCache it owns                     *)
(* (types.hpp, custom_data_reader_listener.cpp, topic_cache.hpp): two maps *)
(* that every call updates one after the other under mutex_, called by the *)
(* discovery thread that delivers built-in topic samples, by the           *)
(* application threads that create and destroy endpoints, and by the       *)
(* threads that query the graph.                                           *)
(*                                                                         *)
(* The participant of an endpoint is fixed by its GUID; the topic and type *)
(* an entry carries are left out.  So endpoint_guid_to_info_ is the set of *)
(* its keys, and the multiset of a participant is, for each of its         *)
(* endpoints, the number of copies.                                        *)
(* fill_service_names_and_types, which takes no lock, is left out here.    *)
(***************************************************************************)
EXTENDS Naturals

CONSTANTS
    Endpoint,       \* GUIDs of DataWriters (pub_listener_) or DataReaders (sub_listener_)
    Participant,    \* GUIDs of DomainParticipants
    Thread,         \* callers of the listener
    NoThread,       \* the owner of a free mutex
    ParticipantOf   \* the participant GUID that comes with an endpoint

ASSUME ParticipantOfType == ParticipantOf \in [Endpoint -> Participant]
ASSUME NoThreadAssumption == NoThread \notin Thread

VARIABLES
    endpoints,     \* keys of endpoint_guid_to_info_
    participants,  \* keys of participant_to_endpoint_guids_
    members,       \* copies of each endpoint in its participant's multiset
    mutex,         \* the thread that holds mutex_
    pc,            \* where each thread is
    target,        \* the endpoint a thread adds or removes
    todo,          \* the entries a query's loop has still to visit
    partial,       \* the entries the loop has used
    success,       \* the result of the thread's last add or remove
    answer         \* the result of the thread's last query

vars == <<endpoints, participants, members, mutex, pc, target, todo, partial,
          success, answer>>

mapVars == <<endpoints, participants, members>>
queryVars == <<todo, partial, answer>>

MembersOf(p) == {e \in Endpoint : ParticipantOf[e] = p /\ members[e] > 0}

-------------------------------------------------------------------------------
Init ==
    /\ endpoints = {}
    /\ participants = {}
    /\ members = [e \in Endpoint |-> 0]
    /\ mutex = NoThread
    /\ pc = [t \in Thread |-> "idle"]
    /\ target \in [Thread -> Endpoint]
    /\ todo = [t \in Thread |-> {}]
    /\ partial = [t \in Thread |-> {}]
    /\ success = [t \in Thread |-> FALSE]
    /\ answer = [t \in Thread |-> {}]

\* Fault: the call goes on without waiting for mutex_.
LockWithoutWaiting(t, next) ==
    /\ pc[t] = "idle"
    /\ mutex' = t
    /\ pc' = [pc EXCEPT ![t] = next]

\* The lock_guard at the top of every locked call, and its release at the return.
Lock(t, next) ==
    /\ pc[t] = "idle"
    /\ mutex = NoThread
    /\ mutex' = t
    /\ pc' = [pc EXCEPT ![t] = next]

Unlock(t) ==
    /\ mutex' = NoThread
    /\ pc' = [pc EXCEPT ![t] = "idle"]

Goto(t, here, next) ==
    /\ pc[t] = here
    /\ pc' = [pc EXCEPT ![t] = next]
    /\ UNCHANGED mutex

Return(t, here) ==
    /\ pc[t] = here
    /\ Unlock(t)

-------------------------------------------------------------------------------
(* add_information *)

CallAdd(t, e) ==
    /\ Lock(t, "init_map")
    /\ target' = [target EXCEPT ![t] = e]
    /\ UNCHANGED <<mapVars, queryVars, success>>

\* initialize_participant_map
InitParticipantMap(t) ==
    /\ Goto(t, "init_map", "put_info")
    /\ participants' = participants \cup {ParticipantOf[target[t]]}
    /\ UNCHANGED <<endpoints, members, target, queryVars, success>>

\* "unique topic attempted to be added twice, ignoring"
AddTwice(t) ==
    /\ target[t] \in endpoints
    /\ Return(t, "put_info")
    /\ success' = [success EXCEPT ![t] = FALSE]
    /\ UNCHANGED <<mapVars, target, queryVars>>

\* Fault: the check for an entry that is already there is missing.
PutInfoUnchecked(t) ==
    /\ Goto(t, "put_info", "put_member")
    /\ endpoints' = endpoints \cup {target[t]}
    /\ success' = [success EXCEPT ![t] = TRUE]
    /\ UNCHANGED <<participants, members, target, queryVars>>

PutInfo(t) ==
    /\ target[t] \notin endpoints
    /\ Goto(t, "put_info", "put_member")
    /\ endpoints' = endpoints \cup {target[t]}
    /\ success' = [success EXCEPT ![t] = TRUE]
    /\ UNCHANGED <<participants, members, target, queryVars>>

\* operator[] makes the participant's entry if it is missing.
PutMember(t) ==
    /\ Return(t, "put_member")
    /\ participants' = participants \cup {ParticipantOf[target[t]]}
    /\ members' = [members EXCEPT ![target[t]] = @ + 1]
    /\ UNCHANGED <<endpoints, target, queryVars, success>>

-------------------------------------------------------------------------------
(* remove_information *)

CallRemove(t, e) ==
    /\ Lock(t, "find")
    /\ target' = [target EXCEPT ![t] = e]
    /\ UNCHANGED <<mapVars, queryVars, success>>

\* Fault: remove_topic erases without looking for the entries first.
RemovableUnchecked(e) == TRUE

\* The three finds that must succeed before anything is erased.
Removable(e) ==
    /\ e \in endpoints
    /\ ParticipantOf[e] \in participants
    /\ members[e] > 0

\* Fault: the early return of a failed find reports a change.
FindFailsReportsChange(t) ==
    /\ ~Removable(target[t])
    /\ Return(t, "find")
    /\ success' = [success EXCEPT ![t] = TRUE]
    /\ UNCHANGED <<mapVars, target, queryVars>>

FindFails(t) ==
    /\ ~Removable(target[t])
    /\ Return(t, "find")
    /\ success' = [success EXCEPT ![t] = FALSE]
    /\ UNCHANGED <<mapVars, target, queryVars>>

FindSucceeds(t) ==
    /\ Removable(target[t])
    /\ Goto(t, "find", "erase_info")
    /\ UNCHANGED <<mapVars, target, queryVars, success>>

EraseInfo(t) ==
    /\ Goto(t, "erase_info", "erase_member")
    /\ endpoints' = endpoints \ {target[t]}
    /\ success' = [success EXCEPT ![t] = TRUE]
    /\ UNCHANGED <<participants, members, target, queryVars>>

\* Erasing the iterator takes one copy out; an empty multiset goes with its key.
EraseMember(t) ==
    /\ Return(t, "erase_member")
    /\ members' = [members EXCEPT ![target[t]] = @ - 1]
    /\ participants' =
        {p \in participants :
            \/ p # ParticipantOf[target[t]]
            \/ \E e \in Endpoint : ParticipantOf[e] = p /\ members'[e] > 0}
    /\ UNCHANGED <<endpoints, target, queryVars, success>>

-------------------------------------------------------------------------------
(* The locked queries *)

\* count_topic, fill_topic_endpoint_infos, fill_topic_names_and_types: every entry.
CallScan(t) ==
    /\ Lock(t, "visit")
    /\ todo' = [todo EXCEPT ![t] = endpoints]
    /\ partial' = [partial EXCEPT ![t] = {}]
    /\ UNCHANGED <<mapVars, target, success, answer>>

\* get_topic_types_by_guid: the multiset of one participant, {} if it has no key.
CallScanParticipant(t, p) ==
    /\ Lock(t, "visit")
    /\ todo' = [todo EXCEPT ![t] = IF p \in participants THEN MembersOf(p) ELSE {}]
    /\ partial' = [partial EXCEPT ![t] = {}]
    /\ UNCHANGED <<mapVars, target, success, answer>>

\* One iteration; an endpoint without info is skipped.
Visit(t, e) ==
    /\ e \in todo[t]
    /\ Goto(t, "visit", "visit")
    /\ todo' = [todo EXCEPT ![t] = @ \ {e}]
    /\ partial' = [partial EXCEPT ![t] = @ \cup ({e} \cap endpoints)]
    /\ UNCHANGED <<mapVars, target, success, answer>>

QueryReturns(t) ==
    /\ todo[t] = {}
    /\ Return(t, "visit")
    /\ answer' = [answer EXCEPT ![t] = partial[t]]
    /\ partial' = [partial EXCEPT ![t] = {}]
    /\ UNCHANGED <<mapVars, target, success, todo>>

-------------------------------------------------------------------------------
Step(t) ==
    \/ \E e \in Endpoint : CallAdd(t, e) \/ CallRemove(t, e) \/ Visit(t, e)
    \/ InitParticipantMap(t) \/ AddTwice(t) \/ PutInfo(t) \/ PutMember(t)
    \/ FindFails(t) \/ FindSucceeds(t) \/ EraseInfo(t) \/ EraseMember(t)
    \/ CallScan(t)
    \/ \E p \in Participant : CallScanParticipant(t, p)
    \/ QueryReturns(t)

Next == \E t \in Thread : Step(t)

Spec == Init /\ [][Next]_vars

-------------------------------------------------------------------------------
(* Properties *)

Locations == {"idle", "init_map", "put_info", "put_member", "find", "erase_info",
              "erase_member", "visit"}

\* Every variable keeps its type; the multisets never hold a negative count.
TypeOK ==
    /\ endpoints \subseteq Endpoint
    /\ participants \subseteq Participant
    /\ members \in [Endpoint -> Nat]
    /\ mutex \in Thread \cup {NoThread}
    /\ pc \in [Thread -> Locations]
    /\ target \in [Thread -> Endpoint]
    /\ todo \in [Thread -> SUBSET Endpoint]
    /\ partial \in [Thread -> SUBSET Endpoint]
    /\ success \in [Thread -> BOOLEAN]
    /\ answer \in [Thread -> SUBSET Endpoint]

\* Whenever no call is in progress the two maps of the topic cache tell the same
\* story: an endpoint with info is exactly once in the multiset of its participant,
\* one without info is in none, and only participants with endpoints have a key
\* (add_topic and remove_topic).
IndexesAgree ==
    mutex = NoThread =>
        /\ \A e \in Endpoint : members[e] = IF e \in endpoints THEN 1 ELSE 0
        /\ participants = {ParticipantOf[e] : e \in endpoints}

\* A query that walks the cache never meets an endpoint whose info is gone, neither
\* among those it has still to visit nor among those it has used: the `continue` of
\* get_topic_types_by_guid is never taken.
QueriesMeetNoHole ==
    \A t \in Thread : pc[t] = "visit" => todo[t] \cup partial[t] \subseteq endpoints

\* The fine-grained listener implements the atomic cache: add_information and
\* remove_information take effect at once and report truthfully whether they changed
\* anything, and a locked query answers with one state of the cache.
AtomicCache == INSTANCE GraphCache WITH live <- endpoints

ImplementsAtomicCache == AtomicCache!CacheSpec

===============================================================================
