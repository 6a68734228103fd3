# Verification of rmw_opendds

`rmw_opendds_cpp` implements the ROS 2 middleware interface (`rmw`) on OpenDDS.
This directory holds TLA+ models of the parts of it where threads, callbacks and
failures meet, the TLC runs that check them on small instances, and proofs,
checked by TLAPS, that the main properties hold for every number of endpoints,
threads, waiters, entities and names.

    tlc -workers 2 -config MCNodeGraph.cfg MCNodeGraph.tla     # any run, see "Runs"
    tlapm NodeGraph_proofs.tla                                 # any *_proofs module

Paths below are relative to `src/rmw_opendds_cpp`.

## Inventory

Status: **modelled**, *partly*, or not modelled (see "Not modelled").

| Component | State | Operations | What is hard | What makes it correct |
|---|---|---|---|---|
| *Discovery cache*: `CustomDataReaderListener` (types.hpp, types/custom_data_reader_listener.cpp) and its `TopicCache` (topic_cache.hpp) | `endpoint_guid_to_info_`, `participant_to_endpoint_guids_` (a multiset per participant), `mutex_` | `add_information`, `remove_information`, `count_topic`, `fill_topic_*`, `fill_service_*` | called by OpenDDS's threads and any application thread; two maps, two writes; a GUID added or removed twice | the maps agree; calls are atomic; results tell whether something changed |
| **Built-in topic listeners**: `CustomPublisherListener`, `CustomSubscriberListener` | the samples a callback has taken | `on_data_available` | many samples, one trigger; a sample that is stale when it is processed; a failing take; a trigger that fails and is only printed | the cache converges to the domain; a change is followed by a trigger |
| **Node graph**: `OpenDDSNode` | the two listeners, the graph guard condition, the participant | `add_pub`/`add_sub`, `remove_pub`/`remove_sub`, graph queries | cache change and trigger are separate steps; queries read two caches; samples before `set_listener` | no change goes unnoticed by whoever waits, unless a trigger failed |
| **Wait set**: `rmw_wait` (wait.hpp, wait.cpp) | attached and active conditions | attach, DDS wait, reset loops, `Cleaner` | triggers during the call, timeout against trigger, errors half-way | no trigger is lost; what is returned was ready at one moment; what is ready is returned; an error uses up little |
| *Guard condition*: `DDSGuardCondition` | the trigger value | set, reset | shared by the node and its waiters | as for its users |
| **Clients and services: availability** (DDSClient.cpp) | matched counts | `rmw_service_server_is_available` | two counts read one after the other | a ready server is seen |
| *Clients and services: creation, destruction, requests* | requester/replier, registration with the node | create, destroy, send, take | constructors that throw after they registered; `clean_service` without a body | what is registered exists; what is acquired is released |
| **Wait set creation and destruction** (wait_set.cpp) | three allocations | create, destroy | failing allocation | all is freed, nothing is read unset |
| *Publishers and subscriptions* | DDS entities, shared topics, listener, registration, matched counts | create, destroy, count, QoS | failing steps; DDS entities and listeners that outlive their owner; threads that look up one topic | as for clients and services; what is freed is freed from the inside out |
| *Context and node lifecycle* (init.cpp, rmw_init.cpp, rmw_node.cpp, constructor and `cleanup` of OpenDDSNode) | the process-wide participant factory and service participant, a node's participant, listeners and guard condition | init, shutdown, fini, create and destroy node | shutdown is for the process; any step of the constructor fails; callbacks meanwhile; default QoS as a channel for the node's name | no callback finds a freed listener; all is released; the name is the node's own |
| *Node name queries, endpoint info* (OpenDDSNode.cpp, topic_endpoint_info.cpp) | none of their own | `get_names`, `get_key`, `rmw_get_*_info_by_topic` | participants leave between two reads; pointers into the cache after unlock | who is there throughout is found and listed; an endpoint gets its own node's name |
| *Publish and take* (rmw_publish.cpp, rmw_take.cpp) | DDS reader and writer | publish, take, serialized forms | samples without data | `taken` is true iff a message was written |
| *QoS conversion* (qos.hpp, qos.cpp) | none | `get_datareader_qos`, `dds_qos_to_rmw_qos`, ... | widths of depth and lease | what was asked for is what is answered |
| **Name mangling** (demangle.cpp, namespace_prefix.cpp, DDSTopic.cpp, Service.cpp) | none | mangle, demangle, the list queries | prefixes and suffixes inside names, raw names | queries show each topic and service once, by its own name and type |
| *Events* (event.cpp, rmw_event.cpp) | a DDS status | take an event | statuses are cleared by reading | as for the wait set |
| GIDs, serialization, allocation helper, identifiers, logging | none | | | not modelled: comparisons, constants, calls to generated code |

How they interact. OpenDDS's discovery threads call the built-in listeners,
which write the discovery cache and trigger the node's graph guard condition.
Application threads that create or destroy endpoints write the same caches
through the node and trigger the same guard condition. A thread in `rmw_wait`
is woken by it, resets it, returns, and queries the caches through the node.
Nothing holds a lock over more than one call on one cache, so all of these
interleave.

`PROJECT.json` lists every hazard at its line, those no property covers with the reason.

## Modules

### GraphCache, DiscoveryListener, MCDiscoveryListener

`DiscoveryListener` is the listener with its topic cache, at the grain of the
single map operation. `endpoints` is the key set of `endpoint_guid_to_info_`,
`participants` the key set of `participant_to_endpoint_guids_`, `members` the
number of copies of an endpoint in its participant's multiset, `mutex` the owner
of `mutex_`. Each statement of `add_information` (`CallAdd`,
`InitParticipantMap`, `AddTwice`/`PutInfo`, `PutMember`) and of
`remove_information` (`CallRemove`, `FindFails`/`FindSucceeds`, `EraseInfo`,
`EraseMember`) is an action; a query (`CallScan`, `CallScanParticipant`) visits
its entries one by one (`Visit`, `QueryReturns`). A participant belongs to the
GUID of an endpoint (an endpoint's GUID has its participant's prefix), so
`ParticipantOf` is a constant. Topic and type names are left out.

`GraphCache` is the abstract promise: one set of endpoints, and each call one
step with a truthful result. `ImplementsAtomicCache` is the refinement.

### GraphWatch, NodeGraph, MCNodeGraph

`NodeGraph` is one `OpenDDSNode` between the domain and its waiters. `remote` is
the true state of the remote endpoints, `unread` the samples in a built-in
reader, `notified` that OpenDDS will call `on_data_available`, `batch` what that
call has taken. `SetListener` is the end of the node's constructor, `TakeSamples`,
`TakeFails`, `ProcessSample`, `TriggerAfterBatch` are `on_data_available`;
`CreateLocal`, `DestroyLocal` and the following `TriggerByApp` are
`add_pub`/`add_sub` and `remove_pub`/`remove_sub`; `WaitReturns`,
`ResetGuardCondition` or `ResetFails`, `ReadPub`, `ReadSub` are a user that waits with
`rmw_wait` and then calls `rmw_get_topic_names_and_types`. A cache is the set of GUIDs in it,
which is what `DiscoveryListener` is proved to implement.

Every trigger goes through `trigger_graph_guard_condition` (`TriggerGraphGuardCondition`), which only
prints that setting the guard condition failed. The history variable `missed` has the listeners
whose trigger failed since a trigger last succeeded or a waiter last read them. What a property
says of a change it says of those that are not missed; a failed trigger of one listener
excuses nothing of the other.

A local topic endpoint is recorded under the GUID that belongs to its DDS
*Publisher's* or *Subscriber's* handle (DDSPublisher.hpp:57, DDSSubscriber.hpp:74),
a client or service under those of its writer and reader (DDSClient.cpp). Whether
two handles give two GUIDs is up to OpenDDS; so `GuidOf` need not be injective
and the properties say what holds of a shared one.

`GraphWatch` is the abstract promise to a waiter: once half of the graph has
changed, a look at that half is owed, and only looking pays the debt, or a `Miss`, which is noted.

### WaitSet

`WaitSet` is `rmw_wait` with one wait set. `wanted` is what the caller passed,
`slots` the entries not nulled so far, `attached` and `active` the two
`ConditionSeq`s; `pc` follows the code: attach loops, DDS wait, then the
subscriptions, guard conditions, services and clients, events. Every
early return is an action (`AttachFails`, `WaitFails`, `ResetGuardFails`,
`CheckEventFails`) and goes through the `Cleaner` (`Fail`, `Return`). Other
threads deliver and take samples, trigger guard conditions and change statuses
at any moment. A loop that only reads what the call owns is one step; a loop
that touches shared state (the trigger values, the statuses) is one step for each entry.
`unreported` is a history variable: the guard conditions triggered since a call
last reported them.

`AtomicWait` is the abstract promise to the caller, as if `rmw_wait` looked at everything at
one moment (`Wake`): it hands back exactly what was true then (`Return`), a trigger is
used up by the call that reports it, and a call that fails uses up at most what it
was about to report (`Fail`). The refinement mapping takes for
the pending triggers those that are set and those the call has in hand, the program locations up to the DDS wait for `"asleep"`, and the set of
active conditions for the report. Of events it says nothing: the code looks at them later, each at
a moment of its own.

### ServerAvailability

The client's two matched counts while discovery matches and unmatches the two
endpoints of each server. `throughout` and `atOnce` are history variables: was a
server ready at every, or at any, moment of the call.

### Registry, Entities, MCEntities

`Entities` follows publishers, subscriptions, clients, services and wait sets from
`rmw_create_*` to `rmw_destroy_*`. A creation is a sequence of acquisitions
(`PublisherPlan`, ..., `WaitSetPlan`), taken one by one (`Acquire`, `Register`), any of which may
fail (`Fail`). `held` is what has been acquired for an entity and not released.

Up to three pieces of code then release, one after the other, each what it knows of.
`ConstructorCatches` is the catch block of a constructor, which calls the class's `cleanup()`
(`CleanedUp`): the listener, or the requester or replier with its writer and read condition.
`RafCatches` is `RmwAllocateFree::create`, which frees the memory of an object whose constructor
threw and knows nothing of what is in it. `CreateCatches` is the end of `rmw_create_*`: `clean_*`
destroys the object if the handle's data points to one (`DataSet`), and frees the handle
(`Discarded`). Where the failing step is decides who catches it first (`Catcher`): before the
constructor's `try`, in it, or outside. A destruction ends with the same `Discarded` (`Clean`). So
that the object's memory never goes before the listener in it, nor the handle before the object,
and that in the end all is gone, follows from how the three fit together, and is what
`FreedInsideOut` says. The `goto fail` of a wait set is `GotoFail`.

The DDS entities stay with the participant (`Contained`) until `OpenDDSNode::cleanup`
(`DestroyNode`), which deletes them or, if OpenDDS fails to, only notes it. `graph` is the two caches of the
node, as sets of GUIDs: an entity is recorded under what `GuidOf` gives for its handles, a
GUID that is there already is there once, and `remove_pub` and `remove_sub` take it out whoever
else is recorded under it. `add_to` and `remove_from` of clients and services are two steps each.
Three deviations of the code are in the model and excepted, by name, in the properties: the
service, whose `clean_service` has no body; the client whose `add_to` fails between its two
registrations (`HalfRegistered`); and, in a run of its own, the wait set.

`Registry` is the abstract promise, seen from the graph: an entity that has been returned has all
its entries there (`Return`) until its destruction begins (`Close`), one that has been destroyed has
none (`Finish`), a creation that fails has not shown everything (`GiveUp`), and a client's or
service's writer is never there without its reader (`Show`, `Hide`). It is promised to the
entities whose GUIDs are their own (`Unshared`), while others come and go under shared ones: for
those it does not hold, as the first to be destroyed takes the entry of the second. The refinement
mapping takes of `graph` the entity's own GUIDs; the other acquisitions and releases do not show.

### NodeLifecycle, MCNodeLifecycle

`NodeLifecycle` is `rmw_init`, `rmw_shutdown` and `rmw_context_fini` for the contexts of
a process, and the constructor of `OpenDDSNode`, `rmw_destroy_node` and `cleanup()` for
its nodes, step by step (`pc`); `ConstructorFails` is possible before each step.
Once a listener is installed OpenDDS calls it back (`CallbackBegins`,
`CallbackEnds`) at any moment until the participant is deleted or shut down.
`defaultName` is the user data in the factory's default participant QoS, by which
a node's name reaches its participant. A participant whose deletion fails is an
`"orphan"`: the code forgets it and frees the listeners it still holds.

Assumed of the callers, as rmw does: calls of `rmw_create_node` do not overlap,
and `rmw_shutdown` does not overlap the construction or destruction of a
node of that context (of another context it may). Assumed of OpenDDS: deleting or
shutting down a participant waits for its callbacks.

### NodeQueries, MCNodeQueries

`NodeQueries` is the three queries that join OpenDDS's table of participants (`table`)
with the listener's cache (`cache`): by node (`get_key`, then the cache), node names
(`get_names`), and endpoint info by topic. Each looks up the `handles` it has fetched
one by one (`VisitByNode`, `VisitNames`, `VisitInfo`) while participants
and endpoints come and go. The endpoint info takes pointers under the lock
(`TakePointers`) and copies after it (`Copy`); `dangling` are the entries erased in
between, and what is copied from them is arbitrary. A name without a
namespace (`NameOnly`) makes `get_names` dereference the end iterator, which is modelled
as a crash or an arbitrary namespace. A failure of OpenDDS to give a participant's data is an error of the
call (`Fail`), but in two places the code passes over it: `get_key` when it asks for the
node's own QoS (`CallByNode`), and `get_names` for every participant (`ReadName`). `unread` has the
participants passed over though they were there. It and `steady`, `seen`, `departed` and `failed`
are history variables of the call.

### Names, Qos, Endpoints, MCEndpoints

`Names` is what is done to names and types on their way into DDS (`TopicName`, `RequestName`,
`TypeName`, ...) and out of it (`DemangleTopic`, `ServiceOfTopic`, `ServiceType`, ...). A string is
the sequence of its words: the markers the code searches for, `/` and `_` are words, and so is
whatever is between them; `find` and `rfind` are `First` and `Last`. So a name may have a
marker in any place, but not half of one.

`Qos` is `rmw_qos_to_dds_qos` (`Refused`, `ToDds`) and `dds_qos_to_rmw_qos` (`ToRmw`), with the
widths of `CORBA::ULong` and `size_t` as constants: `ToLong` is the cast that may turn negative.

`Endpoints` follows entities from what they are asked to be (`made`) to what queries tell
of them. The DDS topic comes from `DDSTopic::find_or_create_topic` (`LookUpTopic`, then `FindTopic`
or `CreateTopic`; other threads may act between the two), the QoS from `Create`; an entity enters and
leaves the two caches as in Entities and NodeGraph. The queries are operators on the
entries: `CountTopic`, `InfoByTopic`, `TopicNamesTypes`, `ServiceNamesTypes`, `ServicesByNode`. A
property compares an answer with `made`: each topic or service exactly once (`Tells`), by
the name and type it was created with. The types of one name are a set in the model: where the code strips two
service types down to one (`Foo` and `Sample_Foo`), its answer has it twice.

Assumed of OpenDDS: `create_topic` hands out an existing topic if its type is the same
and fails otherwise (`TypeAccepted`, external). What a topic's type is follows from that and no property claims it.

## Runs

| Run | Instance | Checks | States |
|---|---|---|---|
| discovery_listener | 2 threads, 3 endpoints, 2 participants | `TypeOK`, `IndexesAgree`, `QueriesMeetNoHole`, `ImplementsAtomicCache` | 373,248 |
| node_graph | 1 remote reader, 2 local writers with one GUID, 2 application threads, 1 waiter | `TypeOK`, `NoLostChange`, `SettledIsExact`, `EventuallyConsistent`, `ImplementsGraphWatch` | 80,161 |
| wait_set | 1 subscription, 2 guard conditions, 1 service, 1 event | `TypeOK`, `NoTriggerLost`, `OkReportsReady`, `ReadyWakes`, `ImplementsAtomicWait` | 236,048 |
| event_wakes | as wait_set, fewer conditions | `EventWakes`: violated | |
| server_available | 2 servers | `ReadyServerSeen` | 563 |
| available_means_ready | 2 servers | `AvailableMeansReady`: violated | |
| entities | 1 publisher, 1 client, 1 service, 1 wait set; publisher and service under one GUID | `TypeOK`, `GraphTruthful`, `FreedInsideOut`, `ImplementsRegistry` | 1,448,544 |
| wait_set_unroll | 1 wait set | `UnrollsOnlyWhatWasDone`: violated | |
| node_lifecycle | 3 nodes, 2 contexts | `CallbackFindsNode`, `OwnName`, `GoneIsReleased`, `FactoryInReach` | 1,317,896 |
| node_queries | 4 remote participants (2 of one name, 1 with a name only, 1 without), 2 endpoints | `AbsentMeansAbsent`, `AnswerIsOfTheNode`, `NamesComplete`, `ErrorMeansLeft`, `InfoNamesOwner` | 610,816 |
| endpoints | 2 entities with names, types, kinds and profiles of every sort, 8 values of a ULong, 64 of a size_t | `TopicsListed`, `CountMatchesInfo`, `ServicesListed`, `ServicesOfNode`, `AskedIsActual`, `ActualIsAskable` | 445,392 |
| service_suffix | as endpoints | `SuffixAtTheEnd`: violated | |

Why these bounds. *discovery_listener*: the only coupling between endpoints is the
multiset of a common participant, so a participant with two endpoints (the
first to leave must not take the key, the last must), one with a
single endpoint, and two threads meet every pair of calls; the proof covers
the rest. *node_graph*: a remote endpoint lives once (GUIDs are not used again),
may be updated any number of times, and its samples fold into one entry, so
no counter needs a bound. The remote reader is in
one cache, and two local writers under one GUID, created and destroyed by two threads, in the
other, so that both listeners owe triggers of the one guard condition at once. Both listeners do
the same, so remote endpoints of one kind are enough. A local endpoint with a GUID of its own, two
waiters, and more of everything, are left to the proofs; convergence, which is not proved, is
checked of the remote reader and the two writers only.
*wait_set*: two guard conditions, because a reset of one must leave the other
alone; one entry in each of the other arrays, as these are treated entry by
entry. *server_available*: two servers, because the two counts may come from
different ones. *entities*: entities meet in the caches, if they share a GUID, and in the node's end. A
publisher and a service under one GUID and a client of its own have each a different plan and a different
`clean_*`; the subscription's plan differs from the publisher's in the read condition, which
`cleanup()` leaves alone, and is left to the proof. *node_lifecycle*: two nodes
of one context and one of another, so that a name can be taken over, within a context
and across two, and a context can end under the nodes of another. *node_queries*: two
remote nodes of the same name, so that one can leave while the other stays; one endpoint
of the node itself and of the node itself and one of a remote node. *endpoints*: names meet in an answer, and threads in a topic,
two at a time, so two entities meet every case; the names are those with a marker inside, those that
look like another's mangled name, and raw ones. Profiles do not meet at all, so at most one of the two is not plain;
depths and leases lie around the limits of the scaled types, which the proof leaves open.

`CHECK_DEADLOCK FALSE` stands only where the system may stop: in the node graph run (when
every endpoint has come and gone the waiter may wait for ever), in those of Entities
(every entity lives once), and in those of Endpoints (a creation that is refused, or whose topic
exists with another type, fails for good, and both may).

The operators marked "Fault" in the modules are not part of the specifications. Each
is a plausible bug in the definition that follows it; `PROJECT.json`
("mutants") names the property that fails when it takes that
definition's place.

### Fairness

`NodeGraph!FairSpec` assumes weak fairness of the end of the constructor, of the steps of a
running callback, of an application thread between its cache change and its
trigger (it is inside `add_pub` or `remove_pub`), and of a waiter that keeps
calling `rmw_wait`; and strong fairness of `TakeSamples` and `ResetGuardCondition`, that is, a
take and a reset that are tried again and again do not fail every time. The domain, and when the
application calls, are not fair, and nothing at all is assumed of triggers: each may fail.
`WaitSet!FairSpec` assumes weak fairness of the calling thread inside
`rmw_wait` and of a DDS wait one of whose conditions stays true. Timeouts and
errors are not fair: they may happen or not.

`EventuallyConsistent` is claimed for one waiter. With two, one may reset the
guard condition on its way back from `rmw_wait` before the other is woken;
`NoLostChange` states what is left: *some* waiter has seen the change or will. It
also excepts a listener with stranded samples, those that came before
`set_listener` or whose take failed, as the code looks at them at the next callback
only; and a listener whose last trigger failed (`missed`), of which the waiter may never hear.

## Proofs

| Module | Theorems | Inductive invariant |
|---|---|---|
| DiscoveryListener_proofs | `TypeCorrect`, `IndexesAlwaysAgree`, `QueriesNeverMeetHole`, `Refinement` | whoever is not idle holds the mutex; and for each program location how far the two maps are apart: e.g. at `put_member` the endpoint has info but no copy, at `erase_member` a copy and no info. `IndexesAgree` speaks only of the free mutex and is not inductive without it. |
| NodeGraph_proofs | `TypeCorrect`, `SettledAlwaysExact`, `NoChangeLost`, `Refinement` | `SettledIsExact` needs that a sample in `batch` of an endpoint whose later sample is not in `unread` carries the true state; `NoLostChange` needs that a batch exists only in a running callback (`BatchCurrent`). Steps that touch neither triggers nor views are done at once (`Quiet`). |
| WaitSet_proofs | `TypeCorrect`, `NoTriggerEverLost`, `OkAlwaysReportsReady`, `Refinement` | what is attached is wanted (`AttachedIsWanted`), and between the DDS wait and the return something active is still in its slot or the wait timed out (`ActiveKept`). `Refinement` needs besides what the slots hold at each location: behind a loop, of that array exactly what was active (`Snapshot`). |
| NodeLifecycle_proofs | `TypeCorrect`, `CallbackAlwaysFindsNode`, `NameIsOwn`, `GoneAlwaysReleased`, `FactoryAlwaysInReach` | what each location of the constructor and of `cleanup()` owns (`GuardConditionHeld`, `ListenersHeld`), that a live participant belongs to a node that owns everything (`ParticipantBacked`), that one node is constructed at a time and the default QoS is its own from `set_default_participant_qos` to `create_participant`. |
| NodeQueries_proofs | `TypeCorrect`, `AbsentAlwaysMeansAbsent`, `AnswerAlwaysOfTheNode`, `NamesAlwaysComplete`, `ErrorAlwaysMeansLeft`, `InfoAlwaysNamesOwner` | the loop invariant `NothingSkipped`: whoever was there throughout has a handle still to be looked up or has been dealt with; `HandlesCurrent`: a handle loses its participant only to a departure; `PassedOver`: whose failing data each query passes over; and `LabelsRight` for what has been copied. |
| Entities_proofs | `TypeCorrect`, `GraphIsTruthful`, `AlwaysFreedInsideOut`, `Refinement` | for each phase of an entity what is held and in which order it went (`Sound`): a prefix of the plan during creation; while it unwinds, nothing the object owns once the constructor's catch block is passed and no object once its memory is freed (`UnwindingAt`); all but graph entries while closing. Who is in the graph was recorded there, and an entity with its own GUIDs that has recorded itself is there (`Recorded`); the node goes last (`NodeLast`). Of a plan's order only `OrderFacts` and `OwnedFacts` are used, and for `Refinement` which entries each plan has (`EntriesOf`). |
| ServerAvailability_proofs | `ReadyServerAlwaysSeen` | while `throughout` holds a request reader and a reply writer are matched now, and were when the readers were counted (`ReadyAllAlong`). |
| Endpoints_proofs | `CountAlwaysMatchesInfo`, `TopicsAlwaysListed`, `ServicesAlwaysListed`, `ServicesOfNodeTold`, `NamesNeverClash`, `AskedIsAlwaysActual`, `ActualAlwaysAskable` | a topic's type is one that somebody asked for (`TopicTyped`); a cache holds only entities that exist, with that kind of endpoint and, if they need one, a topic (`Cached`); and the QoS in DDS is the conversion of an accepted profile (`Converted`). The rest is about words and remainders, see below. |

What Endpoints_proofs adds to its invariant. *Names*: where the first and the last occurrence of a
marker is in a name that was put together from parts (`Positions`, `WordPositions`,
`PairPositions`, `TriplePositions`). From this the demangling is shown to undo the mangling:
a topic's prefix is taken off once (`Demangled`, `NoPrefixLeft`), of a service's suffix the last
occurrence is the one that was put on, whatever is in the service's own name (`HalfDemangled`), and of a type the
first `::msg::dds_::` or `::srv::dds_::` is its directory (`MangledWords`, `TypeShown`,
`ServiceTypeShown`). So each entry of a cache is shown as the entity it belongs to
(`TopicShown`, `ServiceShown`), and the answers, which group entries by name, tell just these
(`TopicsTold`, `ServicesTold`). *Profiles*: `SmallKept`, `KeptOrRefused`, `PositiveKept` and `LongKept` say which numbers
survive the casts between a `size_t` and a signed `Long`.

They hold for all constants that satisfy the modules' assumptions: the types of
`ParticipantOf`, `KindOf` and `GuidOf` (which need not be injective, in NodeGraph and Entities alike), the separate sets of names
(`SeparateEndpoints`, `DisjointArrays`, `NoThreadAssumption`, `NoNodeAssumption`, `SelfAssumption`, ...), that what is asked for is
a name, a type and a profile (`RequestType`, `WordAssumption`, `Widths`), that there are finitely many entities and
servers to count (`EntityAssumption`, `ServerAssumption`), and that there is a
waiter (`SomeWaiter`, without which no look could ever be owed to anybody).
Two assumptions are about the callers. `NamesAssumption`: names start with a slash unless they
are raw, as rcl expands them before it calls rmw; and no raw *service* has a name that is mangled already (a raw *topic* may,
and stands for the endpoints of other systems). `TypesAssumption`: a type is named as rosidl names it, `<package>`, directory,
and a name without underscores. Without them a marker could stand where the code
searches for one, and the answers would be about other names.
TLC evaluates the assumptions in every run. A proof of an
invariant has a step for each action; the theorems then follow with PTL.

Model-checked only: `EventuallyConsistent` and `ReadyWakes`, which are liveness under
fairness and beyond the prover. Every other property of a passing run is stated by a theorem. The type invariants of
NodeLifecycle and NodeQueries are proved only, and so is `NamesNeverClash`: two names
never share a DDS topic, nor a topic with half of a service.

## Disagreements between the code and its comments

* `event_wakes`. wait.cpp:27 says "enable a status condition for each event" where
  the code only reads the status, and nothing else attaches an event to the wait
  set. A call that waits for an event alone sleeps until its timeout, or for ever.
* `available_means_ready`. DDSClient.cpp:101 says a server is ready when a subscriber *and* a
  publisher are matched. The two counts are read one after the other, so the call can answer
  true although the two were never matched together. The other direction,
  that a ready server is never missed, holds (`ReadyServerSeen`).
* `wait_set_unroll`. wait_set.cpp:31 says "From here onward, error results in unrolling in
  the goto fail block." The block reads the three pointers of a structure from
  `rmw_allocate` that may not have been set, and calls destructors of objects
  that may not have been constructed (wait_set.cpp:96 asks "How to know which
  constructor threw?"). If the allocation of the `DDS::WaitSet` fails, or its
  constructor (wait_set.cpp:45, :51), the other two have not been set.
* `service_suffix`. custom_data_reader_listener.cpp:192 says "Check if the topic suffix matches and is at
  the end of the name", and line 194 looks for it anywhere. A service whose name contains the word `Request`
  (or `Reply`) is listed among a node's services (clients) when the node has only a client
  (server) for it. Without such names the answers are exact, and a node's own are told in any
  case (`ServicesOfNode`).

## Observations

What the properties name as exceptions, or had to be stated around:

* A trigger of the graph guard condition that fails is only printed
  (custom_data_reader_listener.cpp:84): the change stays unseen until the next trigger (`missed`).
* If OpenDDS fails to give the node's own QoS, `get_key` goes on to the other participants
  (OpenDDSNode.cpp:565) and may answer that the node itself does not exist; and `get_names` skips in silence a participant
  whose data it cannot read (OpenDDSNode.cpp:179), where `get_key` and the endpoint info report an error (`unread`).
* Local endpoints whose handles have one GUID share one entry, and the first to be destroyed takes
  it (`Unshared`, in NodeGraph and Entities).
* `OpenDDSNode::cleanup` only notes that OpenDDS failed to delete the DDS entities or the participant
  (OpenDDSNode.cpp:410), and forgets them (`DestroyNode` in Entities, `"orphan"` in NodeLifecycle).
* Only types of a package's `msg` directory are demangled (demangle.cpp), and only services of its
  `srv` directory are listed: the topics of actions show their DDS type, the services of actions and raw
  services are in no list. `ShownType` and `IsListed` state it.
* An entity whose node already has a topic of that name gets that topic, with its type,
  whatever it asked for (DDSTopic.cpp:109). Its own node then shows the type asked for,
  other nodes that of the topic (`MessageType`). A topic stays until its
  participant goes. If two threads both miss the lookup and the types differ, the second creation fails.
* A destroyed publisher or subscription gives up its references and does not delete its DDS entities
  (DDSPublisher.cpp:115): they stay with the participant until the node goes (`Contained` in
  Entities), and other nodes go on seeing them.
* A depth whose low 32 bits DDS takes for negative is not refused (qos.hpp:99).
* A call of `rmw_wait` that fails on an event returns an error after it has reset guard conditions (wait.hpp:254).

## Not modelled

* `fill_service_names_and_types` walks a map without its lock
  (custom_data_reader_listener.cpp:137). That is a data race with every outcome; no property of it
  can hold but its absence, which fails by reading. Endpoints models its answer on a cache at rest.
* Overlapping `rmw_create_node` calls, which rmw excludes: the default participant QoS that carries the name, and the
  counter of transport names, are then shared without a common lock.
* Publish, take, requests and replies: sequences of calls into DDS and the generated type
  support, which is not in the repository. At rmw_take.cpp:94 the pointer
  `taken` is tested instead of the flag; what comes of it is up to the generated code.
* Matched counts of publishers and subscriptions: one integer, overwritten by a
  listener and read by a query.
* GIDs, the QoS of endpoint info (commented out in the code), security files, loaned
  messages (not implemented), identifiers, logging.
* OpenDDS itself: its behaviour appears as the actions of the domain, the
  built-in readers, the DDS wait and the topics.

## Plan

Done: the graph from the domain to the waiter (DiscoveryListener, NodeGraph), `rmw_wait` and
the promise it implements (WaitSet, AtomicWait), server availability, Entities, NodeLifecycle, NodeQueries,
names, QoS and shared topics (Endpoints), the registry (Registry); the proofs of all
their safety properties. Left:

1. The composition of NodeGraph with AtomicWait in place of its own waiter.
2. The counter of transport names with creations that overlap, if rmw comes to allow them.
