------------------------------- MODULE NodeGraph -------------------------------
(***************************************************************************)
(* The graph of one OpenDDSNode: how a change in the domain reaches a user *)
(* that waits on the node's graph guard condition.                         *)
(*                                                                         *)
(* The built-in topic readers announce remote writers and readers.  Their  *)
(* listeners (CustomPublisherListener and CustomSubscriberListener) take   *)
(* the samples and bring the discovery cache up to date, sample by sample, *)
(* then trigger the guard condition once.  Application threads record the  *)
(* endpoints they create and destroy in the same caches                    *)
(* (OpenDDSNode::add_pub, remove_pub, ...) and trigger it too.  A trigger  *)
(* that fails is printed and never made up for: `missed' records it.  A    *)
(* waiter sits in rmw_wait, which resets the guard condition before it     *)
(* returns; the waiter then queries the graph, the writers first           *)
(* (get_topic_names_types).                                                *)
(*                                                                         *)
(* A cache is the set of GUIDs it holds: each call on it is atomic, as the *)
(* module DiscoveryListener shows.  A remote endpoint stands for its GUID. *)
(* A local one is recorded under the GUID that get_repoid gives for a      *)
(* handle: that of the DataWriter or DataReader for a client or a service, *)
(* but that of the DDS Publisher or Subscriber for a topic, and nothing in *)
(* the code says that two of those have different GUIDs.  The built-in     *)
(* readers, the domain, get_repoid and the trigger value of the guard      *)
(* condition are OpenDDS's.                                                *)
(***************************************************************************)

CONSTANTS
    Remote,    \* endpoints of other participants
    Local,     \* endpoints this node creates and destroys
    NoLocal,
    LocalGuid, \* the GUIDs under which it records them
    GuidOf,
    KindOf,    \* "pub" for a DataWriter, "sub" for a DataReader
    App,       \* application threads that create and destroy endpoints
    Waiter     \* application threads that wait for graph changes

Kind == {"pub", "sub"}
Endpoint == Remote \cup Local
Entry == Remote \cup LocalGuid

ASSUME KindOfType == KindOf \in [Endpoint -> Kind]
ASSUME GuidOfType == GuidOf \in [Local -> LocalGuid]
ASSUME SeparateEndpoints ==
    Remote \cap Local = {} /\ Remote \cap LocalGuid = {} /\ NoLocal \notin Local
ASSUME SomeWaiter == Waiter # {}

VARIABLES
    remote,     \* the life of each remote endpoint
    unread,     \* the endpoints with samples in each built-in reader
    notified,   \* a data_available callback is due
    listening,  \* set_listener has been called
    running,    \* on_data_available has taken samples and not returned
    batch,      \* the samples it has still to process
    cache,      \* the GUIDs each listener knows
    local,      \* the life of each local endpoint
    busy,       \* the local endpoint whose change a thread has still to announce
    triggered,  \* the trigger value of the graph guard condition
    missed,     \* the listeners with a trigger that failed, and no look at them since
    waiter,     \* where each waiter is
    view        \* what it has last read from each listener

vars == <<remote, unread, notified, listening, running, batch, cache, local, busy,
          triggered, missed, waiter, view>>

domainVars == <<remote, unread, notified>>
callbackVars == <<listening, running, batch>>
appVars == <<local, busy>>
guardVars == <<triggered, missed>>
waiterVars == <<waiter, view>>

Sample == [endpoint : Remote, alive : BOOLEAN]

\* The constructor of OpenDDSNode has returned.
Constructed == \A k \in Kind : listening[k]

Init ==
    /\ remote = [e \in Remote |-> "unknown"]
    /\ unread = [k \in Kind |-> {}]
    /\ notified = [k \in Kind |-> FALSE]
    /\ listening = [k \in Kind |-> FALSE]
    /\ running = [k \in Kind |-> FALSE]
    /\ batch = [k \in Kind |-> {}]
    /\ cache = [k \in Kind |-> {}]
    /\ local = [l \in Local |-> "none"]
    /\ busy = [a \in App |-> NoLocal]
    /\ triggered = FALSE
    /\ missed = {}
    /\ waiter = [w \in Waiter |-> "waiting"]
    /\ view = [w \in Waiter |-> [k \in Kind |-> {}]]

-------------------------------------------------------------------------------
(* The domain: a remote endpoint appears, changes its QoS, leaves for good. *)

\* A sample calls the listener back only if there is one.
Announce(e) ==
    LET k == KindOf[e]
    IN  /\ unread' = [unread EXCEPT ![k] = @ \cup {e}]
        /\ notified' = [notified EXCEPT ![k] = @ \/ listening[k]]
        /\ UNCHANGED <<callbackVars, cache, appVars, guardVars, waiterVars>>

RemoteAppears(e) ==
    /\ remote[e] = "unknown"
    /\ remote' = [remote EXCEPT ![e] = "alive"]
    /\ Announce(e)

RemoteUpdates(e) ==
    /\ remote[e] = "alive"
    /\ Announce(e)
    /\ UNCHANGED remote

RemoteLeaves(e) ==
    /\ remote[e] = "alive"
    /\ remote' = [remote EXCEPT ![e] = "gone"]
    /\ Announce(e)

-------------------------------------------------------------------------------
(* The listeners *)

\* The end of the constructor: the writers' listener, then the readers'.
SetListener(k) ==
    /\ ~listening[k]
    /\ k = "sub" => listening["pub"]
    /\ listening' = [listening EXCEPT ![k] = TRUE]
    /\ UNCHANGED <<domainVars, running, batch, cache, appVars, guardVars, waiterVars>>

\* on_data_available takes every sample; the instance state is that of the moment.
TakeSamples(k) ==
    /\ notified[k] /\ ~running[k]
    /\ notified' = [notified EXCEPT ![k] = FALSE]
    /\ unread' = [unread EXCEPT ![k] = {}]
    /\ batch' = [batch EXCEPT ![k] =
            {[endpoint |-> e, alive |-> remote[e] = "alive"] : e \in unread[k]}]
    /\ running' = [running EXCEPT ![k] = unread[k] # {}]
    /\ UNCHANGED <<remote, listening, cache, appVars, guardVars, waiterVars>>

\* The take fails: the callback returns and leaves the samples where they are.
TakeFails(k) ==
    /\ notified[k] /\ ~running[k]
    /\ notified' = [notified EXCEPT ![k] = FALSE]
    /\ UNCHANGED <<remote, unread, callbackVars, cache, appVars, guardVars, waiterVars>>

\* Fault: a sample is recorded whatever its instance state.
ProcessSampleAsAlive(k, s) ==
    /\ s \in batch[k]
    /\ batch' = [batch EXCEPT ![k] = @ \ {s}]
    /\ cache' = [cache EXCEPT ![k] = @ \cup {s.endpoint}]
    /\ UNCHANGED <<domainVars, listening, running, appVars, guardVars, waiterVars>>

\* Fault: both listeners share one cache.
ProcessSampleInBoth(k, s) ==
    /\ s \in batch[k]
    /\ batch' = [batch EXCEPT ![k] = @ \ {s}]
    /\ cache' = [j \in Kind |-> IF s.alive THEN cache[j] \cup {s.endpoint}
                                           ELSE cache[j] \ {s.endpoint}]
    /\ UNCHANGED <<domainVars, listening, running, appVars, guardVars, waiterVars>>

\* add_information for a valid sample of an alive instance, else remove_information.
ProcessSample(k, s) ==
    /\ s \in batch[k]
    /\ batch' = [batch EXCEPT ![k] = @ \ {s}]
    /\ cache' = [cache EXCEPT ![k] = IF s.alive THEN @ \cup {s.endpoint}
                                                ELSE @ \ {s.endpoint}]
    /\ UNCHANGED <<domainVars, listening, running, appVars, guardVars, waiterVars>>

\* trigger_graph_guard_condition: it only prints that setting the guard condition failed.
\* Once one has succeeded whoever looks next looks at both listeners.
TriggerGraphGuardCondition(k) ==
    \/ triggered' = TRUE /\ missed' = {}
    \/ missed' = missed \cup {k} /\ UNCHANGED triggered

\* Fault: the guard condition is triggered before the samples are processed.
TriggerBeforeBatch(k) ==
    /\ running[k]
    /\ TriggerGraphGuardCondition(k)
    /\ running' = [running EXCEPT ![k] = FALSE]
    /\ UNCHANGED <<domainVars, listening, batch, cache, appVars, waiterVars>>

TriggerAfterBatch(k) ==
    /\ running[k] /\ batch[k] = {}
    /\ TriggerGraphGuardCondition(k)
    /\ running' = [running EXCEPT ![k] = FALSE]
    /\ UNCHANGED <<domainVars, listening, batch, cache, appVars, waiterVars>>

-------------------------------------------------------------------------------
(* The application's own endpoints *)

\* add_pub and add_sub up to add_information.
CreateLocal(a, l) ==
    /\ Constructed
    /\ busy[a] = NoLocal /\ local[l] = "none"
    /\ local' = [local EXCEPT ![l] = "open"]
    /\ cache' = [cache EXCEPT ![KindOf[l]] = @ \cup {GuidOf[l]}]
    /\ busy' = [busy EXCEPT ![a] = l]
    /\ UNCHANGED <<domainVars, callbackVars, guardVars, waiterVars>>

\* Fault: remove_pub and remove_sub do not trigger the guard condition.
DestroyLocalSilently(a, l) ==
    /\ busy[a] = NoLocal /\ local[l] = "open"
    /\ \A b \in App : busy[b] # l
    /\ local' = [local EXCEPT ![l] = "closed"]
    /\ cache' = [cache EXCEPT ![KindOf[l]] = @ \ {GuidOf[l]}]
    /\ UNCHANGED <<busy, domainVars, callbackVars, guardVars, waiterVars>>

\* remove_pub and remove_sub: the trigger follows only if there was something to remove.
DestroyLocal(a, l) ==
    /\ busy[a] = NoLocal /\ local[l] = "open"
    /\ \A b \in App : busy[b] # l
    /\ local' = [local EXCEPT ![l] = "closed"]
    /\ cache' = [cache EXCEPT ![KindOf[l]] = @ \ {GuidOf[l]}]
    /\ busy' = [busy EXCEPT ![a] = IF GuidOf[l] \in cache[KindOf[l]] THEN l ELSE NoLocal]
    /\ UNCHANGED <<domainVars, callbackVars, guardVars, waiterVars>>

TriggerByApp(a) ==
    /\ busy[a] # NoLocal
    /\ TriggerGraphGuardCondition(KindOf[busy[a]])
    /\ busy' = [busy EXCEPT ![a] = NoLocal]
    /\ UNCHANGED <<domainVars, callbackVars, cache, local, waiterVars>>

-------------------------------------------------------------------------------
(* The waiter.  An rmw_wait that times out changes nothing here. *)

WaitReturns(w) ==
    /\ waiter[w] = "waiting" /\ triggered
    /\ waiter' = [waiter EXCEPT ![w] = "resetting"]
    /\ UNCHANGED <<domainVars, callbackVars, cache, appVars, guardVars, view>>

\* Fault: rmw_wait resets the guard condition and does not report it.
ResetWithoutReport(w) ==
    /\ waiter[w] = "resetting"
    /\ triggered' = FALSE
    /\ waiter' = [waiter EXCEPT ![w] = "waiting"]
    /\ UNCHANGED <<domainVars, callbackVars, cache, appVars, missed, view>>

\* rmw_wait: condition->set(false) for a guard condition among the active ones.
ResetGuardCondition(w) ==
    /\ waiter[w] = "resetting"
    /\ triggered' = FALSE
    /\ waiter' = [waiter EXCEPT ![w] = "reading_pub"]
    /\ UNCHANGED <<domainVars, callbackVars, cache, appVars, missed, view>>

\* If that fails rmw_wait does, and its caller waits again.
ResetFails(w) ==
    /\ waiter[w] = "resetting"
    /\ waiter' = [waiter EXCEPT ![w] = "waiting"]
    /\ UNCHANGED <<domainVars, callbackVars, cache, appVars, guardVars, view>>

ReadPub(w) ==
    /\ waiter[w] = "reading_pub"
    /\ view' = [view EXCEPT ![w]["pub"] = cache["pub"]]
    /\ missed' = missed \ {"pub"}
    /\ waiter' = [waiter EXCEPT ![w] = "reading_sub"]
    /\ UNCHANGED <<domainVars, callbackVars, cache, appVars, triggered>>

ReadSub(w) ==
    /\ waiter[w] = "reading_sub"
    /\ view' = [view EXCEPT ![w]["sub"] = cache["sub"]]
    /\ missed' = missed \ {"sub"}
    /\ waiter' = [waiter EXCEPT ![w] = "waiting"]
    /\ UNCHANGED <<domainVars, callbackVars, cache, appVars, triggered>>

-------------------------------------------------------------------------------
Domain == \E e \in Remote : RemoteAppears(e) \/ RemoteUpdates(e) \/ RemoteLeaves(e)

Callback(k) ==
    \/ TakeSamples(k) \/ TakeFails(k)
    \/ \E s \in Sample : ProcessSample(k, s)
    \/ TriggerAfterBatch(k)

Application(a) ==
    \/ \E l \in Local : CreateLocal(a, l) \/ DestroyLocal(a, l)
    \/ TriggerByApp(a)

Wait(w) ==
    \/ WaitReturns(w) \/ ResetGuardCondition(w) \/ ResetFails(w)
    \/ ReadPub(w) \/ ReadSub(w)

Next ==
    \/ Domain
    \/ \E k \in Kind : SetListener(k) \/ Callback(k)
    \/ \E a \in App : Application(a)
    \/ \E w \in Waiter : Wait(w)

Spec == Init /\ [][Next]_vars

\* Threads that are inside a call run on: OpenDDS's callback threads, an application
\* thread between its cache update and its trigger, and a waiter that keeps waiting.
\* A take and a reset that are tried again and again do not fail every time.  Nothing is
\* assumed of the domain, of when the application calls, or of the triggers.
Fairness ==
    /\ \A k \in Kind : WF_vars(SetListener(k)) /\ WF_vars(Callback(k)) /\ SF_vars(TakeSamples(k))
    /\ \A a \in App : WF_vars(TriggerByApp(a))
    /\ \A w \in Waiter : WF_vars(Wait(w)) /\ SF_vars(ResetGuardCondition(w))

FairSpec == Spec /\ Fairness

-------------------------------------------------------------------------------
(* Properties *)

\* Every variable keeps its type, and each listener holds remote endpoints of its own
\* kind only: the two built-in readers are not mixed up.
TypeOK ==
    /\ remote \in [Remote -> {"unknown", "alive", "gone"}]
    /\ unread \in [Kind -> SUBSET Remote]
    /\ notified \in [Kind -> BOOLEAN]
    /\ listening \in [Kind -> BOOLEAN]
    /\ running \in [Kind -> BOOLEAN]
    /\ batch \in [Kind -> SUBSET Sample]
    /\ cache \in [Kind -> SUBSET Entry]
    /\ local \in [Local -> {"none", "open", "closed"}]
    /\ busy \in [App -> Local \cup {NoLocal}]
    /\ triggered \in BOOLEAN
    /\ missed \subseteq Kind
    /\ waiter \in [Waiter -> {"waiting", "resetting", "reading_pub", "reading_sub"}]
    /\ view \in [Waiter -> [Kind -> SUBSET Entry]]
    /\ \A k \in Kind :
        /\ \A e \in unread[k] \cup (cache[k] \cap Remote) : KindOf[e] = k
        /\ \A s \in batch[k] : KindOf[s.endpoint] = k

\* A change of what that listener knows is still to be announced.
TriggerDue(k) == running[k] \/ \E a \in App : busy[a] # NoLocal /\ KindOf[busy[a]] = k

\* The waiter has consumed a trigger and will read that listener before it waits again.
WillRead(w, k) ==
    \/ waiter[w] = "reading_pub"
    \/ waiter[w] = "reading_sub" /\ k = "sub"

LookOwed(k) == triggered \/ TriggerDue(k) \/ \E w \in Waiter : WillRead(w, k)

\* No graph change is lost between the listeners, the application threads and a reset in
\* rmw_wait, which may fail: if no waiter has seen the present contents of a listener, then
\* the guard condition is triggered, or is to be for this listener, or a waiter is about to
\* read.  Only a trigger that failed may leave a change unseen, and only of its own listener,
\* until the next one that succeeds.
NoLostChange ==
    \A k \in Kind : LookOwed(k) \/ k \in missed \/ \E w \in Waiter : view[w][k] = cache[k]

InBatch(e) == \E s \in batch[KindOf[e]] : s.endpoint = e

\* No other local endpoint of that kind is recorded under the same GUID.
Unshared(l) ==
    \A m \in Local \ {l} : GuidOf[m] = GuidOf[l] => KindOf[m] # KindOf[l]

Open(k) == {l \in Local : KindOf[l] = k /\ local[l] = "open"}

RemotesExact ==
    \A e \in Remote :
        e \in unread[KindOf[e]] \/ InBatch(e)
            \/ (e \in cache[KindOf[e]] <=> remote[e] = "alive")

OpenRecorded ==
    \A l \in Local : Unshared(l) /\ local[l] = "open" => GuidOf[l] \in cache[KindOf[l]]

NoClosedRecorded ==
    \A k \in Kind : \A g \in cache[k] \cap LocalGuid : \E l \in Open(k) : GuidOf[l] = g

\* The cache tells the truth about every endpoint of which no sample is under way:
\* on_data_available handles samples in any order and only with the state they had when
\* taken, and still a remote endpoint is cached exactly while alive.  A local endpoint
\* with a GUID of its own is cached exactly while open; a shared GUID is never cached
\* once all its endpoints are closed, although the first to close removes it.
SettledIsExact == RemotesExact /\ OpenRecorded /\ NoClosedRecorded

Alive(k) == {e \in Remote : KindOf[e] = k /\ remote[e] = "alive"}

\* Exactly the remote endpoints that are alive, and the GUIDs of the local ones that are
\* open, except that a shared one may be missing.
Exact(k, seen) ==
    /\ seen \cap Remote = Alive(k)
    /\ seen \cap LocalGuid \subseteq {GuidOf[l] : l \in Open(k)}
    /\ {GuidOf[l] : l \in {m \in Open(k) : Unshared(m)}} \subseteq seen

\* Samples that arrived before set_listener, or whose take failed, wait for the next
\* callback.
Stranded(k) == unread[k] # {} /\ ~notified[k]

\* With one waiter: once the domain and the application have settled, the waiter has
\* read the true graph, except for a listener with stranded samples or whose last trigger
\* failed.
EventuallyConsistent ==
    \A w \in Waiter, k \in Kind : <>[](Stranded(k) \/ k \in missed \/ Exact(k, view[w][k]))

\* The node implements the abstract promise to its waiters.
Watch == INSTANCE GraphWatch WITH
    Endpoint <- Entry,
    graph <- cache,
    owed <- [k \in Kind |-> LookOwed(k)]

ImplementsGraphWatch == Watch!WatchSpec

===============================================================================
