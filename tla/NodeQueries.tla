------------------------------ MODULE NodeQueries ------------------------------
(***************************************************************************)
(* The queries that join two tables: OpenDDS's table of the discovered     *)
(* participants, whose user data names their nodes, and the cache of       *)
(* endpoints of this node's own listener.                                  *)
(*                                                                         *)
(*  "by_node": rmw_get_publisher_names_and_types_by_node and its three     *)
(*             siblings find the participant of a named node (get_key) and *)
(*             then read the cache for it.                                 *)
(*  "names":   rmw_get_node_names (get_names) lists the named nodes.       *)
(*  "info":    rmw_get_publishers_info_by_topic and its sibling name the   *)
(*             participants first, then take pointers to the endpoints in  *)
(*             the cache and, after the unlock, copy what they point to.   *)
(*                                                                         *)
(* The table is read handle by handle and nothing is locked over more than *)
(* one read, so participants and endpoints come and go in the middle of a  *)
(* call.  A query changes nothing shared: one call at a time is enough.    *)
(* Only the endpoints a query is after (its topic, its kind) are modelled. *)
(***************************************************************************)
CONSTANTS
    Participant,  \* remote participants
    Self,         \* this node's participant
    Name,         \* node names with their namespaces
    NoName,
    NameOnly,     \* participants of other programs with a name, but no namespace
    Endpoint,
    NameOf,       \* the name and namespace in a participant's user data, if both are there
    OwnerOf       \* the participant of an endpoint

Known == Participant \cup {Self}

ASSUME SelfAssumption == Self \notin Participant
ASSUME NoNameAssumption == NoName \notin Name
ASSUME NameOfType == NameOf \in [Known -> Name \cup {NoName}] /\ NameOf[Self] \in Name
ASSUME NameOnlyType == \A p \in NameOnly : p \in Participant /\ NameOf[p] = NoName
ASSUME OwnerOfType == OwnerOf \in [Endpoint -> Known]

Query == {"by_node", "names", "info"}
Unknown == NoName

VARIABLES
    table,     \* the discovered participants, as OpenDDS has them
    cache,     \* the endpoints in the listener's topic cache
    pc, query, asked,
    handles,   \* of the participants that have not been looked up
    key,       \* get_key's participant
    named,     \* participants whose names the call has noted
    pointers,  \* endpoints whose entries have been found and not copied
    dangling,  \* those whose entry the listener has erased since
    answer,    \* by_node: endpoints; info: pairs of an endpoint and a name
    result,
    \* The history of the call: who was there throughout it, who at some moment of it,
    \* whose data OpenDDS failed to give though they were there, whether a participant
    \* left, whether OpenDDS or the allocator failed in a way the call reports.
    steady, seen, unread, departed, failed

domainVars == <<table, cache>>
localVars == <<query, asked, handles, key, named, pointers, answer, result>>
historyVars == <<steady, seen, unread, departed, failed>>
vars == <<domainVars, pc, localVars, dangling, historyVars>>

Init ==
    /\ table = {} /\ cache = {}
    /\ pc = "idle" /\ query = "names" /\ asked = NoName
    /\ handles = {} /\ key = Self /\ named = {}
    /\ pointers = {} /\ dangling = {} /\ answer = {} /\ result = "OK"
    /\ steady = {} /\ seen = {} /\ unread = {} /\ departed = FALSE /\ failed = FALSE

-------------------------------------------------------------------------------
(* OpenDDS's discovery and the listener *)

Discover(p) ==
    /\ p \notin table
    /\ table' = table \cup {p}
    /\ seen' = seen \cup {p}
    /\ UNCHANGED <<cache, pc, localVars, dangling, steady, unread, departed, failed>>

\* A participant says farewell or its lease expires.
Leave(p) ==
    /\ p \in table
    /\ table' = table \ {p}
    /\ steady' = steady \ {p}
    /\ departed' = TRUE
    /\ UNCHANGED <<cache, pc, localVars, dangling, seen, unread, failed>>

\* add_information and remove_information; the listener runs behind the table.
Add(e) ==
    /\ e \notin cache
    /\ cache' = cache \cup {e}
    /\ UNCHANGED <<table, pc, localVars, dangling, historyVars>>

Remove(e) ==
    /\ e \in cache
    /\ cache' = cache \ {e}
    /\ dangling' = dangling \cup ({e} \cap pointers)
    /\ UNCHANGED <<table, pc, localVars, historyVars>>

-------------------------------------------------------------------------------
(* The calls *)

Return(r) ==
    /\ pc' = "done"
    /\ result' = r

Call(q, n, start, who, failing) ==
    /\ pc \in {"idle", "done"}
    /\ pc' = start
    /\ query' = q /\ asked' = n /\ key' = Self
    /\ handles' = {} /\ named' = who
    /\ pointers' = {} /\ dangling' = {} /\ answer' = {} /\ result' = "OK"
    /\ steady' = table \cup {Self} /\ seen' = table \cup {Self}
    /\ unread' = failing /\ departed' = FALSE /\ failed' = FALSE
    /\ UNCHANGED domainVars

\* get_key looks at the node's own participant first.  If OpenDDS does not give its user
\* data, that is passed over, and the search goes on among the others.
CallByNode(n) ==
    \/ /\ NameOf[Self] = n
       /\ Call("by_node", n, "read_cache", {}, {})
    \/ /\ NameOf[Self] # n
       /\ Call("by_node", n, "get_handles", {}, {})
    \/ Call("by_node", n, "get_handles", {}, {Self})

CallNames == Call("names", NoName, "get_handles", {Self}, {})

\* Fault: the node itself is not among the names.
CallInfoWithoutSelf == Call("info", NoName, "get_handles", {}, {})

CallInfo == Call("info", NoName, "get_handles", {Self}, {})

GetHandles ==
    /\ pc = "get_handles"
    /\ handles' = table
    /\ pc' = "visit"
    /\ UNCHANGED <<domainVars, query, asked, key, named, pointers, answer, result, dangling,
                   historyVars>>

Visit(q, p) ==
    /\ pc = "visit" /\ query = q /\ p \in handles
    /\ handles' = handles \ {p}

\* Fault: a participant that has gone ends the search as if it were the last.
VisitByNodeGivesUp(p) ==
    /\ Visit("by_node", p)
    /\ \/ /\ p \notin table
          /\ Return("NON_EXISTENT") /\ UNCHANGED key
       \/ /\ p \in table /\ NameOf[p] = asked
          /\ key' = p /\ pc' = "read_cache" /\ UNCHANGED result
       \/ /\ p \in table /\ NameOf[p] # asked
          /\ UNCHANGED <<pc, key, result>>
    /\ UNCHANGED <<domainVars, query, asked, named, pointers, answer, dangling, historyVars>>

\* Fault: the key of the participant that matches is not taken over.
VisitByNodeKeepsKey(p) ==
    /\ Visit("by_node", p)
    /\ \/ /\ p \notin table
          /\ Return("ERROR") /\ UNCHANGED key
       \/ /\ p \in table /\ NameOf[p] = asked
          /\ pc' = "read_cache" /\ UNCHANGED <<key, result>>
       \/ /\ p \in table /\ NameOf[p] # asked
          /\ UNCHANGED <<pc, key, result>>
    /\ UNCHANGED <<domainVars, query, asked, named, pointers, answer, dangling, historyVars>>

\* get_key: a handle whose participant has gone is an error.
VisitByNode(p) ==
    /\ Visit("by_node", p)
    /\ \/ /\ p \notin table
          /\ Return("ERROR") /\ UNCHANGED key
       \/ /\ p \in table /\ NameOf[p] = asked
          /\ key' = p /\ pc' = "read_cache" /\ UNCHANGED result
       \/ /\ p \in table /\ NameOf[p] # asked
          /\ UNCHANGED <<pc, key, result>>
    /\ UNCHANGED <<domainVars, query, asked, named, pointers, answer, dangling, historyVars>>

HasName(p) == NameOf[p] # NoName \/ p \in NameOnly

\* The name of p, if OpenDDS gives its data, is noted.
ReadName(p) ==
    \/ named' = (IF p \in table /\ HasName(p) THEN named \cup {p} ELSE named)
          /\ UNCHANGED unread
    \/ p \in table /\ unread' = unread \cup {p} /\ UNCHANGED named

\* Fault: a participant that has gone ends the list.
VisitNamesStops(p) ==
    /\ Visit("names", p)
    /\ ReadName(p)
    /\ IF p \in table THEN UNCHANGED <<pc, result>> ELSE Return("OK")
    /\ UNCHANGED <<domainVars, query, asked, key, pointers, answer, dangling, steady, seen,
                   departed, failed>>

\* Fault: get_names treats it like get_key.
VisitNamesFails(p) ==
    /\ Visit("names", p)
    /\ ReadName(p)
    /\ IF p \in table THEN UNCHANGED <<pc, result>> ELSE Return("ERROR")
    /\ UNCHANGED <<domainVars, query, asked, key, pointers, answer, dangling, steady, seen,
                   departed, failed>>

\* get_names: one that has gone, or whose data OpenDDS fails to give, has no name, and one
\* without a name is left out.  A name without a namespace dereferences the end iterator:
\* an undefined namespace or a crash.
VisitNames(p) ==
    /\ Visit("names", p)
    /\ ReadName(p)
    /\ \/ UNCHANGED pc
       \/ p \in NameOnly /\ p \in named' /\ pc' = "crashed"
    /\ UNCHANGED <<domainVars, query, asked, key, pointers, answer, result, dangling, steady,
                   seen, departed, failed>>

\* _get_info_by_topic: as get_key.
VisitInfo(p) ==
    /\ Visit("info", p)
    /\ \/ p \notin table /\ Return("ERROR") /\ UNCHANGED named
       \/ /\ p \in table
          /\ named' = IF NameOf[p] # NoName THEN named \cup {p} ELSE named
          /\ UNCHANGED <<pc, result>>
    /\ UNCHANGED <<domainVars, query, asked, key, pointers, answer, dangling, historyVars>>

AllVisited ==
    /\ pc = "visit" /\ handles = {}
    /\ CASE query = "by_node" -> Return("NON_EXISTENT")
         [] query = "names"   -> Return("OK")
         [] query = "info"    -> pc' = "pointers" /\ UNCHANGED result
    /\ UNCHANGED <<domainVars, query, asked, handles, key, named, pointers, answer, dangling,
                   historyVars>>

\* fill_topic_names_and_types_by_guid and fill_service_names_and_types_by_guid.
ReadCache ==
    /\ pc = "read_cache"
    /\ answer' = {e \in cache : OwnerOf[e] = key}
    /\ Return("OK")
    /\ UNCHANGED <<domainVars, query, asked, handles, key, named, pointers, dangling, historyVars>>

\* fill_topic_endpoint_infos: under the lock, the addresses of the entries.
TakePointers ==
    /\ pc = "pointers"
    /\ pointers' = cache
    /\ pc' = "copy"
    /\ UNCHANGED <<domainVars, query, asked, handles, key, named, answer, result, dangling,
                   historyVars>>

Label(p) == IF p \in named THEN NameOf[p] ELSE Unknown

\* _set_rmw_topic_endpoint_info: what an erased entry still says is undefined.
Copy(e) ==
    /\ pc = "copy" /\ e \in pointers
    /\ \E label \in IF e \in dangling THEN Name \cup {Unknown} ELSE {Label(OwnerOf[e])} :
          answer' = answer \cup {<<e, label>>}
    /\ pointers' = pointers \ {e}
    /\ UNCHANGED <<domainVars, pc, query, asked, handles, key, named, result, dangling,
                   historyVars>>

AllCopied ==
    /\ pc = "copy" /\ pointers = {}
    /\ Return("OK")
    /\ UNCHANGED <<domainVars, query, asked, handles, key, named, pointers, answer, dangling,
                   historyVars>>

\* The handles cannot be fetched, the data of a participant that is there cannot (get_key
\* and _get_info_by_topic), or memory runs out; what was copied is freed.
Fail ==
    /\ pc \notin {"idle", "done", "crashed"}
    /\ Return("ERROR")
    /\ failed' = TRUE
    /\ answer' = {} /\ pointers' = {}
    /\ UNCHANGED <<domainVars, query, asked, handles, key, named, dangling, steady, seen,
                   unread, departed>>

-------------------------------------------------------------------------------
Next ==
    \/ \E p \in Participant :
        \/ Discover(p) \/ Leave(p)
        \/ VisitByNode(p) \/ VisitNames(p) \/ VisitInfo(p)
    \/ \E e \in Endpoint : Add(e) \/ Remove(e) \/ Copy(e)
    \/ \E n \in Name : CallByNode(n)
    \/ CallNames \/ CallInfo
    \/ GetHandles \/ AllVisited \/ ReadCache \/ TakePointers \/ AllCopied \/ Fail

Spec == Init /\ [][Next]_vars

-------------------------------------------------------------------------------
(* Properties *)

\* Every variable keeps its type.
TypeOK ==
    /\ table \subseteq Participant /\ cache \subseteq Endpoint
    /\ pc \in {"idle", "get_handles", "visit", "read_cache", "pointers", "copy", "done",
              "crashed"}
    /\ query \in Query /\ asked \in Name \cup {NoName}
    /\ handles \subseteq Participant /\ key \in Known /\ named \subseteq Known
    /\ pointers \subseteq Endpoint /\ dangling \subseteq Endpoint
    /\ answer \subseteq Endpoint \cup (Endpoint \X (Name \cup {Unknown}))
    /\ result \in {"OK", "ERROR", "NON_EXISTENT"}
    /\ steady \subseteq Known /\ seen \subseteq Known /\ unread \subseteq Known
    /\ departed \in BOOLEAN /\ failed \in BOOLEAN

Done(q) == pc = "done" /\ query = q

\* get_key says that a node does not exist only if no participant of that name was there
\* throughout the call: others that leave or arrive in the middle hide none.  The node
\* itself is always there, and may be denied only if OpenDDS failed to give its own data.
AbsentMeansAbsent ==
    Done("by_node") /\ result = "NON_EXISTENT" =>
        /\ \A p \in steady \ unread : NameOf[p] # asked
        /\ unread \subseteq {Self}

\* get_key finds a participant of that name, one that was there during the call, and the
\* answer holds endpoints of that participant alone.
AnswerIsOfTheNode ==
    Done("by_node") /\ result = "OK" =>
        /\ key \in seen /\ NameOf[key] = asked
        /\ \A e \in answer : OwnerOf[e] = key

\* get_names lists every named node that was there throughout the call, unless OpenDDS
\* failed to give its data, and none that was never there; the node itself always.
NamesComplete ==
    Done("names") /\ result = "OK" =>
        /\ {p \in steady \ unread : NameOf[p] # NoName} \subseteq named
        /\ named \subseteq seen
        /\ Self \in named

\* Unless OpenDDS or the allocator failed, a query returns an error only when a
\* participant left in the middle of it, and get_names not even then.
ErrorMeansLeft ==
    pc = "done" /\ result = "ERROR" /\ ~failed => departed /\ query # "names"

\* An endpoint of a node that was there throughout the call is reported under that node's
\* name, and no endpoint under the name of another node, unless the listener erased its
\* entry between the unlock and the copy.
InfoNamesOwner ==
    Done("info") => \A e \in Endpoint \ dangling : \A n \in Name \cup {Unknown} :
        <<e, n>> \in answer =>
            \/ n = NameOf[OwnerOf[e]]
            \/ n = Unknown /\ OwnerOf[e] \notin steady

===============================================================================
