--------------------------- MODULE ServerAvailability ---------------------------
(***************************************************************************)
(* rmw_service_server_is_available (rmw_client.cpp, DDSClient.cpp): a      *)
(* client asks whether a server is there by reading, one after the other,  *)
(* how many request readers its request writer is matched with and how     *)
(* many reply writers its reply reader is matched with, while discovery    *)
(* matches and unmatches the two endpoints of each server in any order.    *)
(***************************************************************************)
EXTENDS Naturals, FiniteSets

CONSTANTS Server

ASSUME ServerAssumption == IsFiniteSet(Server)

VARIABLES
    requestMatched,  \* servers whose request reader is matched with the client
    replyMatched,    \* servers whose reply writer is matched with the client
    pc,              \* where the call is
    subscribers,     \* request_subscribers
    available,       \* the result of the last call
    failed,          \* a status could not be read
    throughout,      \* both endpoints were matched at every moment of the call
    atOnce           \* both endpoints were matched at some moment of the call

vars == <<requestMatched, replyMatched, pc, subscribers, available, failed,
          throughout, atOnce>>

matchVars == <<requestMatched, replyMatched>>

\* A server is ready (DDSClient.cpp:101): a request reader and a reply writer are matched.
Ready == requestMatched # {} /\ replyMatched # {}

Init ==
    /\ requestMatched = {} /\ replyMatched = {}
    /\ pc = "idle"
    /\ subscribers = 0
    /\ available = FALSE /\ failed = FALSE
    /\ throughout = FALSE /\ atOnce = FALSE

-------------------------------------------------------------------------------
\* Discovery: one endpoint of one server is matched or unmatched.
Discovery ==
    /\ \E s \in Server :
        \/ requestMatched' = (requestMatched \cup {s}) /\ UNCHANGED replyMatched
        \/ requestMatched' = requestMatched \ {s} /\ UNCHANGED replyMatched
        \/ replyMatched' = (replyMatched \cup {s}) /\ UNCHANGED requestMatched
        \/ replyMatched' = replyMatched \ {s} /\ UNCHANGED requestMatched
    /\ throughout' = (throughout /\ Ready')
    /\ atOnce' = (atOnce \/ Ready')
    /\ UNCHANGED <<pc, subscribers, available, failed>>

-------------------------------------------------------------------------------
Call ==
    /\ pc = "idle"
    /\ pc' = "subscribers"
    /\ failed' = FALSE
    /\ throughout' = Ready /\ atOnce' = Ready
    /\ UNCHANGED <<matchVars, subscribers, available>>

\* count_matched_subscribers
CountSubscribers ==
    /\ pc = "subscribers"
    /\ subscribers' = Cardinality(requestMatched)
    /\ pc' = "publishers"
    /\ UNCHANGED <<matchVars, available, failed, throughout, atOnce>>

\* Fault: the check takes one matched reader for none.
CountPublishersOffByOne ==
    /\ pc = "publishers"
    /\ available' = (subscribers > 1 /\ Cardinality(replyMatched) > 0)
    /\ pc' = "idle"
    /\ UNCHANGED <<matchVars, subscribers, failed, throughout, atOnce>>

\* count_matched_publishers, and the result.
CountPublishers ==
    /\ pc = "publishers"
    /\ available' = (subscribers # 0 /\ Cardinality(replyMatched) # 0)
    /\ pc' = "idle"
    /\ UNCHANGED <<matchVars, subscribers, failed, throughout, atOnce>>

\* The status cannot be read: no server is available.
CountFails ==
    /\ pc \in {"subscribers", "publishers"}
    /\ available' = FALSE /\ failed' = TRUE
    /\ pc' = "idle"
    /\ UNCHANGED <<matchVars, subscribers, throughout, atOnce>>

Next == Discovery \/ Call \/ CountSubscribers \/ CountPublishers \/ CountFails

Spec == Init /\ [][Next]_vars

-------------------------------------------------------------------------------
(* Properties.  They speak of the moment a call returns. *)

Returns == pc # "idle" /\ pc' = "idle"

\* A server that is ready for the whole call is not missed, whichever servers come and go
\* meanwhile, unless a status could not be read.
ReadyServerSeen == [][Returns /\ throughout /\ ~failed' => available']_vars

\* What the comment at DDSClient.cpp:101 says: a server is available when both endpoints
\* are matched, hence at some moment of a call that returns true they were.
AvailableMeansReady == [][Returns /\ available' => atOnce]_vars

===============================================================================
