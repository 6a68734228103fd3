------------------------ MODULE ServerAvailability_proofs ------------------------
(***************************************************************************)
(* Proof that a client never misses a server that is ready, for any finite *)
(* number of servers, whichever of them come and go during the call.       *)
(*                                                                         *)
(* The call reads two counts at two moments; throughout says that at every *)
(* moment since it began both were positive.  So it has to be carried      *)
(* through the call: while it holds, both are positive now, and what has   *)
(* been counted was positive when it was counted.                          *)
(***************************************************************************)
EXTENDS ServerAvailability, FiniteSetTheorems, TLAPS

\* The matched endpoints are those of servers.
MatchedType ==
    /\ requestMatched \subseteq Server /\ replyMatched \subseteq Server
    /\ throughout \in BOOLEAN
    /\ pc \in {"idle", "subscribers", "publishers"}

\* During a call that has seen a server ready all along, one is ready now, and if its
\* request readers have been counted there was one.
ReadyAllAlong ==
    pc # "idle" /\ throughout => Ready /\ (pc = "publishers" => subscribers # 0)

IInv == MatchedType /\ ReadyAllAlong

\* A count is zero just when nothing is matched.
LEMMA CountIsZero ==
  ASSUME NEW S \in SUBSET Server
  PROVE  Cardinality(S) = 0 <=> S = {}
<1>1. IsFiniteSet(S)
  BY ServerAssumption, FS_Subset
<1> QED
  BY <1>1, FS_EmptySet

\* Discovery that leaves no server ready ends throughout with it, and the two counts are
\* taken where throughout speaks of them.
LEMMA Inductive == Spec => []IInv
<1> USE DEF IInv, MatchedType, ReadyAllAlong, Ready
<1>1. Init => IInv
  BY DEF Init
<1>2. IInv /\ [Next]_vars => IInv'
  <2> SUFFICES ASSUME IInv, [Next]_vars PROVE IInv'
    OBVIOUS
  <2>1. CASE Discovery
    <3>1. requestMatched' \subseteq Server /\ replyMatched' \subseteq Server
      BY <2>1 DEF Discovery
    <3>2. UNCHANGED <<pc, subscribers>> /\ throughout' = (throughout /\ Ready')
      BY <2>1 DEF Discovery
    <3> QED
      BY <3>1, <3>2
  <2>2. CASE Call
    BY <2>2 DEF Call, matchVars
  <2>3. CASE CountSubscribers
    BY <2>3, CountIsZero DEF CountSubscribers, matchVars
  <2>4. CASE CountPublishers
    BY <2>4 DEF CountPublishers, matchVars
  <2>5. CASE CountFails
    BY <2>5 DEF CountFails, matchVars
  <2>6. CASE UNCHANGED vars
    BY <2>6 DEF vars
  <2> QED
    BY <2>1, <2>2, <2>3, <2>4, <2>5, <2>6 DEF Next
<1> QED
  BY <1>1, <1>2, PTL DEF Spec

\* For any finite number of servers: a call during which at every moment a request reader
\* and a reply writer were matched answers that a server is available, unless it cannot read
\* a status, although the two counts are not of the same moment (is_server_available).
THEOREM ReadyServerAlwaysSeen == Spec => ReadyServerSeen
<1>1. IInv /\ [Next]_vars => [Returns /\ throughout /\ ~failed' => available']_vars
  <2> SUFFICES ASSUME IInv, Next, Returns, throughout, ~failed'
               PROVE  available'
    OBVIOUS
  <2>1. CASE CountPublishers
    <3>1. replyMatched \in SUBSET Server /\ replyMatched # {} /\ subscribers # 0
      BY <2>1 DEF CountPublishers, IInv, MatchedType, ReadyAllAlong, Ready
    <3>2. Cardinality(replyMatched) # 0
      BY <3>1, CountIsZero
    <3> QED
      BY <2>1, <3>1, <3>2 DEF CountPublishers
  <2>2. CASE CountFails
    BY <2>2 DEF CountFails
  <2>3. CASE Discovery \/ Call \/ CountSubscribers
    BY <2>3 DEF Discovery, Call, CountSubscribers, Returns
  <2> QED
    BY <2>1, <2>2, <2>3 DEF Next
<1> QED
  BY <1>1, Inductive, PTL DEF Spec, ReadyServerSeen

===============================================================================
