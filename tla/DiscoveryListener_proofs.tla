----------------------- MODULE DiscoveryListener_proofs -----------------------
(***************************************************************************)
(* The invariants of DiscoveryListener and its refinement of GraphCache,   *)
(* for any number of endpoints, participants and threads.                  *)
(***************************************************************************)
EXTENDS DiscoveryListener, TLAPS

\* The thread inside a call is the one that holds the mutex.
HolderInside == \A t \in Thread : pc[t] # "idle" <=> mutex = t

\* What a call has established about its endpoint at each point.
CallProgress ==
    \A t \in Thread :
        /\ pc[t] = "put_member" => target[t] \in endpoints
        /\ pc[t] = "erase_info" => target[t] \in endpoints
        /\ pc[t] = "erase_member" => target[t] \notin endpoints

\* The endpoint whose info has changed and whose multiset has not yet.
HalfDone(e) ==
    \E t \in Thread : pc[t] \in {"put_member", "erase_member"} /\ target[t] = e

MembersMatch ==
    \A e \in Endpoint :
        members[e] = IF (e \in endpoints) <=> HalfDone(e) THEN 0 ELSE 1

\* A participant keeps its key while a call is between the two maps.
ParticipantsMatch ==
    \A p \in Participant :
        p \in participants <=>
            \/ \E e \in endpoints : ParticipantOf[e] = p
            \/ \E t \in Thread : /\ pc[t] \in {"put_info", "erase_member"}
                                 /\ ParticipantOf[target[t]] = p

\* A query's loop goes through the whole cache or through one participant of it.
LoopCovers ==
    \A t \in Thread :
        pc[t] = "visit" =>
            \/ todo[t] \cup partial[t] = endpoints
            \/ \E p \in Participant : todo[t] \cup partial[t] = AtomicCache!EndpointsOf(p)

IInv ==
    /\ TypeOK
    /\ HolderInside
    /\ CallProgress
    /\ MembersMatch
    /\ ParticipantsMatch
    /\ LoopCovers

-------------------------------------------------------------------------------
\* While a thread takes a step of a call every other thread is outside: the lock of
\* CustomDataReaderListener makes the calls exclusive.
LEMMA OneCaller ==
    ASSUME TypeOK, HolderInside, NEW t \in Thread, Step(t)
    PROVE  /\ \A u \in Thread \ {t} : pc[u] = "idle" /\ pc'[u] = "idle"
           /\ pc' \in [Thread -> Locations]
           /\ HolderInside'
<1>. USE NoThreadAssumption DEF TypeOK, HolderInside, Locations, Lock, Unlock, Goto, Return
<1>1. ASSUME NEW e \in Endpoint, CallAdd(t, e) \/ CallRemove(t, e) \/ Visit(t, e)
      PROVE  /\ \A u \in Thread \ {t} : pc[u] = "idle" /\ pc'[u] = "idle"
             /\ pc' \in [Thread -> Locations]
             /\ HolderInside'
  BY <1>1 DEF CallAdd, CallRemove, Visit
<1>2. ASSUME NEW p \in Participant, CallScanParticipant(t, p)
      PROVE  /\ \A u \in Thread \ {t} : pc[u] = "idle" /\ pc'[u] = "idle"
             /\ pc' \in [Thread -> Locations]
             /\ HolderInside'
  BY <1>2 DEF CallScanParticipant
<1>3. CASE InitParticipantMap(t) \/ AddTwice(t) \/ PutInfo(t) \/ PutMember(t)
  BY <1>3 DEF InitParticipantMap, AddTwice, PutInfo, PutMember
<1>4. CASE FindFails(t) \/ FindSucceeds(t) \/ EraseInfo(t) \/ EraseMember(t)
  BY <1>4 DEF FindFails, FindSucceeds, EraseInfo, EraseMember
<1>5. CASE CallScan(t) \/ QueryReturns(t)
  BY <1>5 DEF CallScan, QueryReturns
<1>6. QED
  BY <1>1, <1>2, <1>3, <1>4, <1>5 DEF Step

\* The initial state satisfies the inductive invariant.
LEMMA InitEstablishes == Init => IInv
<1>. SUFFICES ASSUME Init PROVE IInv
  OBVIOUS
<1>1. TypeOK
  BY DEF Init, TypeOK, Locations
<1>2. HolderInside /\ CallProgress /\ MembersMatch /\ LoopCovers
  BY NoThreadAssumption DEF Init, HolderInside, CallProgress, MembersMatch, HalfDone, LoopCovers
<1>3. ParticipantsMatch
  BY DEF Init, ParticipantsMatch
<1>4. QED
  BY <1>1, <1>2, <1>3 DEF IInv

\* add_information keeps the invariant, step by step.
LEMMA AddKeeps ==
    ASSUME IInv, NEW t \in Thread, Step(t),
           \/ \E e \in Endpoint : CallAdd(t, e)
           \/ InitParticipantMap(t) \/ AddTwice(t) \/ PutInfo(t) \/ PutMember(t)
    PROVE  IInv'
<1>. USE ParticipantOfType DEF IInv, TypeOK, mapVars, queryVars
<1>1. /\ \A u \in Thread \ {t} : pc[u] = "idle" /\ pc'[u] = "idle"
      /\ pc' \in [Thread -> Locations]
      /\ HolderInside'
  BY OneCaller
<1>2. ASSUME NEW e \in Endpoint, CallAdd(t, e)
      PROVE  IInv'
  <2>. USE <1>1, <1>2 DEF CallAdd, Lock
  <2>1. TypeOK'
    OBVIOUS
  <2>2. CallProgress' /\ LoopCovers'
    BY DEF CallProgress, LoopCovers, AtomicCache!EndpointsOf
  <2>3. MembersMatch'
    BY DEF MembersMatch, HalfDone
  <2>4. ParticipantsMatch'
    BY DEF ParticipantsMatch
  <2>5. QED
    BY <2>1, <2>2, <2>3, <2>4
<1>3. CASE InitParticipantMap(t)
  <2>. USE <1>1, <1>3 DEF InitParticipantMap, Goto
  <2>1. TypeOK'
    OBVIOUS
  <2>2. CallProgress' /\ LoopCovers'
    BY DEF CallProgress, LoopCovers
  <2>3. MembersMatch'
    BY DEF MembersMatch, HalfDone
  <2>4. ParticipantsMatch'
    BY DEF ParticipantsMatch
  <2>5. QED
    BY <2>1, <2>2, <2>3, <2>4
<1>4. CASE AddTwice(t)
  <2>. USE <1>1, <1>4 DEF AddTwice, Return, Unlock
  <2>1. TypeOK'
    OBVIOUS
  <2>2. CallProgress' /\ LoopCovers'
    BY DEF CallProgress, LoopCovers
  <2>3. MembersMatch'
    BY DEF MembersMatch, HalfDone
  <2>4. ParticipantsMatch'
    BY DEF ParticipantsMatch
  <2>5. QED
    BY <2>1, <2>2, <2>3, <2>4
<1>5. CASE PutInfo(t)
  <2>. USE <1>1, <1>5 DEF PutInfo, Goto
  <2>1. TypeOK'
    OBVIOUS
  <2>2. CallProgress' /\ LoopCovers'
    BY DEF CallProgress, LoopCovers
  <2>3. MembersMatch'
    BY DEF MembersMatch, HalfDone
  <2>4. ParticipantsMatch'
    BY DEF ParticipantsMatch
  <2>5. QED
    BY <2>1, <2>2, <2>3, <2>4
<1>6. CASE PutMember(t)
  <2>. USE <1>1, <1>6 DEF PutMember, Return, Unlock
  <2>1. TypeOK'
    OBVIOUS
  <2>2. CallProgress' /\ LoopCovers'
    BY DEF CallProgress, LoopCovers
  <2>3. MembersMatch'
    BY DEF MembersMatch, HalfDone, CallProgress
  <2>4. ParticipantsMatch'
    BY DEF ParticipantsMatch, CallProgress
  <2>5. QED
    BY <2>1, <2>2, <2>3, <2>4
<1>7. QED
  BY <1>2, <1>3, <1>4, <1>5, <1>6

\* remove_information keeps the invariant, step by step.
LEMMA RemoveKeeps ==
    ASSUME IInv, NEW t \in Thread, Step(t),
           \/ \E e \in Endpoint : CallRemove(t, e)
           \/ FindFails(t) \/ FindSucceeds(t) \/ EraseInfo(t) \/ EraseMember(t)
    PROVE  IInv'
<1>. USE ParticipantOfType DEF IInv, TypeOK, mapVars, queryVars
<1>1. /\ \A u \in Thread \ {t} : pc[u] = "idle" /\ pc'[u] = "idle"
      /\ pc' \in [Thread -> Locations]
      /\ HolderInside'
  BY OneCaller
<1>2. ASSUME NEW e \in Endpoint, CallRemove(t, e)
      PROVE  IInv'
  <2>. USE <1>1, <1>2 DEF CallRemove, Lock
  <2>1. TypeOK'
    OBVIOUS
  <2>2. CallProgress' /\ LoopCovers'
    BY DEF CallProgress, LoopCovers
  <2>3. MembersMatch'
    BY DEF MembersMatch, HalfDone
  <2>4. ParticipantsMatch'
    BY DEF ParticipantsMatch
  <2>5. QED
    BY <2>1, <2>2, <2>3, <2>4
<1>3. CASE FindFails(t)
  <2>. USE <1>1, <1>3 DEF FindFails, Return, Unlock
  <2>1. TypeOK'
    BY DEF CallProgress, MembersMatch, HalfDone
  <2>2. CallProgress' /\ LoopCovers'
    BY DEF CallProgress, LoopCovers
  <2>3. MembersMatch'
    BY DEF MembersMatch, HalfDone
  <2>4. ParticipantsMatch'
    BY DEF ParticipantsMatch
  <2>5. QED
    BY <2>1, <2>2, <2>3, <2>4
<1>4. CASE FindSucceeds(t)
  <2>. USE <1>1, <1>4 DEF FindSucceeds, Goto
  <2>1. TypeOK'
    BY DEF CallProgress, MembersMatch, HalfDone, Removable
  <2>2. CallProgress' /\ LoopCovers'
    BY DEF CallProgress, LoopCovers, Removable
  <2>3. MembersMatch'
    BY DEF MembersMatch, HalfDone
  <2>4. ParticipantsMatch'
    BY DEF ParticipantsMatch
  <2>5. QED
    BY <2>1, <2>2, <2>3, <2>4
<1>5. CASE EraseInfo(t)
  <2>. USE <1>1, <1>5 DEF EraseInfo, Goto
  <2>1. TypeOK'
    BY DEF CallProgress, MembersMatch, HalfDone
  <2>2. CallProgress' /\ LoopCovers'
    BY DEF CallProgress, LoopCovers
  <2>3. MembersMatch'
    BY DEF MembersMatch, HalfDone, CallProgress
  <2>4. ParticipantsMatch'
    BY DEF ParticipantsMatch, CallProgress
  <2>5. QED
    BY <2>1, <2>2, <2>3, <2>4
<1>6. CASE EraseMember(t)
  <2>. USE <1>1, <1>6 DEF EraseMember, Return, Unlock
  <2>1. TypeOK'
    BY DEF CallProgress, MembersMatch, HalfDone
  <2>2. CallProgress' /\ LoopCovers'
    BY DEF CallProgress, LoopCovers
  <2>3. MembersMatch'
    BY DEF MembersMatch, HalfDone, CallProgress
  <2>4. ParticipantsMatch'
    BY DEF ParticipantsMatch, CallProgress, MembersMatch, HalfDone
  <2>5. QED
    BY <2>1, <2>2, <2>3, <2>4
<1>7. QED
  BY <1>2, <1>3, <1>4, <1>5, <1>6

\* The locked queries keep the invariant.
LEMMA QueryKeeps ==
    ASSUME IInv, NEW t \in Thread, Step(t),
           \/ CallScan(t) \/ QueryReturns(t)
           \/ \E p \in Participant : CallScanParticipant(t, p)
           \/ \E e \in Endpoint : Visit(t, e)
    PROVE  IInv'
<1>. USE ParticipantOfType DEF IInv, TypeOK, mapVars
<1>1. /\ \A u \in Thread \ {t} : pc[u] = "idle" /\ pc'[u] = "idle"
      /\ pc' \in [Thread -> Locations]
      /\ HolderInside'
  BY OneCaller
<1>. USE <1>1 DEF Lock, Goto, Return, Unlock
<1>2. CASE CallScan(t)
  <2>. USE <1>2 DEF CallScan
  <2>1. TypeOK' /\ CallProgress' /\ MembersMatch' /\ ParticipantsMatch'
    BY DEF CallProgress, MembersMatch, HalfDone, ParticipantsMatch
  <2>2. LoopCovers'
    BY DEF LoopCovers
  <2>3. QED
    BY <2>1, <2>2
<1>3. ASSUME NEW p \in Participant, CallScanParticipant(t, p)
      PROVE  IInv'
  <2>. USE <1>3 DEF CallScanParticipant
  <2>1. TypeOK'
    BY DEF MembersOf
  <2>2. CallProgress' /\ MembersMatch' /\ ParticipantsMatch'
    BY DEF CallProgress, MembersMatch, HalfDone, ParticipantsMatch
  \* The mutex was free, so the multiset of p holds the endpoints of p that have info.
  <2>3. (IF p \in participants THEN MembersOf(p) ELSE {}) = AtomicCache!EndpointsOf(p)
    BY DEF HolderInside, MembersMatch, HalfDone, ParticipantsMatch, MembersOf,
           AtomicCache!EndpointsOf
  <2>4. todo'[t] \cup partial'[t] = AtomicCache!EndpointsOf(p)'
    BY <2>3 DEF AtomicCache!EndpointsOf
  <2>5. LoopCovers'
    BY <2>4 DEF LoopCovers
  <2>6. QED
    BY <2>1, <2>2, <2>5
<1>4. ASSUME NEW e \in Endpoint, Visit(t, e)
      PROVE  IInv'
  <2>. USE <1>4 DEF Visit
  <2>1. TypeOK'
    OBVIOUS
  <2>2. CallProgress' /\ MembersMatch' /\ ParticipantsMatch'
    BY DEF CallProgress, MembersMatch, HalfDone, ParticipantsMatch
  <2>3. todo[t] \cup partial[t] \subseteq endpoints
    BY DEF LoopCovers, AtomicCache!EndpointsOf
  <2>4. todo'[t] \cup partial'[t] = todo[t] \cup partial[t]
    BY <2>3
  <2>5. LoopCovers'
    BY <2>4 DEF LoopCovers, AtomicCache!EndpointsOf
  <2>6. QED
    BY <2>1, <2>2, <2>5
<1>5. CASE QueryReturns(t)
  <2>. USE <1>5 DEF QueryReturns
  <2>1. TypeOK' /\ CallProgress' /\ MembersMatch' /\ ParticipantsMatch'
    BY DEF CallProgress, MembersMatch, HalfDone, ParticipantsMatch
  <2>2. LoopCovers'
    BY DEF LoopCovers
  <2>3. QED
    BY <2>1, <2>2
<1>6. QED
  BY <1>2, <1>3, <1>4, <1>5

\* The strengthened invariant holds in every state of every behavior.
THEOREM Inductive == Spec => []IInv
<1>1. Init => IInv
  BY InitEstablishes
<1>2. IInv /\ [Next]_vars => IInv'
  <2>. SUFFICES ASSUME IInv, [Next]_vars PROVE IInv'
    OBVIOUS
  <2>1. ASSUME NEW t \in Thread, Step(t) PROVE IInv'
    BY <2>1, AddKeeps, RemoveKeeps, QueryKeeps DEF Step
  <2>2. CASE UNCHANGED vars
    BY <2>2 DEF vars, IInv, TypeOK, HolderInside, CallProgress, MembersMatch, HalfDone,
                ParticipantsMatch, LoopCovers, AtomicCache!EndpointsOf
  <2>3. QED
    BY <2>1, <2>2 DEF Next
<1>3. QED
  BY <1>1, <1>2, PTL DEF Spec

-------------------------------------------------------------------------------
\* The listener's variables keep their types, and no multiset count goes below zero.
THEOREM TypeCorrect == Spec => []TypeOK
<1>1. IInv => TypeOK
  BY DEF IInv
<1>2. QED
  BY <1>1, Inductive, PTL

\* Between calls the info map and the participant map of the topic cache agree.
THEOREM IndexesAlwaysAgree == Spec => []IndexesAgree
<1>1. IInv => IndexesAgree
  <2>. SUFFICES ASSUME IInv, mutex = NoThread PROVE IndexesAgree
    BY DEF IndexesAgree
  <2>1. \A t \in Thread : pc[t] = "idle"
    BY NoThreadAssumption DEF IInv, HolderInside
  <2>2. \A e \in Endpoint : members[e] = IF e \in endpoints THEN 1 ELSE 0
    BY <2>1 DEF IInv, MembersMatch, HalfDone
  <2>3. participants = {ParticipantOf[e] : e \in endpoints}
    BY <2>1, ParticipantOfType DEF IInv, TypeOK, ParticipantsMatch
  <2>4. QED
    BY <2>2, <2>3 DEF IndexesAgree
<1>2. QED
  BY <1>1, Inductive, PTL

\* A query under the lock never meets an endpoint without info.
THEOREM QueriesNeverMeetHole == Spec => []QueriesMeetNoHole
<1>1. IInv => QueriesMeetNoHole
  BY DEF IInv, LoopCovers, QueriesMeetNoHole, AtomicCache!EndpointsOf
<1>2. QED
  BY <1>1, Inductive, PTL

\* The listener, whose calls take several steps on two maps, implements the atomic
\* cache of GraphCache: endpoints get and lose their info at one point of each call,
\* and a query's answer is the cache as it is at the moment the query returns.
THEOREM Refinement == Spec => ImplementsAtomicCache
<1>. USE DEF AtomicCache!cacheVars, mapVars, queryVars
<1>1. Init => AtomicCache!CacheInit
  BY DEF Init, AtomicCache!CacheInit
<1>2. IInv /\ [Next]_vars => [AtomicCache!CacheNext]_AtomicCache!cacheVars
  <2>. SUFFICES ASSUME IInv, [Next]_vars
                PROVE  [AtomicCache!CacheNext]_AtomicCache!cacheVars
    OBVIOUS
  <2>1. ASSUME NEW t \in Thread, PutInfo(t) \/ AddTwice(t)
        PROVE  AtomicCache!AtomicAdd(t, target[t])
    BY <2>1 DEF PutInfo, AddTwice, AtomicCache!AtomicAdd
  \* A failed find means there is no info: with info, the other two finds succeed.
  <2>2. ASSUME NEW t \in Thread, FindFails(t)
        PROVE  AtomicCache!AtomicRemove(t, target[t])
    <3>1. pc[t] = "find" /\ ~Removable(target[t])
      BY <2>2 DEF FindFails, Return
    <3>2. \A u \in Thread : u # t => pc[u] = "idle"
      BY <3>1 DEF IInv, HolderInside
    <3>3. target[t] \notin endpoints
      BY <3>1, <3>2, ParticipantOfType
         DEF IInv, TypeOK, Removable, MembersMatch, HalfDone, ParticipantsMatch
    <3>4. endpoints \ {target[t]} = endpoints /\ (target[t] \in endpoints) = FALSE
      BY <3>3
    <3>5. QED
      BY <2>2, <3>4 DEF FindFails, AtomicCache!AtomicRemove
  <2>3. ASSUME NEW t \in Thread, EraseInfo(t)
        PROVE  AtomicCache!AtomicRemove(t, target[t])
    BY <2>3 DEF EraseInfo, Goto, IInv, CallProgress, AtomicCache!AtomicRemove
  <2>4. ASSUME NEW t \in Thread, QueryReturns(t)
        PROVE  AtomicCache!CacheNext
    <3>1. \/ partial[t] = endpoints
          \/ \E p \in Participant : partial[t] = AtomicCache!EndpointsOf(p)
      BY <2>4 DEF QueryReturns, Return, IInv, TypeOK, LoopCovers
    <3>2. AtomicCache!AtomicScan(t) \/ \E p \in Participant : AtomicCache!AtomicScanParticipant(t, p)
      BY <2>4, <3>1 DEF QueryReturns, AtomicCache!AtomicScan, AtomicCache!AtomicScanParticipant
    <3>3. QED
      BY <3>2 DEF AtomicCache!CacheNext
  <2>5. ASSUME NEW t \in Thread,
               \/ \E e \in Endpoint : CallAdd(t, e) \/ CallRemove(t, e) \/ Visit(t, e)
               \/ InitParticipantMap(t) \/ PutMember(t) \/ FindSucceeds(t) \/ EraseMember(t)
               \/ CallScan(t) \/ \E p \in Participant : CallScanParticipant(t, p)
        PROVE  UNCHANGED AtomicCache!cacheVars
    BY <2>5 DEF CallAdd, CallRemove, Visit, InitParticipantMap, PutMember, FindSucceeds,
                EraseMember, CallScan, CallScanParticipant
  <2>6. CASE UNCHANGED vars
    BY <2>6 DEF vars
  <2>7. \A t \in Thread : target[t] \in Endpoint
    BY DEF IInv, TypeOK
  <2>8. QED
    BY <2>1, <2>2, <2>3, <2>4, <2>5, <2>6, <2>7 DEF Next, Step, AtomicCache!CacheNext
<1>3. QED
  BY <1>1, <1>2, Inductive, PTL DEF Spec, ImplementsAtomicCache, AtomicCache!CacheSpec

===============================================================================
