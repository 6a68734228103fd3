---------------------------- MODULE NodeGraph_proofs ----------------------------
(***************************************************************************)
(* For any endpoints, threads and waiters: the cache settles on the truth, *)
(* no graph change is lost but by a trigger that failed, and the node      *)
(* implements GraphWatch.                                                  *)
(***************************************************************************)
EXTENDS NodeGraph, TLAPS

\* Only a running callback has samples, and a sample whose endpoint has no newer one
\* in the reader carries the endpoint's present state.
BatchCurrent ==
    \A k \in Kind : \A s \in batch[k] :
        /\ running[k]
        /\ s.endpoint \in unread[k] \/ (s.alive <=> remote[s.endpoint] = "alive")

IInv == TypeOK /\ BatchCurrent /\ SettledIsExact /\ NoLostChange

\* The initial state satisfies the inductive invariant.
LEMMA InitEstablishes == Init => IInv
<1>. SUFFICES ASSUME Init PROVE IInv
  OBVIOUS
<1>. USE DEF Init
<1>1. TypeOK
  BY DEF TypeOK, Endpoint, Entry, Kind
<1>2. BatchCurrent
  BY DEF BatchCurrent
<1>3. SettledIsExact
  BY KindOfType DEF SettledIsExact, RemotesExact, OpenRecorded, NoClosedRecorded, Endpoint
<1>4. NoLostChange
  BY SomeWaiter DEF NoLostChange
<1>5. QED
  BY <1>1, <1>2, <1>3, <1>4 DEF IInv

-------------------------------------------------------------------------------
\* Every action keeps the variables in their types and the kinds apart.
LEMMA TypeKept == TypeOK /\ [Next]_vars => TypeOK'
<1>. SUFFICES ASSUME TypeOK, [Next]_vars PROVE TypeOK'
  OBVIOUS
<1>. USE KindOfType, GuidOfType, SeparateEndpoints
     DEF TypeOK, Endpoint, Entry, domainVars, callbackVars, appVars, guardVars, waiterVars
<1>1. ASSUME NEW e \in Remote, RemoteAppears(e) \/ RemoteUpdates(e) \/ RemoteLeaves(e)
      PROVE  TypeOK'
  <2>1. Announce(e) /\ remote' \in [Remote -> {"unknown", "alive", "gone"}]
    BY <1>1 DEF RemoteAppears, RemoteUpdates, RemoteLeaves
  <2>2. KindOf[e] \in Kind
    OBVIOUS
  <2>3. /\ unread' \in [Kind -> SUBSET Remote]
        /\ \A k \in Kind : \A r \in unread'[k] : KindOf[r] = k
    BY <2>1, <2>2 DEF Announce
  <2>4. notified' \in [Kind -> BOOLEAN]
    BY <2>1, <2>2 DEF Announce
  <2>5. QED
    BY <2>1, <2>3, <2>4 DEF Announce
<1>2. ASSUME NEW k \in Kind, SetListener(k) \/ TakeFails(k) \/ TriggerAfterBatch(k)
      PROVE  TypeOK'
  BY <1>2 DEF SetListener, TakeFails, TriggerAfterBatch, TriggerGraphGuardCondition
<1>3. ASSUME NEW k \in Kind, TakeSamples(k)
      PROVE  TypeOK'
  BY <1>3 DEF TakeSamples, Sample
<1>4. ASSUME NEW k \in Kind, NEW s \in Sample, ProcessSample(k, s)
      PROVE  TypeOK'
  BY <1>4 DEF ProcessSample, Sample
<1>5. ASSUME NEW a \in App, NEW l \in Local, CreateLocal(a, l)
      PROVE  TypeOK'
  <2>1. KindOf[l] \in Kind /\ GuidOf[l] \in LocalGuid
    OBVIOUS
  <2>2. cache' \in [Kind -> SUBSET Entry]
    BY <1>5, <2>1 DEF CreateLocal
  <2>3. \A k \in Kind : \A e \in cache'[k] \cap Remote : KindOf[e] = k
    BY <1>5, <2>1 DEF CreateLocal
  <2>4. QED
    BY <1>5, <2>2, <2>3 DEF CreateLocal
<1>6. ASSUME NEW a \in App, NEW l \in Local, DestroyLocal(a, l)
      PROVE  TypeOK'
  <2>1. KindOf[l] \in Kind /\ GuidOf[l] \in LocalGuid
    OBVIOUS
  <2>2. cache' \in [Kind -> SUBSET Entry]
    BY <1>6, <2>1 DEF DestroyLocal
  <2>3. \A k \in Kind : \A e \in cache'[k] \cap Remote : KindOf[e] = k
    BY <1>6, <2>1 DEF DestroyLocal
  <2>4. busy' \in [App -> Local \cup {NoLocal}]
    BY <1>6 DEF DestroyLocal
  <2>5. QED
    BY <1>6, <2>2, <2>3, <2>4 DEF DestroyLocal
<1>7. ASSUME NEW a \in App, TriggerByApp(a)
      PROVE  TypeOK'
  <2>1. KindOf[busy[a]] \in Kind
    BY <1>7 DEF TriggerByApp
  <2>2. missed' \subseteq Kind /\ triggered' \in BOOLEAN
    BY <1>7, <2>1 DEF TriggerByApp, TriggerGraphGuardCondition
  <2>3. busy' \in [App -> Local \cup {NoLocal}]
    BY <1>7 DEF TriggerByApp
  <2>4. QED
    BY <1>7, <2>2, <2>3 DEF TriggerByApp
<1>8. ASSUME NEW w \in Waiter, WaitReturns(w) \/ ResetGuardCondition(w) \/ ResetFails(w)
      PROVE  TypeOK'
  BY <1>8 DEF WaitReturns, ResetGuardCondition, ResetFails
<1>9. ASSUME NEW w \in Waiter, ReadPub(w) \/ ReadSub(w)
      PROVE  TypeOK'
  <2>1. \E k \in Kind : view' = [view EXCEPT ![w] = [view[w] EXCEPT ![k] = cache[k]]]
    BY <1>9 DEF ReadPub, ReadSub, Kind
  <2>2. view' \in [Waiter -> [Kind -> SUBSET Entry]]
    BY <2>1
  <2>3. QED
    BY <1>9, <2>2 DEF ReadPub, ReadSub
<1>10. CASE UNCHANGED vars
  BY <1>10 DEF vars
<1>11. QED
  BY <1>1, <1>2, <1>3, <1>4, <1>5, <1>6, <1>7, <1>8, <1>9, <1>10
     DEF Next, Domain, Callback, Application, Wait

-------------------------------------------------------------------------------
\* The samples of a running callback and the cache keep up with the domain.
LEMMA SettledKept ==
    ASSUME TypeOK, BatchCurrent, SettledIsExact, [Next]_vars
    PROVE  BatchCurrent' /\ SettledIsExact'
<1>. USE KindOfType, GuidOfType, SeparateEndpoints
     DEF TypeOK, Endpoint, Entry, domainVars, callbackVars, appVars, guardVars, waiterVars,
         InBatch
<1>1. ASSUME NEW e \in Remote, RemoteAppears(e) \/ RemoteUpdates(e) \/ RemoteLeaves(e)
      PROVE  BatchCurrent' /\ SettledIsExact'
  <2>1. Announce(e) /\ \A r \in Remote \ {e} : remote'[r] = remote[r]
    BY <1>1 DEF RemoteAppears, RemoteUpdates, RemoteLeaves
  <2>2. e \in unread'[KindOf[e]] /\ \A k \in Kind : unread[k] \subseteq unread'[k]
    BY <2>1 DEF Announce
  <2>3. BatchCurrent'
    BY <2>1, <2>2 DEF BatchCurrent, Announce, Sample
  <2>4. SettledIsExact'
    BY <2>1, <2>2 DEF SettledIsExact, RemotesExact, OpenRecorded, NoClosedRecorded, Open, Unshared,
                      Announce
  <2>5. QED
    BY <2>3, <2>4
<1>2. ASSUME NEW k \in Kind, SetListener(k) \/ TakeFails(k) \/ TriggerAfterBatch(k)
      PROVE  BatchCurrent' /\ SettledIsExact'
  <2>1. UNCHANGED <<remote, unread, batch, cache, local>>
    BY <1>2 DEF SetListener, TakeFails, TriggerAfterBatch
  <2>2. \A j \in Kind : running[j] => running'[j] \/ batch[j] = {}
    BY <1>2 DEF SetListener, TakeFails, TriggerAfterBatch
  <2>3. BatchCurrent'
    BY <2>1, <2>2 DEF BatchCurrent
  <2>4. SettledIsExact'
    BY <2>1 DEF SettledIsExact, RemotesExact, OpenRecorded, NoClosedRecorded, Open, Unshared
  <2>5. QED
    BY <2>3, <2>4
\* The batch takes over exactly the endpoints the reader had unread.
<1>3. ASSUME NEW k \in Kind, TakeSamples(k)
      PROVE  BatchCurrent' /\ SettledIsExact'
  <2>. USE <1>3 DEF TakeSamples
  <2>1. batch[k] = {}
    BY DEF BatchCurrent
  <2>2. \A e \in unread[k] : [endpoint |-> e, alive |-> remote[e] = "alive"] \in batch'[k]
    OBVIOUS
  <2>3. BatchCurrent'
    BY DEF BatchCurrent
  <2>4. ASSUME NEW e \in Remote
        PROVE  \/ e \in unread'[KindOf[e]] \/ \E s \in batch'[KindOf[e]] : s.endpoint = e
               \/ (e \in cache'[KindOf[e]] <=> remote'[e] = "alive")
    <3>1. CASE KindOf[e] = k /\ e \in unread[k]
      <4>1. [endpoint |-> e, alive |-> remote[e] = "alive"].endpoint = e
        OBVIOUS
      <4>2. QED
        BY <2>2, <3>1, <4>1
    <3>2. CASE KindOf[e] = k /\ e \notin unread[k]
      BY <2>1, <3>2 DEF SettledIsExact, RemotesExact
    <3>3. CASE KindOf[e] # k
      BY <3>3 DEF SettledIsExact, RemotesExact
    <3>4. QED
      BY <3>1, <3>2, <3>3
  <2>5. SettledIsExact'
    BY <2>4 DEF SettledIsExact, RemotesExact, OpenRecorded, NoClosedRecorded, Open, Unshared
  <2>6. QED
    BY <2>3, <2>5
<1>4. ASSUME NEW k \in Kind, NEW s \in Sample, ProcessSample(k, s)
      PROVE  BatchCurrent' /\ SettledIsExact'
  <2>. USE <1>4 DEF ProcessSample, Sample
  <2>1. BatchCurrent'
    BY DEF BatchCurrent
  <2>2. SettledIsExact'
    BY DEF SettledIsExact, RemotesExact, OpenRecorded, NoClosedRecorded, Open, Unshared,
           BatchCurrent
  <2>3. QED
    BY <2>1, <2>2
<1>5. ASSUME NEW a \in App, NEW l \in Local, CreateLocal(a, l) \/ DestroyLocal(a, l)
      PROVE  BatchCurrent' /\ SettledIsExact'
  <2>1. BatchCurrent'
    BY <1>5 DEF CreateLocal, DestroyLocal, BatchCurrent
  <2>2. RemotesExact'
    <3>1. \A e \in Remote : e \in cache'[KindOf[e]] <=> e \in cache[KindOf[e]]
      <4>1. CASE CreateLocal(a, l)
        BY <4>1 DEF CreateLocal
      <4>2. CASE DestroyLocal(a, l)
        BY <4>2 DEF DestroyLocal
      <4>3. QED
        BY <1>5, <4>1, <4>2
    <3>2. UNCHANGED <<remote, unread, batch>>
      BY <1>5 DEF CreateLocal, DestroyLocal
    <3>3. QED
      BY <3>1, <3>2 DEF SettledIsExact, RemotesExact
  <2>3. ASSUME CreateLocal(a, l) PROVE OpenRecorded' /\ NoClosedRecorded'
    BY <2>3 DEF CreateLocal, SettledIsExact, OpenRecorded, NoClosedRecorded, Open, Unshared
  <2>4. ASSUME DestroyLocal(a, l) PROVE OpenRecorded' /\ NoClosedRecorded'
    <3>. USE <2>4 DEF DestroyLocal
    <3>1. ASSUME NEW m \in Local, Unshared(m), local'[m] = "open"
          PROVE  GuidOf[m] \in cache'[KindOf[m]]
      <4>1. m # l /\ GuidOf[m] \in cache[KindOf[m]]
        BY <3>1 DEF SettledIsExact, OpenRecorded
      <4>2. GuidOf[m] # GuidOf[l] \/ KindOf[m] # KindOf[l]
        BY <3>1, <4>1 DEF Unshared
      <4>3. QED
        BY <4>1, <4>2
    <3>2. ASSUME NEW k \in Kind, NEW g \in cache'[k] \cap LocalGuid
          PROVE  \E m \in Open(k)' : GuidOf[m] = g
      <4>1. g \in cache[k] /\ (k # KindOf[l] \/ g # GuidOf[l])
        BY <3>2
      <4>2. PICK m \in Open(k) : GuidOf[m] = g
        BY <3>2, <4>1 DEF SettledIsExact, NoClosedRecorded
      <4>3. QED
        BY <4>1, <4>2 DEF Open
    <3>3. QED
      BY <3>1, <3>2 DEF OpenRecorded, NoClosedRecorded, Unshared
  <2>5. QED
    BY <1>5, <2>1, <2>2, <2>3, <2>4 DEF SettledIsExact
<1>6. ASSUME NEW a \in App, TriggerByApp(a)
      PROVE  BatchCurrent' /\ SettledIsExact'
  BY <1>6 DEF TriggerByApp, BatchCurrent, SettledIsExact, RemotesExact, OpenRecorded,
            NoClosedRecorded, Open, Unshared
<1>7. ASSUME NEW w \in Waiter, Wait(w)
      PROVE  BatchCurrent' /\ SettledIsExact'
  BY <1>7 DEF Wait, WaitReturns, ResetGuardCondition, ResetFails, ReadPub, ReadSub, BatchCurrent,
            SettledIsExact, RemotesExact, OpenRecorded, NoClosedRecorded, Open, Unshared
<1>8. CASE UNCHANGED vars
  BY <1>8 DEF vars, BatchCurrent, SettledIsExact, RemotesExact, OpenRecorded,
            NoClosedRecorded, Open, Unshared
<1>9. QED
  BY <1>1, <1>2, <1>3, <1>4, <1>5, <1>6, <1>7, <1>8
     DEF Next, Domain, Callback, Application

-------------------------------------------------------------------------------
\* The steps that neither trigger nor read.
Quiet ==
    \/ Domain
    \/ \E j \in Kind : \/ SetListener(j) \/ TakeSamples(j) \/ TakeFails(j)
                       \/ \E s \in Sample : ProcessSample(j, s)
    \/ \E a \in App, l \in Local : CreateLocal(a, l) \/ DestroyLocal(a, l)
    \/ \E w \in Waiter : WaitReturns(w) \/ ResetGuardCondition(w) \/ ResetFails(w)

\* The triggers of one listener.
Triggers(j) ==
    TriggerAfterBatch(j) \/ \E a \in App : TriggerByApp(a) /\ KindOf[busy[a]] = j

\* Every step is one of these or reads.
LEMMA NextIs ==
    ASSUME TypeOK, [Next]_vars
    PROVE  \/ Quiet \/ \E j \in Kind : Triggers(j)
           \/ \E w \in Waiter : ReadPub(w) \/ ReadSub(w)
           \/ UNCHANGED vars
<1>1. ASSUME NEW a \in App, TriggerByApp(a) PROVE KindOf[busy[a]] \in Kind
  BY <1>1, KindOfType DEF TriggerByApp, TypeOK, Endpoint
<1>2. QED
  BY <1>1 DEF Next, Callback, Application, Wait, Quiet, Triggers

\* No quiet step forgets a look that is owed, and one that changes a cache leaves a trigger
\* of its listener due.
LEMMA OwedKept ==
    ASSUME TypeOK, BatchCurrent, NEW k \in Kind, Quiet
    PROVE  /\ LookOwed(k) \/ cache'[k] # cache[k] => LookOwed(k)'
           /\ view' = view /\ missed' = missed
<1>. USE DEF TypeOK, LookOwed, TriggerDue, WillRead, domainVars, callbackVars, appVars,
             guardVars, waiterVars
<1>. DEFINE Goal == /\ LookOwed(k) \/ cache'[k] # cache[k] => LookOwed(k)'
                    /\ view' = view /\ missed' = missed
<1>1. CASE Domain
  BY <1>1 DEF Domain, RemoteAppears, RemoteUpdates, RemoteLeaves, Announce
<1>2. ASSUME NEW j \in Kind, SetListener(j) \/ TakeSamples(j) \/ TakeFails(j)
      PROVE  Goal
  BY <1>2 DEF SetListener, TakeSamples, TakeFails
<1>3. ASSUME NEW j \in Kind, NEW s \in Sample, ProcessSample(j, s)
      PROVE  Goal
  <2>1. running[j] /\ running' = running
    BY <1>3 DEF ProcessSample, BatchCurrent
  <2>2. cache'[k] # cache[k] => k = j
    BY <1>3 DEF ProcessSample
  <2>3. QED
    BY <1>3, <2>1, <2>2 DEF ProcessSample
<1>4. ASSUME NEW a \in App, NEW l \in Local, busy[a] = NoLocal, busy' = [busy EXCEPT ![a] = l],
             cache'[k] # cache[k] => k = KindOf[l],
             UNCHANGED <<domainVars, callbackVars, guardVars, waiterVars>>
      PROVE  Goal
  <2>1. busy'[a] = l /\ l # NoLocal /\ \A b \in App \ {a} : busy'[b] = busy[b]
    BY <1>4, SeparateEndpoints
  <2>2. ASSUME TriggerDue(k) PROVE TriggerDue(k)'
    <3>1. CASE running[k]
      BY <1>4, <3>1
    <3>2. ASSUME NEW b \in App, busy[b] # NoLocal, KindOf[busy[b]] = k PROVE TriggerDue(k)'
      BY <1>4, <2>1, <3>2
    <3>3. QED
      BY <2>2, <3>1, <3>2
  <2>3. k = KindOf[l] => TriggerDue(k)'
    BY <2>1
  <2>4. QED
    BY <1>4, <2>2, <2>3
<1>5. ASSUME NEW a \in App, NEW l \in Local, CreateLocal(a, l)
      PROVE  Goal
  BY <1>4, <1>5 DEF CreateLocal
<1>6. ASSUME NEW a \in App, NEW l \in Local, DestroyLocal(a, l)
      PROVE  Goal
  <2>1. CASE GuidOf[l] \in cache[KindOf[l]]
    BY <1>4, <1>6, <2>1 DEF DestroyLocal
  <2>2. CASE GuidOf[l] \notin cache[KindOf[l]]
    <3>1. cache' = cache /\ busy' = busy
      BY <1>6, <2>2, KindOfType DEF DestroyLocal, Endpoint
    <3>2. QED
      BY <1>6, <3>1 DEF DestroyLocal
  <2>3. QED
    BY <2>1, <2>2
<1>7. ASSUME NEW w \in Waiter, WaitReturns(w) \/ ResetGuardCondition(w) \/ ResetFails(w)
      PROVE  Goal
  <2>1. CASE ResetGuardCondition(w)
    BY <2>1 DEF ResetGuardCondition
  <2>2. CASE WaitReturns(w) \/ ResetFails(w)
    BY <2>2 DEF WaitReturns, ResetFails
  <2>3. QED
    BY <1>7, <2>1, <2>2
<1>8. QED
  BY <1>1, <1>2, <1>3, <1>5, <1>6, <1>7 DEF Quiet

\* A trigger makes a look at everything due, or misses one at its own listener.
LEMMA TriggerOwes ==
    ASSUME TypeOK, NEW j \in Kind, Triggers(j)
    PROVE  /\ LookOwed(j) /\ cache' = cache /\ view' = view
           /\ \/ missed' = {} /\ \A k \in Kind : LookOwed(k)'
              \/ /\ missed' = missed \cup {j}
                 /\ \A k \in Kind \ {j} : LookOwed(k)' <=> LookOwed(k)
<1>. USE DEF TypeOK, LookOwed, WillRead, domainVars, callbackVars, appVars, waiterVars
<1>1. /\ TriggerDue(j) /\ cache' = cache /\ view' = view /\ waiter' = waiter
      /\ TriggerGraphGuardCondition(j)
      /\ \A k \in Kind \ {j} : TriggerDue(k)' <=> TriggerDue(k)
  <2>1. CASE TriggerAfterBatch(j)
    BY <2>1 DEF TriggerAfterBatch, TriggerDue
  <2>2. ASSUME NEW a \in App, TriggerByApp(a), KindOf[busy[a]] = j
        PROVE  /\ TriggerDue(j) /\ cache' = cache /\ view' = view /\ waiter' = waiter
               /\ TriggerGraphGuardCondition(j)
               /\ \A k \in Kind \ {j} : TriggerDue(k)' <=> TriggerDue(k)
    <3>1. /\ busy[a] # NoLocal /\ busy'[a] = NoLocal /\ running' = running
          /\ \A b \in App \ {a} : busy'[b] = busy[b]
      BY <2>2 DEF TriggerByApp
    <3>2. ASSUME NEW k \in Kind \ {j} PROVE TriggerDue(k)' <=> TriggerDue(k)
      <4>1. ASSUME TriggerDue(k)' PROVE TriggerDue(k)
        BY <3>1, <4>1 DEF TriggerDue
      <4>2. ASSUME NEW b \in App, busy[b] # NoLocal, KindOf[busy[b]] = k PROVE TriggerDue(k)'
        <5>1. b # a
          BY <2>2, <4>2
        <5>2. busy'[b] = busy[b]
          BY <3>1, <5>1
        <5>3. QED
          BY <4>2, <5>2 DEF TriggerDue
      <4>3. running[k] => TriggerDue(k)'
        BY <3>1 DEF TriggerDue
      <4>4. QED
        BY <4>1, <4>2, <4>3 DEF TriggerDue
    <3>3. QED
      BY <2>2, <3>1, <3>2 DEF TriggerByApp, TriggerDue
  <2>3. QED
    BY <2>1, <2>2 DEF Triggers
<1>2. CASE triggered' = TRUE /\ missed' = {}
  BY <1>1, <1>2
<1>3. CASE missed' = missed \cup {j} /\ UNCHANGED triggered
  BY <1>1, <1>3
<1>4. QED
  BY <1>1, <1>2, <1>3 DEF TriggerGraphGuardCondition

\* Reading a listener updates the waiter's view of it, and no other listener's debt
\* is touched.
LEMMA ReadPays ==
    ASSUME TypeOK, NEW w \in Waiter, NEW k \in Kind,
           (k = "pub" /\ ReadPub(w)) \/ (k = "sub" /\ ReadSub(w))
    PROVE  /\ LookOwed(k)
           /\ cache' = cache
           /\ view' = [view EXCEPT ![w][k] = cache[k]]
           /\ view'[w][k] = cache[k]
           /\ missed' = missed \ {k}
           /\ \A j \in Kind \ {k} : LookOwed(j)' <=> LookOwed(j)
<1>. USE DEF TypeOK, Kind, LookOwed, TriggerDue, WillRead, domainVars, callbackVars, appVars
<1>1. CASE k = "pub" /\ ReadPub(w)
  <2>. USE <1>1 DEF ReadPub
  <2>1. LookOwed(k) /\ cache' = cache /\ view' = [view EXCEPT ![w][k] = cache[k]]
    OBVIOUS
  <2>2. view'[w][k] = cache[k]
    BY <2>1
  <2>3. WillRead(w, "sub") /\ WillRead(w, "sub")'
    OBVIOUS
  <2>4. QED
    BY <2>1, <2>2, <2>3
<1>2. CASE k = "sub" /\ ReadSub(w)
  <2>. USE <1>2 DEF ReadSub
  <2>1. LookOwed(k) /\ cache' = cache /\ view' = [view EXCEPT ![w][k] = cache[k]]
    OBVIOUS
  <2>2. view'[w][k] = cache[k]
    BY <2>1
  <2>3. \A u \in Waiter : WillRead(u, "pub")' <=> WillRead(u, "pub")
    OBVIOUS
  <2>4. LookOwed("pub")' <=> LookOwed("pub")
    BY <2>3
  <2>5. QED
    BY <2>1, <2>2, <2>4
<1>3. QED
  BY <1>1, <1>2

\* Nothing between two steps loses a change of the graph.
LEMMA ChangeKept ==
    ASSUME TypeOK, BatchCurrent, NoLostChange, [Next]_vars
    PROVE  NoLostChange'
<1>. DEFINE Safe(k) == LookOwed(k) \/ k \in missed \/ \E w \in Waiter : view[w][k] = cache[k]
<1>. SUFFICES ASSUME NEW k \in Kind PROVE Safe(k)'
  BY DEF NoLostChange
<1>0. Safe(k)
  BY DEF NoLostChange
<1>1. CASE UNCHANGED vars
  BY <1>0, <1>1 DEF vars, LookOwed, TriggerDue, WillRead
<1>2. ASSUME NEW w \in Waiter, NEW j \in Kind, (j = "pub" /\ ReadPub(w)) \/ (j = "sub" /\ ReadSub(w))
      PROVE  Safe(k)'
  <2>1. /\ cache' = cache
        /\ view' = [view EXCEPT ![w][j] = cache[j]]
        /\ view'[w][j] = cache[j]
        /\ missed' = missed \ {j}
        /\ \A i \in Kind \ {j} : LookOwed(i)' <=> LookOwed(i)
    BY <1>2, ReadPays
  <2>2. CASE k = j
    BY <2>1, <2>2
  <2>3. CASE k # j
    <3>1. \A u \in Waiter : view'[u][k] = view[u][k]
      BY <2>1, <2>3 DEF TypeOK
    <3>2. QED
      BY <1>0, <2>1, <2>3, <3>1
  <2>4. QED
    BY <2>2, <2>3
<1>3. CASE Quiet
  BY <1>0, <1>3, OwedKept
<1>4. ASSUME NEW j \in Kind, Triggers(j) PROVE Safe(k)'
  <2>1. /\ cache' = cache /\ view' = view
        /\ \/ missed' = {} /\ \A i \in Kind : LookOwed(i)'
           \/ /\ missed' = missed \cup {j}
              /\ \A i \in Kind \ {j} : LookOwed(i)' <=> LookOwed(i)
    BY <1>4, TriggerOwes
  <2>2. QED
    BY <1>0, <2>1
<1>5. ASSUME NEW w \in Waiter, ReadPub(w) \/ ReadSub(w) PROVE Safe(k)'
  <2>1. "pub" \in Kind /\ "sub" \in Kind
    BY DEF Kind
  <2>2. \E j \in Kind : (j = "pub" /\ ReadPub(w)) \/ (j = "sub" /\ ReadSub(w))
    BY <1>5, <2>1
  <2>3. QED
    BY <1>2, <2>2
<1>6. QED
  BY <1>1, <1>3, <1>4, <1>5, NextIs

\* The strengthened invariant holds in every state of every behavior.
THEOREM Inductive == Spec => []IInv
<1>1. Init => IInv
  BY InitEstablishes
<1>2. IInv /\ [Next]_vars => IInv'
  BY TypeKept, SettledKept, ChangeKept DEF IInv
<1>3. QED
  BY <1>1, <1>2, PTL DEF Spec

\* The node's variables keep their types, and each listener its kind.
THEOREM TypeCorrect == Spec => []TypeOK
<1>1. IInv => TypeOK
  BY DEF IInv
<1>2. QED
  BY <1>1, Inductive, PTL

\* Remote endpoints with no sample under way are cached exactly while they exist, and so
\* are local ones that share their GUID with no other.
THEOREM SettledAlwaysExact == Spec => []SettledIsExact
<1>1. IInv => SettledIsExact
  BY DEF IInv
<1>2. QED
  BY <1>1, Inductive, PTL

\* No graph change is lost, for any number of endpoints, threads and waiters, but by a
\* trigger that failed, and then only of that trigger's listener.
THEOREM NoChangeLost == Spec => []NoLostChange
<1>1. IInv => NoLostChange
  BY DEF IInv
<1>2. QED
  BY <1>1, Inductive, PTL

\* The node keeps the abstract promise of GraphWatch: a step is a look, or it notes the one
\* look that a failed trigger lets go, or it forgets no look that is owed.
THEOREM Refinement == Spec => ImplementsGraphWatch
<1>. DEFINE Owed == [k \in Kind |-> LookOwed(k)]
<1>1. Init => Watch!WatchInit
  BY DEF Init, Watch!WatchInit, LookOwed, TriggerDue, WillRead
<1>2. IInv /\ IInv' /\ [Next]_vars => [Watch!WatchNext]_Watch!watchVars
  <2>. SUFFICES ASSUME IInv, IInv', [Next]_vars
                PROVE  [Watch!WatchNext]_Watch!watchVars
    OBVIOUS
  <2>1. TypeOK /\ TypeOK' /\ BatchCurrent
    BY DEF IInv
  <2>2. \A j \in Kind : LookOwed(j) \in BOOLEAN /\ LookOwed(j)' \in BOOLEAN
    BY <2>1 DEF LookOwed, TriggerDue, TypeOK, WillRead
  <2>3. cache' \in [Kind -> SUBSET Entry]
    BY <2>1 DEF TypeOK
  <2>4. CASE Quiet
    <3>1. \A k \in Kind : /\ LookOwed(k) \/ cache'[k] # cache[k] => LookOwed(k)'
                          /\ view' = view /\ missed' = missed
      BY <2>1, <2>4, OwedKept
    <3>2. view' = view /\ missed' = missed
      BY <3>1 DEF Kind
    <3>3. Watch!Change
      BY <2>2, <2>3, <3>1, <3>2 DEF Watch!Change
    <3>4. QED
      BY <3>3 DEF Watch!WatchNext
  <2>5. ASSUME NEW j \in Kind, Triggers(j)
        PROVE  Watch!WatchNext
    <3>1. /\ LookOwed(j) /\ cache' = cache /\ view' = view
          /\ \/ missed' = {} /\ \A k \in Kind : LookOwed(k)'
             \/ /\ missed' = missed \cup {j}
                /\ \A k \in Kind \ {j} : LookOwed(k)' <=> LookOwed(k)
      BY <2>1, <2>5, TriggerOwes
    <3>2. CASE missed' = {} /\ \A k \in Kind : LookOwed(k)'
      <4>1. Watch!Change
        BY <2>2, <2>3, <3>1, <3>2 DEF Watch!Change
      <4>2. QED
        BY <4>1 DEF Watch!WatchNext
    <3>3. CASE /\ missed' = missed \cup {j}
               /\ \A k \in Kind \ {j} : LookOwed(k)' <=> LookOwed(k)
      <4>1. [k \in Kind |-> LookOwed(k)'] = [Owed EXCEPT ![j] = LookOwed(j)']
        BY <2>2, <3>3
      <4>2. Watch!Miss(j)
        BY <2>2, <3>1, <3>3, <4>1 DEF Watch!Miss
      <4>3. QED
        BY <4>2 DEF Watch!WatchNext
    <3>4. QED
      BY <3>1, <3>2, <3>3
  <2>6. ASSUME NEW w \in Waiter, NEW k \in Kind, (k = "pub" /\ ReadPub(w)) \/ (k = "sub" /\ ReadSub(w))
        PROVE  Watch!Look(w, k)
    <3>1. /\ LookOwed(k)
          /\ cache' = cache
          /\ view' = [view EXCEPT ![w][k] = cache[k]]
          /\ missed' = missed \ {k}
          /\ \A j \in Kind \ {k} : LookOwed(j)' <=> LookOwed(j)
      BY <2>1, <2>6, ReadPays
    <3>2. [j \in Kind |-> LookOwed(j)'] = [Owed EXCEPT ![k] = LookOwed(k)']
      BY <2>2, <3>1
    <3>3. QED
      BY <2>2, <3>1, <3>2 DEF Watch!Look
  <2>7. CASE UNCHANGED vars
    BY <2>7 DEF vars, Watch!watchVars, LookOwed, TriggerDue, WillRead
  <2>8. ASSUME NEW w \in Waiter, ReadPub(w) \/ ReadSub(w)
        PROVE  \E k \in Kind : Watch!Look(w, k)
    <3>1. "pub" \in Kind /\ "sub" \in Kind
      BY DEF Kind
    <3>2. \E k \in Kind : (k = "pub" /\ ReadPub(w)) \/ (k = "sub" /\ ReadSub(w))
      BY <2>8, <3>1
    <3>3. QED
      BY <2>6, <3>2
  <2>9. ASSUME NEW w \in Waiter, ReadPub(w) \/ ReadSub(w) PROVE Watch!WatchNext
    BY <2>8, <2>9 DEF Watch!WatchNext
  <2>10. QED
    BY <2>1, <2>4, <2>5, <2>7, <2>9, NextIs
<1>3. QED
  BY <1>1, <1>2, Inductive, PTL DEF Spec, ImplementsGraphWatch, Watch!WatchSpec

===============================================================================
