---------------------------- MODULE Entities_proofs ----------------------------
(***************************************************************************)
(* Entities is correct for any sets of entities and any GUIDs: the graph   *)
(* shows only endpoints that exist, memory is freed from the inside out    *)
(* whichever clean-up does it, and for entities whose GUIDs are their own  *)
(* the node's graph is a Registry.                                         *)
(*                                                                         *)
(* Of the order of a creation the proofs use only what OrderFacts states:  *)
(* an entry in the graph comes after the object and its DDS endpoint, the  *)
(* object after the handle, and what the object owns after the members     *)
(* whose constructors may throw.                                           *)
(***************************************************************************)
EXTENDS Entities, TLAPS

\* What has been acquired after d steps.
Prefix(e, d) == {Plan[e][i] : i \in 1 .. d}

-------------------------------------------------------------------------------
(* The plans, entry by entry *)

\* A publisher's plan.
LEMMA PublisherPlanEntries ==
  /\ Len(PublisherPlan) = 7
  /\ PublisherPlan[1] = "handle"
  /\ PublisherPlan[2] = "object"
  /\ PublisherPlan[3] = "topic"
  /\ PublisherPlan[4] = "listener"
  /\ PublisherPlan[5] = "factory"
  /\ PublisherPlan[6] = "endpoint"
  /\ PublisherPlan[7] = "pub"
  BY DEF PublisherPlan, TopicBased

\* A subscription's plan.
LEMMA SubscriptionPlanEntries ==
  /\ Len(SubscriptionPlan) = 8
  /\ SubscriptionPlan[1] = "handle"
  /\ SubscriptionPlan[2] = "object"
  /\ SubscriptionPlan[3] = "topic"
  /\ SubscriptionPlan[4] = "listener"
  /\ SubscriptionPlan[5] = "factory"
  /\ SubscriptionPlan[6] = "endpoint"
  /\ SubscriptionPlan[7] = "condition"
  /\ SubscriptionPlan[8] = "sub"
  BY DEF SubscriptionPlan, TopicBased

\* A client's or a service's plan.
LEMMA RpcPlanEntries ==
  /\ Len(RpcPlan) = 8
  /\ RpcPlan[1] = "handle"
  /\ RpcPlan[2] = "object"
  /\ RpcPlan[3] = "factory"
  /\ RpcPlan[4] = "rpc"
  /\ RpcPlan[5] = "condition"
  /\ RpcPlan[6] = "writer"
  /\ RpcPlan[7] = "sub"
  /\ RpcPlan[8] = "pub"
  BY DEF RpcPlan, ServiceBased

\* A wait set's plan touches no graph.
LEMMA WaitSetPlanEntries ==
  Len(WaitSetPlan) = 7 /\ \A i \in 1 .. 7 : WaitSetPlan[i] \notin Graph
  BY DEF WaitSetPlan, Graph

\* Which plan is whose.
LEMMA PlanOf ==
  ASSUME NEW e \in Entity
  PROVE  /\ e \in Publisher => Plan[e] = PublisherPlan
         /\ e \in Subscription => Plan[e] = SubscriptionPlan
         /\ e \in Rpc => Plan[e] = RpcPlan
         /\ e \in WaitSet => Plan[e] = WaitSetPlan
  BY DistinctEntities DEF Entity, Rpc, Plan

\* Where in a creation the handle, the object, what it owns, the DDS endpoint and the entries
\* in the graph are.
LEMMA OrderFacts ==
  ASSUME NEW e \in Entity
  PROVE  /\ Len(Plan[e]) \in Nat /\ Len(Plan[e]) >= 7
         /\ \A i \in 1 .. Len(Plan[e]) : Plan[e][i] \in Graph =>
                e \notin WaitSet /\ i >= 7 /\ (e \notin Rpc => i = Len(Plan[e]))
         /\ e \notin WaitSet =>
                /\ Plan[e][1] = "handle"
                /\ Plan[e][2] = "object"
                /\ Plan[e][4] = "rpc" \/ Plan[e][6] = "endpoint"
         /\ e \in Rpc => Len(Plan[e]) = 8 /\ Plan[e][4] = "rpc" /\ Plan[e][7] = "sub" /\ Plan[e][8] = "pub"
<1>1. CASE e \in Publisher
  <2>1. e \notin WaitSet /\ e \notin Rpc
    BY <1>1, DistinctEntities DEF Rpc
  <2>2. ASSUME NEW i \in 1 .. 7, PublisherPlan[i] \in Graph PROVE i = 7
    <3>1. i = 1 \/ i = 2 \/ i = 3 \/ i = 4 \/ i = 5 \/ i = 6 \/ i = 7
      OBVIOUS
    <3> QED
      BY <2>2, <3>1, PublisherPlanEntries DEF Graph
  <2>3. Plan[e] = PublisherPlan
    BY <1>1, PlanOf
  <2> QED
    BY <2>1, <2>2, <2>3, PublisherPlanEntries
<1>2. CASE e \in Subscription
  <2>1. e \notin WaitSet /\ e \notin Rpc
    BY <1>2, DistinctEntities DEF Rpc
  <2>2. ASSUME NEW i \in 1 .. 8, SubscriptionPlan[i] \in Graph PROVE i = 8
    <3>1. i = 1 \/ i = 2 \/ i = 3 \/ i = 4 \/ i = 5 \/ i = 6 \/ i = 7 \/ i = 8
      OBVIOUS
    <3> QED
      BY <2>2, <3>1, SubscriptionPlanEntries DEF Graph
  <2>3. Plan[e] = SubscriptionPlan
    BY <1>2, PlanOf
  <2> QED
    BY <2>1, <2>2, <2>3, SubscriptionPlanEntries
<1>3. CASE e \in Rpc
  <2>1. e \notin WaitSet
    BY <1>3, DistinctEntities DEF Rpc
  <2>2. ASSUME NEW i \in 1 .. 8, RpcPlan[i] \in Graph PROVE i >= 7
    <3>1. i = 1 \/ i = 2 \/ i = 3 \/ i = 4 \/ i = 5 \/ i = 6 \/ i = 7 \/ i = 8
      OBVIOUS
    <3> QED
      BY <2>2, <3>1, RpcPlanEntries DEF Graph
  <2>3. Plan[e] = RpcPlan
    BY <1>3, PlanOf
  <2> QED
    BY <1>3, <2>1, <2>2, <2>3, RpcPlanEntries
<1>4. CASE e \in WaitSet
  <2>1. e \notin Rpc /\ Plan[e] = WaitSetPlan
    BY <1>4, PlanOf, DistinctEntities DEF Rpc
  <2>2. Len(Plan[e]) = 7 /\ \A i \in 1 .. Len(Plan[e]) : Plan[e][i] \notin Graph
    BY <2>1, WaitSetPlanEntries
  <2> QED
    BY <1>4, <2>1, <2>2
<1> QED
  BY <1>1, <1>2, <1>3, <1>4 DEF Entity

\* Only the handle, the object and the members that an initializer makes come before what
\* the object owns, and cleanup() of the class destroys what it owns.
LEMMA OwnedFacts ==
  ASSUME NEW e \in Entity \ WaitSet, NEW i \in 1 .. Len(Plan[e])
  PROVE  /\ Plan[e][i] = "handle" => i = 1
         /\ Plan[e][i] = "object" => i = 2
         /\ Plan[e][i] \in {"listener", "rpc"} => i = 4 /\ Plan[e][i] \in Parts(e)
         /\ Plan[e][i] \in Initialised(e) => i = 3
<1>1. CASE e \in Publisher
  <2>1. e \notin Rpc /\ Plan[e] = PublisherPlan
    BY <1>1, PlanOf, DistinctEntities DEF Rpc
  <2>2. i = 1 \/ i = 2 \/ i = 3 \/ i = 4 \/ i = 5 \/ i = 6 \/ i = 7
    BY <2>1, PublisherPlanEntries
  <2> QED
    BY <2>1, <2>2, PublisherPlanEntries DEF Initialised, Parts
<1>2. CASE e \in Subscription
  <2>1. e \notin Rpc /\ Plan[e] = SubscriptionPlan
    BY <1>2, PlanOf, DistinctEntities DEF Rpc
  <2>2. i = 1 \/ i = 2 \/ i = 3 \/ i = 4 \/ i = 5 \/ i = 6 \/ i = 7 \/ i = 8
    BY <2>1, SubscriptionPlanEntries
  <2> QED
    BY <2>1, <2>2, SubscriptionPlanEntries DEF Initialised, Parts
<1>3. CASE e \in Rpc
  <2>1. Plan[e] = RpcPlan
    BY <1>3, PlanOf
  <2>2. i = 1 \/ i = 2 \/ i = 3 \/ i = 4 \/ i = 5 \/ i = 6 \/ i = 7 \/ i = 8
    BY <2>1, RpcPlanEntries
  <2> QED
    BY <1>3, <2>1, <2>2, RpcPlanEntries DEF Initialised, Parts
<1> QED
  BY <1>1, <1>2, <1>3 DEF Entity

\* The steps and the entries of an entity.
LEMMA StepsOf ==
  ASSUME NEW e \in Entity
  PROVE  Steps[e] = {Plan[e][i] : i \in 1 .. Len(Plan[e])} /\ Entries[e] = Steps[e] \cap Graph
  BY DEF Steps, Entries

\* What there is when d steps have been taken.
LEMMA PrefixFacts ==
  ASSUME NEW e \in Entity, NEW d \in 0 .. Len(Plan[e])
  PROVE  /\ Prefix(e, d) \subseteq Steps[e]
         /\ Prefix(e, 0) = {}
         /\ Prefix(e, Len(Plan[e])) = Steps[e]
         /\ d < Len(Plan[e]) => Prefix(e, d + 1) = Prefix(e, d) \cup {Plan[e][d + 1]}
         /\ Prefix(e, d) \cap Graph # {} => e \notin WaitSet /\ d >= 7
         /\ d >= 6 /\ e \notin WaitSet =>
                "object" \in Prefix(e, d) /\ {"endpoint", "rpc"} \cap Prefix(e, d) # {}
         /\ d >= 6 /\ e \in Rpc => "rpc" \in Prefix(e, d)
<1>1. Steps[e] = {Plan[e][i] : i \in 1 .. Len(Plan[e])} /\ Len(Plan[e]) \in Nat
  BY StepsOf, OrderFacts
<1>2. /\ Prefix(e, d) \subseteq Steps[e]
      /\ Prefix(e, 0) = {}
      /\ Prefix(e, Len(Plan[e])) = Steps[e]
      /\ d < Len(Plan[e]) => Prefix(e, d + 1) = Prefix(e, d) \cup {Plan[e][d + 1]}
  BY <1>1 DEF Prefix
<1>3. Prefix(e, d) \cap Graph # {} => e \notin WaitSet /\ d >= 7
  BY OrderFacts DEF Prefix
<1>4. /\ d >= 6 /\ e \notin WaitSet =>
                "object" \in Prefix(e, d) /\ {"endpoint", "rpc"} \cap Prefix(e, d) # {}
      /\ d >= 6 /\ e \in Rpc => "rpc" \in Prefix(e, d)
  <2> SUFFICES ASSUME d >= 6, e \notin WaitSet
               PROVE  /\ "object" \in Prefix(e, d) /\ {"endpoint", "rpc"} \cap Prefix(e, d) # {}
                      /\ e \in Rpc => "rpc" \in Prefix(e, d)
    BY DistinctEntities DEF Rpc
  <2>1. 2 \in 1 .. d /\ 4 \in 1 .. d /\ 6 \in 1 .. d
    BY <1>1
  <2>2. Plan[e][2] \in Prefix(e, d) /\ Plan[e][4] \in Prefix(e, d) /\ Plan[e][6] \in Prefix(e, d)
    BY <2>1 DEF Prefix
  <2> QED
    BY <2>2, OrderFacts
<1> QED
  BY <1>2, <1>3, <1>4

\* The object is acquired right after the handle, and what it owns after the members that an
\* initializer makes.
LEMMA PrefixOrder ==
  ASSUME NEW e \in Entity \ WaitSet, NEW d \in 0 .. Len(Plan[e])
  PROVE  /\ "handle" \notin Prefix(e, d) => "object" \notin Prefix(e, d)
         /\ "object" \notin Prefix(e, d) => Prefix(e, d) \cap {"listener", "rpc"} = {}
         /\ d <= 1 => "object" \notin Prefix(e, d)
         /\ d <= 2 => Prefix(e, d) \cap {"listener", "rpc"} = {}
         /\ d < Len(Plan[e]) =>
              /\ Plan[e][d + 1] \in {"handle", "object"} => d <= 1
              /\ Plan[e][d + 1] \in Initialised(e) => d <= 2
<1>1. Len(Plan[e]) \in Nat /\ Plan[e][1] = "handle" /\ Plan[e][2] = "object"
  BY OrderFacts
<1>2. "object" \in Prefix(e, d) => d >= 2
  BY <1>1, OwnedFacts DEF Prefix
<1>3. Prefix(e, d) \cap {"listener", "rpc"} # {} => d >= 4
  BY <1>1, OwnedFacts DEF Prefix
<1>4. d >= 2 => Plan[e][1] \in Prefix(e, d) /\ Plan[e][2] \in Prefix(e, d)
  BY DEF Prefix
<1>5. d < Len(Plan[e]) => d + 1 \in 1 .. Len(Plan[e])
  BY <1>1
<1>6. d < Len(Plan[e]) =>
        /\ Plan[e][d + 1] \in {"handle", "object"} => d + 1 \in {1, 2}
        /\ Plan[e][d + 1] \in Initialised(e) => d + 1 = 3
  BY <1>5, OwnedFacts
<1> QED
  BY <1>1, <1>2, <1>3, <1>4, <1>6

\* Before a step that does not register the entity nothing is in the graph; before one that
\* does, a client or a service has at most its reader there.
LEMMA BeforeStep ==
  ASSUME NEW e \in Entity, NEW d \in 0 .. Len(Plan[e]), d < Len(Plan[e])
  PROVE  /\ Plan[e][d + 1] \notin Graph => Prefix(e, d) \cap Graph = {}
         /\ e \notin Rpc => Prefix(e, d) \cap Graph = {}
         /\ e \in Rpc /\ Plan[e][d + 1] \in Graph => d >= 6
         /\ e \in Rpc => Prefix(e, d) \cap Graph \subseteq {"sub"}
<1>1. ASSUME NEW i \in 1 .. d, Plan[e][i] \in Graph
      PROVE  e \in Rpc /\ d >= 7 /\ Plan[e][i] = "sub" /\ Plan[e][d + 1] \in Graph
  <2>1. i \in 1 .. Len(Plan[e]) /\ i # Len(Plan[e]) /\ i >= 7 /\ e \in Rpc
    BY <1>1, OrderFacts
  <2>2. Len(Plan[e]) = 8
    BY <2>1, OrderFacts
  <2>3. i = 7 /\ d = 7
    BY <2>1, <2>2
  <2> QED
    BY <2>1, <2>2, <2>3, OrderFacts DEF Graph
<1>2. e \in Rpc /\ Plan[e][d + 1] \in Graph => d >= 6
  BY OrderFacts
<1> QED
  BY <1>1, <1>2 DEF Prefix

-------------------------------------------------------------------------------
(* The inductive invariant *)

\* What is acquired before the next step, seen by what will clean up after its failure:
\* without entries in the graph if the next step is not one, without what the object owns
\* once the constructor's catch block is passed, without the object once its memory is freed.
UnwindingAt(e, p, d, h) ==
    /\ d < Len(Plan[e]) /\ e \notin WaitSet
    /\ Plan[e][d + 1] \in Graph =>
        p = "rmw_create" /\ e \in Rpc /\ h = Prefix(e, d)
    /\ Plan[e][d + 1] \notin Graph =>
        /\ h \cap Graph = {}
        /\ p \in {"raf_create", "rmw_create"} => h \cap {"listener", "rpc"} = {}
        /\ p = "rmw_create" => "object" \notin h

\* What an entity has in phase p after d steps of its creation.
HeldAt(e, p, d, h) ==
    /\ p = "none" => d = 0
    /\ p \in {"none", "creating", "constructor"} => h = Prefix(e, d)
    /\ p \in Unwinding => UnwindingAt(e, p, d, h)
    /\ p \in {"open", "closing"} => d = Len(Plan[e])
    /\ p = "open" => h = Steps[e]
    /\ p = "closing" => Steps[e] \ Graph \subseteq h
    /\ p = "closed" => h \cap Graph = {}
    /\ p \in {"closed", "failed"} /\ e \notin Server \cup WaitSet => "handle" \notin h

\* What FreedInsideOut and GraphTruthful say of one entity.
OrderedAt(e, p, h) ==
    e \notin WaitSet =>
        /\ "object" \notin h => h \cap {"listener", "rpc"} = {}
        /\ "handle" \notin h => "object" \notin h
        /\ h \cap Graph # {} =>
            \/ {"endpoint", "rpc"} \cap h # {} /\ "object" \in h
            \/ e \in Client /\ p = "failed" /\ h \cap Graph = {"sub"}

SoundAt(e, p, d, h) ==
    /\ p \in Phase /\ d \in 0 .. Len(Plan[e]) /\ h \subseteq Steps[e]
    /\ HeldAt(e, p, d, h)
    /\ OrderedAt(e, p, h)

Sound == \A e \in Entity : SoundAt(e, phase[e], done[e], held[e])

\* The types of the functions.
Typed ==
    /\ phase \in [Entity -> Phase]
    /\ done \in [Entity -> Nat]
    /\ held \in [Entity -> SUBSET UNION {Steps[e] : e \in Entity}]
    /\ graph \in [Graph -> SUBSET Guid]
    /\ node \in {"up", "gone"}
    /\ touched \in BOOLEAN

\* Who is in the graph was recorded there, and stays if its GUIDs are its own.
Recorded ==
    /\ \A k \in Graph : \A g \in graph[k] : \E e \in Entity : k \in held[e] /\ GuidOf[e][k] = g
    /\ \A e \in Unshared : \A k \in held[e] \cap Graph : GuidOf[e][k] \in graph[k]

\* The node goes after its entities, and the caches with it.
NodeLast ==
    node = "gone" =>
        /\ \A e \in Entity \ WaitSet : phase[e] \in {"none", "closed", "failed"}
        /\ \A e \in Entity : held[e] \cap Graph = {}

IInv == Typed /\ Sound /\ Recorded /\ NodeLast

\* The type invariant that the runs check follows.
LEMMA TypeFromInvariant == IInv => TypeOK
  BY DEF IInv, Typed, TypeOK, Sound, SoundAt, HeldAt, Prefix

\* A wait set has no entries in the graph.
LEMMA WaitSetHasNone == ASSUME NEW e \in Entity, e \in WaitSet PROVE Steps[e] \cap Graph = {}
  BY OrderFacts, StepsOf

\* Nothing has been acquired at the beginning.
LEMMA InitEstablishes == Init => IInv
<1> SUFFICES ASSUME Init PROVE IInv
  OBVIOUS
<1>1. \A e \in Entity : phase[e] = "none" /\ done[e] = 0 /\ held[e] = {}
  BY DEF Init
<1>2. ASSUME NEW e \in Entity PROVE SoundAt(e, "none", 0, {})
  <2>1. 0 \in 0 .. Len(Plan[e]) /\ Prefix(e, 0) = {}
    BY OrderFacts DEF Prefix
  <2> QED
    BY <2>1 DEF SoundAt, HeldAt, OrderedAt, Phase, Unwinding
<1>3. Typed
  BY DEF Init, Typed, Phase
<1>4. Unshared \subseteq Entity
  BY DEF Unshared
<1> QED
  BY <1>1, <1>2, <1>3, <1>4 DEF Init, IInv, Sound, Recorded, NodeLast

\* A step of one entity changes nothing of the others.
LEMMA OneMoves ==
  ASSUME IInv, NEW e \in Entity, NEW p, NEW d, NEW h,
         phase' = [phase EXCEPT ![e] = p],
         done' = [done EXCEPT ![e] = d],
         held' = [held EXCEPT ![e] = h],
         SoundAt(e, p, d, h)
  PROVE  /\ phase' \in [Entity -> Phase]
         /\ done' \in [Entity -> Nat]
         /\ held' \in [Entity -> SUBSET UNION {Steps[x] : x \in Entity}]
         /\ Sound'
         /\ held'[e] = h /\ \A x \in Entity \ {e} : held'[x] = held[x] /\ phase'[x] = phase[x]
<1>1. p \in Phase /\ d \in Nat /\ h \in SUBSET UNION {Steps[x] : x \in Entity}
  BY OrderFacts DEF SoundAt
<1>2. /\ phase \in [Entity -> Phase]
      /\ done \in [Entity -> Nat]
      /\ held \in [Entity -> SUBSET UNION {Steps[x] : x \in Entity}]
      /\ \A x \in Entity : SoundAt(x, phase[x], done[x], held[x])
  BY DEF IInv, Typed, Sound
<1>3. /\ phase' \in [Entity -> Phase]
      /\ done' \in [Entity -> Nat]
      /\ held' \in [Entity -> SUBSET UNION {Steps[x] : x \in Entity}]
  BY <1>1, <1>2
<1>4. phase'[e] = p /\ done'[e] = d /\ held'[e] = h
  BY <1>2
<1>5. \A x \in Entity \ {e} : phase'[x] = phase[x] /\ done'[x] = done[x] /\ held'[x] = held[x]
  BY <1>2
<1>6. ASSUME NEW x \in Entity PROVE SoundAt(x, phase'[x], done'[x], held'[x])
  <2>1. CASE x = e
    BY <1>4, <2>1
  <2>2. CASE x # e
    BY <1>2, <1>5, <2>2
  <2> QED
    BY <2>1, <2>2
<1> QED
  BY <1>3, <1>4, <1>5, <1>6 DEF Sound

\* A step of one entity that leaves the graph alone.
LEMMA OneMovesUnseen ==
  ASSUME IInv, NEW e \in Entity, NEW p, NEW d, NEW h,
         phase' = [phase EXCEPT ![e] = p],
         done' = [done EXCEPT ![e] = d],
         held' = [held EXCEPT ![e] = h],
         SoundAt(e, p, d, h),
         h \cap Graph = held[e] \cap Graph,
         graph' = graph, node' = node, touched' \in BOOLEAN,
         node = "gone" => e \in WaitSet \/ p \in {"none", "closed", "failed"}
  PROVE  IInv'
<1>1. /\ phase' \in [Entity -> Phase]
      /\ done' \in [Entity -> Nat]
      /\ held' \in [Entity -> SUBSET UNION {Steps[x] : x \in Entity}]
      /\ Sound'
      /\ held'[e] = h /\ \A x \in Entity \ {e} : held'[x] = held[x] /\ phase'[x] = phase[x]
  BY OneMoves
<1>2. \A x \in Entity : held'[x] \cap Graph = held[x] \cap Graph
  BY <1>1
<1>3. \A x \in Entity : \A k \in Graph : k \in held'[x] <=> k \in held[x]
  BY <1>2
<1>4. Unshared \subseteq Entity
  BY DEF Unshared
<1>5. Recorded'
  BY <1>2, <1>3, <1>4 DEF Recorded, IInv
<1>6. phase'[e] = p
  BY DEF IInv, Typed
<1>7. NodeLast'
  BY <1>1, <1>2, <1>6 DEF NodeLast, IInv
<1> QED
  BY <1>1, <1>5, <1>7 DEF IInv, Typed

\* What the invariant says of one entity.
LEMMA Here ==
  ASSUME IInv, NEW e \in Entity
  PROVE  /\ SoundAt(e, phase[e], done[e], held[e])
         /\ phase[e] \in Phase /\ done[e] \in 0 .. Len(Plan[e]) /\ held[e] \subseteq Steps[e]
         /\ held = [held EXCEPT ![e] = held[e]]
         /\ done = [done EXCEPT ![e] = done[e]]
         /\ phase = [phase EXCEPT ![e] = phase[e]]
         /\ touched \in BOOLEAN
         /\ node = "gone" => e \in WaitSet \/ phase[e] \in {"none", "closed", "failed"}
  BY DEF IInv, Typed, Sound, SoundAt, NodeLast

\* The next step of a creation that goes on.
LEMMA NextStep ==
  ASSUME IInv, NEW e \in Entity, CanGoOn(e)
  PROVE  /\ phase[e] = "creating" /\ held[e] = Prefix(e, done[e])
         /\ done[e] \in 0 .. Len(Plan[e]) /\ done[e] < Len(Plan[e]) /\ Len(Plan[e]) \in Nat
         /\ Step(e) = Plan[e][done[e] + 1] /\ Step(e) \in Steps[e]
         /\ node = "up" \/ e \in WaitSet
<1>1. /\ phase[e] = "creating" /\ done[e] \in 0 .. Len(Plan[e]) /\ done[e] < Len(Plan[e])
      /\ Len(Plan[e]) \in Nat /\ node \in {"up", "gone"}
      /\ held[e] = Prefix(e, done[e])
  BY Here, OrderFacts DEF CanGoOn, SoundAt, HeldAt, IInv, Typed
<1>2. done[e] + 1 \in 1 .. Len(Plan[e])
  BY <1>1
<1>3. Plan[e][done[e] + 1] \in Steps[e]
  BY <1>2, StepsOf
<1> QED
  BY <1>1, <1>3, Here DEF Step

\* After a further step everything is still in its order.
LEMMA TakenIsSound ==
  ASSUME IInv, NEW e \in Entity, CanGoOn(e)
  PROVE  SoundAt(e, "creating", done[e] + 1, held[e] \cup {Step(e)})
<1>1. /\ held[e] = Prefix(e, done[e]) /\ Step(e) = Plan[e][done[e] + 1]
      /\ done[e] \in 0 .. Len(Plan[e]) /\ done[e] < Len(Plan[e]) /\ Len(Plan[e]) \in Nat
  BY NextStep
<1>2. PICK d \in 0 .. Len(Plan[e]) : d = done[e] + 1
  BY <1>1
<1>3. held[e] \cup {Step(e)} = Prefix(e, d)
  BY <1>1, <1>2, PrefixFacts
<1>4. Prefix(e, d) \subseteq Steps[e]
  BY PrefixFacts
<1>5. HeldAt(e, "creating", d, Prefix(e, d))
  BY DEF HeldAt, Unwinding
<1>6. OrderedAt(e, "creating", Prefix(e, d))
  <2> SUFFICES ASSUME e \notin WaitSet PROVE
        /\ "object" \notin Prefix(e, d) => Prefix(e, d) \cap {"listener", "rpc"} = {}
        /\ "handle" \notin Prefix(e, d) => "object" \notin Prefix(e, d)
        /\ Prefix(e, d) \cap Graph # {} =>
             {"endpoint", "rpc"} \cap Prefix(e, d) # {} /\ "object" \in Prefix(e, d)
    BY DEF OrderedAt
  <2> QED
    BY PrefixOrder, PrefixFacts
<1> QED
  BY <1>2, <1>3, <1>4, <1>5, <1>6 DEF SoundAt, Phase

\* A creation begins, takes a step, and returns.
LEMMA CreationKeeps == ASSUME IInv, NEW e \in Entity, Creation(e) PROVE IInv'
<1>1. CASE Create(e)
  <2>1. SoundAt(e, "creating", done[e], held[e])
    BY <1>1, Here DEF Create, SoundAt, HeldAt, OrderedAt, Phase, Unwinding
  <2>2. node = "gone" => e \in WaitSet
    BY <1>1 DEF Create
  <2> QED
    BY <1>1, <2>1, <2>2, Here, OneMovesUnseen DEF Create
<1>2. CASE Acquire(e)
  <2>1. /\ CanGoOn(e) /\ Step(e) \notin Graph
        /\ held' = [held EXCEPT ![e] = held[e] \cup {Step(e)}]
        /\ done' = [done EXCEPT ![e] = done[e] + 1]
        /\ phase' = phase /\ graph' = graph /\ node' = node /\ touched' = touched
    BY <1>2 DEF Acquire, Take
  <2>2. SoundAt(e, "creating", done[e] + 1, held[e] \cup {Step(e)})
    BY <2>1, TakenIsSound
  <2>3. phase' = [phase EXCEPT ![e] = "creating"] /\ (node = "gone" => e \in WaitSet)
        /\ touched' \in BOOLEAN
    BY <2>1, Here, NextStep
  <2>4. (held[e] \cup {Step(e)}) \cap Graph = held[e] \cap Graph
    BY <2>1
  <2> QED
    BY <2>1, <2>2, <2>3, <2>4, OneMovesUnseen
<1>3. CASE Created(e)
  <2>1. held[e] = Steps[e] /\ done[e] = Len(Plan[e])
    BY <1>3, Here, PrefixFacts DEF Created, SoundAt, HeldAt
  <2>2. SoundAt(e, "open", done[e], held[e])
    BY <1>3, <2>1, Here DEF Created, SoundAt, HeldAt, OrderedAt, Phase, Unwinding
  <2>3. node = "gone" => e \in WaitSet
    BY <1>3, Here DEF Created
  <2> QED
    BY <1>3, <2>2, <2>3, Here, OneMovesUnseen DEF Created
<1>4. ASSUME NEW k \in Graph, Register(e, k) PROVE IInv'
  <2>1. /\ CanGoOn(e) /\ Step(e) = k
        /\ held' = [held EXCEPT ![e] = held[e] \cup {k}]
        /\ done' = [done EXCEPT ![e] = done[e] + 1]
        /\ graph' = [graph EXCEPT ![k] = graph[k] \cup {GuidOf[e][k]}]
        /\ phase' = phase /\ node' = node /\ touched' = touched
    BY <1>4 DEF Register, Take
  <2>2. SoundAt(e, "creating", done[e] + 1, held[e] \cup {k})
    BY <2>1, TakenIsSound
  <2>3. phase' = [phase EXCEPT ![e] = "creating"] /\ e \notin WaitSet /\ node = "up"
    BY <2>1, Here, NextStep, WaitSetHasNone
  <2>4. /\ phase' \in [Entity -> Phase]
        /\ done' \in [Entity -> Nat]
        /\ held' \in [Entity -> SUBSET UNION {Steps[x] : x \in Entity}]
        /\ Sound'
        /\ held'[e] = held[e] \cup {k}
        /\ \A x \in Entity \ {e} : held'[x] = held[x]
    BY <2>1, <2>2, <2>3, OneMoves
  <2>5. graph \in [Graph -> SUBSET Guid] /\ GuidOf[e][k] \in Guid
    BY GuidOfType DEF IInv, Typed
  <2>6. /\ graph' \in [Graph -> SUBSET Guid]
        /\ graph'[k] = graph[k] \cup {GuidOf[e][k]}
        /\ \A l \in Graph \ {k} : graph'[l] = graph[l]
    BY <2>1, <2>5
  <2>7. \A x \in Entity : held[x] \subseteq held'[x]
    BY <2>4
  <2>8. ASSUME NEW l \in Graph, NEW g \in graph'[l]
        PROVE  \E x \in Entity : l \in held'[x] /\ GuidOf[x][l] = g
    <3>1. CASE g \in graph[l]
      BY <2>7, <3>1 DEF IInv, Recorded
    <3>2. CASE g \notin graph[l]
      BY <2>4, <2>6, <2>8, <3>2
    <3> QED
      BY <3>1, <3>2
  <2>9. ASSUME NEW x \in Unshared, NEW l \in held'[x] \cap Graph
        PROVE  GuidOf[x][l] \in graph'[l]
    <3>1. x \in Entity
      BY DEF Unshared
    <3>2. CASE l \in held[x]
      BY <2>6, <3>2 DEF IInv, Recorded
    <3>3. CASE l \notin held[x]
      BY <2>4, <2>6, <3>1, <3>3
    <3> QED
      BY <3>2, <3>3
  <2> QED
    BY <2>1, <2>3, <2>4, <2>6, <2>8, <2>9 DEF IInv, Typed, Recorded, NodeLast
<1> QED
  BY <1>1, <1>2, <1>3, <1>4 DEF Creation

\* A failure is caught with what there is, which the catcher can tell from the step.
LEMMA FailKeeps == ASSUME IInv, NEW e \in Entity, Fail(e) PROVE IInv'
<1>1. /\ CanGoOn(e) /\ e \notin WaitSet /\ (Step(e) \in Graph => e \in Rpc)
      /\ phase' = [phase EXCEPT ![e] = Catcher(e)]
      /\ done' = done /\ held' = held /\ graph' = graph /\ node' = node /\ touched' = touched
  BY DEF Fail, CanFail
<1>2. /\ phase[e] = "creating" /\ held[e] = Prefix(e, done[e])
      /\ done[e] \in 0 .. Len(Plan[e]) /\ done[e] < Len(Plan[e])
      /\ Step(e) = Plan[e][done[e] + 1]
  BY <1>1, NextStep
<1>3. /\ Catcher(e) \in Unwinding
      /\ Step(e) \in Graph => Catcher(e) = "rmw_create"
      /\ Catcher(e) = "rmw_create" => Step(e) \in {"handle", "object"} \cup Graph
      /\ Catcher(e) = "raf_create" => Step(e) \in Initialised(e)
  BY DEF Catcher, Unwinding, Initialised, Graph
<1>4. UnwindingAt(e, Catcher(e), done[e], held[e])
  <2>1. ASSUME Step(e) \notin Graph
        PROVE  /\ held[e] \cap Graph = {}
               /\ Catcher(e) \in {"raf_create", "rmw_create"} =>
                    held[e] \cap {"listener", "rpc"} = {}
               /\ Catcher(e) = "rmw_create" => "object" \notin held[e]
    <3>1. held[e] \cap Graph = {}
      BY <1>2, <2>1, BeforeStep
    <3>2. Catcher(e) = "rmw_create" => done[e] <= 1
      BY <1>1, <1>2, <1>3, <2>1, PrefixOrder
    <3>3. Catcher(e) = "raf_create" => done[e] <= 2
      BY <1>1, <1>2, <1>3, PrefixOrder
    <3>4. /\ done[e] <= 1 => "object" \notin held[e]
          /\ done[e] <= 2 => held[e] \cap {"listener", "rpc"} = {}
          /\ done[e] <= 1 => done[e] <= 2
      BY <1>1, <1>2, PrefixOrder
    <3> QED
      BY <3>1, <3>2, <3>3, <3>4
  <2> QED
    BY <1>1, <1>2, <1>3, <2>1 DEF UnwindingAt
<1>5. SoundAt(e, Catcher(e), done[e], held[e])
  <2>1. OrderedAt(e, "creating", held[e])
    BY <1>2, Here DEF SoundAt
  <2>2. OrderedAt(e, Catcher(e), held[e])
    BY <2>1 DEF OrderedAt
  <2>3. HeldAt(e, Catcher(e), done[e], held[e])
    BY <1>2, <1>3, <1>4 DEF HeldAt, Unwinding
  <2> QED
    BY <1>3, <2>2, <2>3, Here DEF SoundAt, Phase
<1>6. /\ node = "gone" => e \in WaitSet
      /\ done' = [done EXCEPT ![e] = done[e]] /\ held' = [held EXCEPT ![e] = held[e]]
      /\ touched' \in BOOLEAN
  BY <1>1, <1>2, Here
<1> QED
  BY <1>1, <1>5, <1>6, OneMovesUnseen

\* What a clean-up of the class leaves.
LEMMA CleanedUpFacts ==
  ASSUME NEW e \in Entity, e \notin WaitSet, NEW h \in CleanedUp(e), held[e] \subseteq Steps[e]
  PROVE  /\ h \subseteq held[e] /\ h \cap {"listener", "rpc"} = {}
         /\ h \cap Graph = held[e] \cap Graph
         /\ "object" \in held[e] => "object" \in h
         /\ "handle" \in held[e] => "handle" \in h
<1>1. h \subseteq held[e] /\ Parts(e) \ {"condition"} \subseteq Parts(e)
      /\ h \cap (Parts(e) \ {"condition"}) = {} /\ held[e] \ Parts(e) \subseteq h
  BY DEF CleanedUp
<1>2. Parts(e) \subseteq {"rpc", "writer", "condition", "listener"}
  BY DEF Parts
<1>3. ASSUME NEW x \in h, x \in {"listener", "rpc"} PROVE FALSE
  <2>1. x \in Steps[e]
    BY <1>1, <1>3
  <2>2. PICK i \in 1 .. Len(Plan[e]) : x = Plan[e][i]
    BY <2>1, StepsOf
  <2>3. x \in Parts(e)
    BY <1>3, <2>2, OwnedFacts
  <2> QED
    BY <1>1, <1>3, <2>3
<1> QED
  BY <1>1, <1>2, <1>3 DEF Graph

\* A clean-up on the way out of a creation that failed.
LEMMA UnwindKeeps ==
  ASSUME IInv, NEW e \in Entity, NEW catcher, NEW next, NEW left, NEW h \in left,
         phase[e] = catcher,
         held' = [held EXCEPT ![e] = h], phase' = [phase EXCEPT ![e] = next],
         UNCHANGED <<done, graph, node, touched>>,
         SoundAt(e, next, done[e], h), h \cap Graph = held[e] \cap Graph,
         catcher \in Unwinding \/ next \in {"closed", "failed"}
  PROVE  IInv'
<1>1. node = "gone" => e \in WaitSet \/ next \in {"none", "closed", "failed"}
  BY Here DEF Unwinding
<1> QED
  BY <1>1, Here, OneMovesUnseen

\* The catch block of a constructor.
LEMMA ConstructorCatchKeeps == ASSUME IInv, NEW e \in Entity, ConstructorCatches(e) PROVE IInv'
<1>1. PICK h \in CleanedUp(e) : held' = [held EXCEPT ![e] = h]
  BY DEF ConstructorCatches, Unwind
<1>2. /\ phase[e] = "constructor" /\ phase' = [phase EXCEPT ![e] = "raf_create"]
      /\ UNCHANGED <<done, graph, node, touched>>
  BY DEF ConstructorCatches, Unwind
<1>3. /\ UnwindingAt(e, "constructor", done[e], held[e]) /\ OrderedAt(e, "constructor", held[e])
      /\ held[e] \subseteq Steps[e] /\ done[e] \in 0 .. Len(Plan[e]) /\ e \notin WaitSet
  BY <1>2, Here DEF SoundAt, HeldAt, Unwinding, UnwindingAt
<1>4. /\ h \subseteq held[e] /\ h \cap {"listener", "rpc"} = {}
      /\ h \cap Graph = held[e] \cap Graph
      /\ "object" \in held[e] => "object" \in h
      /\ "handle" \in held[e] => "handle" \in h
  BY <1>3, CleanedUpFacts
<1>5. SoundAt(e, "raf_create", done[e], h)
  <2>1. held[e] \cap Graph = {} /\ Plan[e][done[e] + 1] \notin Graph
    BY <1>3 DEF UnwindingAt
  <2>2. UnwindingAt(e, "raf_create", done[e], h)
    BY <1>3, <1>4, <2>1 DEF UnwindingAt
  <2>3. OrderedAt(e, "raf_create", h)
    BY <1>3, <1>4, <2>1 DEF OrderedAt
  <2> QED
    BY <1>3, <1>4, <2>2, <2>3 DEF SoundAt, HeldAt, Phase, Unwinding
<1> QED
  BY <1>1, <1>2, <1>4, <1>5, UnwindKeeps DEF Unwinding

\* RmwAllocateFree::create frees the memory of an object that owns nothing any more.
LEMMA RafCatchKeeps == ASSUME IInv, NEW e \in Entity, RafCatches(e) PROVE IInv'
<1>1. /\ phase[e] = "raf_create" /\ phase' = [phase EXCEPT ![e] = "rmw_create"]
      /\ held' = [held EXCEPT ![e] = held[e] \ {"object"}]
      /\ UNCHANGED <<done, graph, node, touched>>
  BY DEF RafCatches, Unwind
<1>2. /\ UnwindingAt(e, "raf_create", done[e], held[e]) /\ OrderedAt(e, "raf_create", held[e])
      /\ held[e] \subseteq Steps[e] /\ done[e] \in 0 .. Len(Plan[e]) /\ e \notin WaitSet
  BY <1>1, Here DEF SoundAt, HeldAt, Unwinding, UnwindingAt
<1>3. /\ held[e] \cap Graph = {} /\ Plan[e][done[e] + 1] \notin Graph
      /\ held[e] \cap {"listener", "rpc"} = {}
  BY <1>2 DEF UnwindingAt
<1>4. SoundAt(e, "rmw_create", done[e], held[e] \ {"object"})
  <2>1. UnwindingAt(e, "rmw_create", done[e], held[e] \ {"object"})
    BY <1>2, <1>3 DEF UnwindingAt
  <2>2. OrderedAt(e, "rmw_create", held[e] \ {"object"})
    BY <1>3 DEF OrderedAt
  <2> QED
    BY <1>2, <2>1, <2>2 DEF SoundAt, HeldAt, Phase, Unwinding
<1>5. (held[e] \ {"object"}) \cap Graph = held[e] \cap Graph
  BY DEF Graph
<1> QED
  BY <1>1, <1>4, <1>5, UnwindKeeps DEF Unwinding

\* What clean_* leaves when it may take the object: when the object owns nothing that it
\* does not clean up, or there is none.
LEMMA DiscardedFacts ==
  ASSUME NEW e \in Entity, e \notin WaitSet, NEW h \in Discarded(e), held[e] \subseteq Steps[e],
         OrderedAt(e, phase[e], held[e]),
         e \in Server \/ DataSet(e) \/ "object" \notin held[e]
  PROVE  /\ h \subseteq held[e] /\ h \cap Graph = held[e] \cap Graph
         /\ "object" \notin h => h \cap {"listener", "rpc"} = {}
         /\ "handle" \notin h => "object" \notin h
         /\ e \in Server => h = held[e]
         /\ e \notin Server => "handle" \notin h
<1>1. CASE e \in Server
  BY <1>1 DEF Discarded, OrderedAt
<1>2. CASE e \notin Server /\ DataSet(e)
  <2>1. PICK c \in CleanedUp(e) : h = c \ {"object", "handle"}
    BY <1>2 DEF Discarded
  <2> QED
    BY <1>2, <2>1, CleanedUpFacts DEF Graph
<1>3. CASE e \notin Server /\ ~DataSet(e)
  <2>1. h = held[e] \ {"handle"} /\ "object" \notin held[e]
    BY <1>3 DEF Discarded
  <2> QED
    BY <1>3, <2>1 DEF OrderedAt, Graph
<1> QED
  BY <1>1, <1>2, <1>3

\* The end of a creation that failed.
LEMMA CreateCatchKeeps == ASSUME IInv, NEW e \in Entity, CreateCatches(e) PROVE IInv'
<1>1. PICK h \in Discarded(e) : held' = [held EXCEPT ![e] = h]
  BY DEF CreateCatches, Unwind
<1>2. /\ phase[e] = "rmw_create" /\ phase' = [phase EXCEPT ![e] = "failed"]
      /\ UNCHANGED <<done, graph, node, touched>>
  BY DEF CreateCatches, Unwind
<1>3. /\ UnwindingAt(e, "rmw_create", done[e], held[e]) /\ OrderedAt(e, phase[e], held[e])
      /\ OrderedAt(e, "rmw_create", held[e])
      /\ held[e] \subseteq Steps[e] /\ done[e] \in 0 .. Len(Plan[e]) /\ e \notin WaitSet
  BY <1>2, Here DEF SoundAt, HeldAt, Unwinding, UnwindingAt
<1>4. DataSet(e) \/ "object" \notin held[e]
  BY <1>3 DEF DataSet, Step, UnwindingAt
<1>5. /\ h \subseteq held[e] /\ h \cap Graph = held[e] \cap Graph
      /\ "object" \notin h => h \cap {"listener", "rpc"} = {}
      /\ "handle" \notin h => "object" \notin h
      /\ e \in Server => h = held[e]
      /\ e \notin Server => "handle" \notin h
  BY <1>3, <1>4, DiscardedFacts
<1>6. ASSUME h \cap Graph # {}
      PROVE  \/ {"endpoint", "rpc"} \cap h # {} /\ "object" \in h
             \/ e \in Client /\ h \cap Graph = {"sub"}
  <2>1. e \in Rpc /\ held[e] = Prefix(e, done[e]) /\ done[e] < Len(Plan[e])
    BY <1>3, <1>5, <1>6 DEF UnwindingAt
  <2>2. CASE e \in Server
    BY <1>3, <1>5, <1>6, <2>2 DEF OrderedAt
  <2>3. CASE e \in Client
    <3>1. held[e] \cap Graph \subseteq {"sub"}
      BY <1>3, <2>1, BeforeStep
    <3> QED
      BY <1>5, <1>6, <2>3, <3>1
  <2> QED
    BY <2>1, <2>2, <2>3 DEF Rpc
<1>7. OrderedAt(e, "failed", h)
  BY <1>5, <1>6 DEF OrderedAt
<1>8. SoundAt(e, "failed", done[e], h)
  BY <1>3, <1>5, <1>7 DEF SoundAt, HeldAt, Phase, Unwinding
<1> QED
  BY <1>1, <1>2, <1>5, <1>8, UnwindKeeps DEF Unwinding

\* A wait set's clean-up after a failure.
LEMMA GotoFailKeeps == ASSUME IInv, NEW e \in Entity, GotoFail(e) PROVE IInv'
<1>1. /\ e \in WaitSet
      /\ held' = [held EXCEPT ![e] = {}] /\ phase' = [phase EXCEPT ![e] = "failed"]
      /\ touched' \in {touched, touched \/ "info" \in held[e]}
      /\ done' = done /\ graph' = graph /\ node' = node
  BY DEF GotoFail
<1>2. SoundAt(e, "failed", done[e], {})
  BY <1>1, Here DEF SoundAt, HeldAt, OrderedAt, Phase, Unwinding
<1>3. {} \cap Graph = held[e] \cap Graph
  BY <1>1, Here, WaitSetHasNone
<1>4. touched' \in BOOLEAN
  BY <1>1, Here
<1> QED
  BY <1>1, <1>2, <1>3, <1>4, Here, OneMovesUnseen

\* A destruction takes the entries out of the graph before it frees the wrapper.
LEMMA DestructionKeeps == ASSUME IInv, NEW e \in Entity, Destruction(e) PROVE IInv'
<1>1. CASE Destroy(e)
  <2>1. SoundAt(e, "closing", done[e], held[e])
    BY <1>1, Here DEF Destroy, SoundAt, HeldAt, OrderedAt, Phase, Unwinding
  <2>2. /\ node = "gone" => e \in WaitSet
        /\ done' = [done EXCEPT ![e] = done[e]] /\ held' = [held EXCEPT ![e] = held[e]]
        /\ touched' \in BOOLEAN
    BY <1>1, Here DEF Destroy
  <2> QED
    BY <1>1, <2>1, <2>2, OneMovesUnseen DEF Destroy
<1>2. CASE Clean(e)
  <2>1. PICK h \in Discarded(e) : held' = [held EXCEPT ![e] = h]
    BY <1>2 DEF Clean, Unwind
  <2>2. /\ phase[e] = "closing" /\ phase' = [phase EXCEPT ![e] = "closed"]
        /\ held[e] \cap Graph = {}
        /\ UNCHANGED <<done, graph, node, touched>>
    BY <1>2 DEF Clean, Unwind
  <2>3. /\ OrderedAt(e, phase[e], held[e]) /\ held[e] \subseteq Steps[e]
        /\ done[e] = Len(Plan[e]) /\ done[e] \in 0 .. Len(Plan[e])
    BY <2>2, Here DEF SoundAt, HeldAt
  <2>4. DataSet(e)
    BY <2>3, OrderFacts DEF DataSet
  <2>5. SoundAt(e, "closed", done[e], h) /\ h \cap Graph = held[e] \cap Graph
    <3>1. CASE e \in WaitSet
      <4>1. h = {}
        BY <2>1, <3>1, DistinctEntities DEF Discarded
      <4> QED
        BY <2>2, <2>3, <3>1, <4>1 DEF SoundAt, HeldAt, OrderedAt, Phase, Unwinding
    <3>2. CASE e \notin WaitSet
      <4>1. /\ h \subseteq held[e] /\ h \cap Graph = held[e] \cap Graph
            /\ "object" \notin h => h \cap {"listener", "rpc"} = {}
            /\ "handle" \notin h => "object" \notin h
            /\ e \notin Server => "handle" \notin h
        BY <2>3, <2>4, <3>2, DiscardedFacts
      <4>2. OrderedAt(e, "closed", h)
        BY <2>2, <4>1 DEF OrderedAt
      <4> QED
        BY <2>2, <2>3, <4>1, <4>2 DEF SoundAt, HeldAt, Phase, Unwinding
    <3> QED
      BY <3>1, <3>2
  <2> QED
    BY <2>1, <2>2, <2>5, UnwindKeeps
<1>3. ASSUME NEW k \in Graph, Unregister(e, k) PROVE IInv'
  <2>1. /\ phase[e] = "closing" /\ k \in held[e]
        /\ held' = [held EXCEPT ![e] = held[e] \ {k}]
        /\ graph' = [graph EXCEPT ![k] = graph[k] \ {GuidOf[e][k]}]
        /\ phase' = phase /\ done' = done /\ node' = node /\ touched' = touched
    BY <1>3 DEF Unregister
  <2>2. SoundAt(e, "closing", done[e], held[e] \ {k})
    <3>1. /\ Steps[e] \ Graph \subseteq held[e] /\ done[e] = Len(Plan[e])
          /\ held[e] \subseteq Steps[e] /\ done[e] \in 0 .. Len(Plan[e])
          /\ OrderedAt(e, "closing", held[e])
      BY <2>1, Here DEF SoundAt, HeldAt
    <3>2. HeldAt(e, "closing", done[e], held[e] \ {k})
      BY <3>1 DEF HeldAt, Unwinding
    <3>3. OrderedAt(e, "closing", held[e] \ {k})
      BY <3>1 DEF OrderedAt, Graph
    <3> QED
      BY <3>1, <3>2, <3>3 DEF SoundAt, Phase
  <2>3. k \in Steps[e]
    BY <2>1, Here
  <2>4. /\ e \notin WaitSet /\ node = "up"
        /\ phase' = [phase EXCEPT ![e] = "closing"] /\ done' = [done EXCEPT ![e] = done[e]]
    BY <2>1, <2>3, Here, WaitSetHasNone DEF IInv, Typed
  <2>5. /\ phase' \in [Entity -> Phase]
        /\ done' \in [Entity -> Nat]
        /\ held' \in [Entity -> SUBSET UNION {Steps[x] : x \in Entity}]
        /\ Sound'
        /\ held'[e] = held[e] \ {k}
        /\ \A x \in Entity \ {e} : held'[x] = held[x]
    <3>1. PICK h : h = held[e] \ {k}
      OBVIOUS
    <3>2. held' = [held EXCEPT ![e] = h] /\ SoundAt(e, "closing", done[e], h)
      BY <2>1, <2>2, <3>1
    <3> QED
      BY <2>4, <3>1, <3>2, OneMoves
  <2>6. graph \in [Graph -> SUBSET Guid]
    BY DEF IInv, Typed
  <2>7. /\ graph' \in [Graph -> SUBSET Guid]
        /\ graph'[k] = graph[k] \ {GuidOf[e][k]}
        /\ \A l \in Graph \ {k} : graph'[l] = graph[l]
    BY <2>1, <2>6
  <2>8. ASSUME NEW l \in Graph, NEW g \in graph'[l]
        PROVE  \E x \in Entity : l \in held'[x] /\ GuidOf[x][l] = g
    <3>1. g \in graph[l] /\ (l = k => g # GuidOf[e][k])
      BY <2>7, <2>8
    <3>2. PICK x \in Entity : l \in held[x] /\ GuidOf[x][l] = g
      BY <3>1 DEF IInv, Recorded
    <3>3. l \in held'[x]
      BY <2>5, <3>1, <3>2
    <3> QED
      BY <3>2, <3>3
  <2>9. ASSUME NEW x \in Unshared, NEW l \in held'[x] \cap Graph
        PROVE  GuidOf[x][l] \in graph'[l]
    <3>1. x \in Entity /\ held[x] \subseteq Steps[x] /\ l \in held[x]
      BY <2>5, Here DEF Unshared
    <3>2. GuidOf[x][l] \in graph[l]
      BY <3>1 DEF IInv, Recorded
    <3>3. CASE l = k
      <4>1. x # e
        BY <2>5, <3>3
      <4>2. k \in Entries[x] \cap Entries[e]
        BY <2>3, <3>1, <3>3, StepsOf
      <4>3. GuidOf[x][k] # GuidOf[e][k]
        BY <4>1, <4>2 DEF Unshared
      <4> QED
        BY <2>7, <3>2, <3>3, <4>3
    <3>4. CASE l # k
      BY <2>7, <3>2, <3>4
    <3> QED
      BY <3>3, <3>4
  <2>10. Recorded'
    BY <2>8, <2>9 DEF Recorded
  <2>11. touched' \in BOOLEAN /\ node' \in {"up", "gone"}
    BY <2>1 DEF IInv, Typed
  <2> QED
    BY <2>1, <2>4, <2>5, <2>7, <2>10, <2>11 DEF IInv, Typed, NodeLast
<1> QED
  BY <1>1, <1>2, <1>3 DEF Destruction

\* The end of the node.
LEMMA NodeKeeps == ASSUME IInv, DestroyNode PROVE IInv'
<1>1. PICK deleted \in {Contained, {}} :
        held' = [e \in Entity |->
            IF e \in WaitSet THEN held[e] ELSE held[e] \ (deleted \cup Graph)]
  BY DEF DestroyNode
<1>2. /\ phase' = phase /\ done' = done /\ touched' = touched /\ node' = "gone"
      /\ graph' = [k \in Graph |-> {}]
      /\ \A e \in Entity \ WaitSet : phase[e] \in {"none", "closed", "failed"}
  BY DEF DestroyNode
<1>3. ASSUME NEW e \in Entity
      PROVE  /\ SoundAt(e, phase[e], done[e], held'[e])
             /\ held'[e] \cap Graph = {} /\ held'[e] \subseteq held[e]
  <2>1. CASE e \in WaitSet
    BY <1>1, <2>1, Here, WaitSetHasNone
  <2>2. CASE e \notin WaitSet
    <3>1. /\ phase[e] \in {"none", "closed", "failed"} /\ SoundAt(e, phase[e], done[e], held[e])
          /\ phase[e] = "none" => held[e] = {}
      BY <1>2, <2>2, Here, PrefixFacts DEF SoundAt, HeldAt
    <3>2. PICK h : h = held[e] \ (deleted \cup Graph)
      OBVIOUS
    <3>3. /\ h \cap Graph = {} /\ h \subseteq held[e] /\ held'[e] = h
          /\ \A x \in {"handle", "object", "listener", "rpc"} : x \in h <=> x \in held[e]
      BY <1>1, <2>2, <3>2 DEF Contained, Graph
    <3>4. OrderedAt(e, phase[e], h)
      BY <3>1, <3>3 DEF SoundAt, OrderedAt
    <3>5. HeldAt(e, phase[e], done[e], h)
      BY <3>1, <3>3 DEF SoundAt, HeldAt, Unwinding
    <3> QED
      BY <3>1, <3>3, <3>4, <3>5 DEF SoundAt
  <2> QED
    BY <2>1, <2>2
<1>4. held' \in [Entity -> SUBSET UNION {Steps[e] : e \in Entity}]
  BY <1>1, <1>3 DEF IInv, Typed
<1>5. Unshared \subseteq Entity
  BY DEF Unshared
<1>6. Recorded'
  BY <1>2, <1>3, <1>5 DEF Recorded
<1>7. Sound' /\ NodeLast'
  BY <1>2, <1>3 DEF Sound, NodeLast
<1> QED
  BY <1>2, <1>4, <1>6, <1>7 DEF IInv, Typed

-------------------------------------------------------------------------------
(* The theorems *)

\* IInv is an invariant.
THEOREM Invariance == Spec => []IInv
<1>1. IInv /\ [Next]_vars => IInv'
  <2> SUFFICES ASSUME IInv, [Next]_vars PROVE IInv'
    OBVIOUS
  <2>1. ASSUME NEW e \in Entity, Creation(e) PROVE IInv'
    BY <2>1, CreationKeeps
  <2>2. ASSUME NEW e \in Entity, Failure(e) PROVE IInv'
    BY <2>2, FailKeeps, ConstructorCatchKeeps, RafCatchKeeps, CreateCatchKeeps, GotoFailKeeps
       DEF Failure
  <2>3. ASSUME NEW e \in Entity, Destruction(e) PROVE IInv'
    BY <2>3, DestructionKeeps
  <2>4. CASE DestroyNode
    BY <2>4, NodeKeeps
  <2>5. CASE UNCHANGED vars
    BY <2>5 DEF vars, IInv, Typed, Sound, Recorded, NodeLast
  <2> QED
    BY <2>1, <2>2, <2>3, <2>4, <2>5 DEF Next
<1> QED
  BY <1>1, InitEstablishes, PTL DEF Spec

\* What the invariant says of the entries in the graph: their endpoint and their object
\* are there.
LEMMA GraphFromInvariant == IInv => GraphTruthful
<1> SUFFICES ASSUME IInv, NEW k \in Graph, NEW g \in graph[k]
             PROVE  \E e \in Entity :
                        /\ k \in held[e] /\ GuidOf[e][k] = g
                        /\ (InDomain(e) /\ "object" \in held[e]) \/ HalfRegistered(e)
  BY DEF GraphTruthful
<1>1. PICK e \in Entity : k \in held[e] /\ GuidOf[e][k] = g
  BY DEF IInv, Recorded
<1>2. e \notin WaitSet
  BY <1>1, Here, WaitSetHasNone
<1>3. OrderedAt(e, phase[e], held[e])
  BY Here DEF SoundAt
<1> QED
  BY <1>1, <1>2, <1>3 DEF OrderedAt, InDomain, HalfRegistered

\* What the invariant says of the memory.
LEMMA FreedFromInvariant == IInv => FreedInsideOut
<1> SUFFICES ASSUME IInv, NEW e \in Entity \ WaitSet
             PROVE  /\ "object" \notin held[e] => held[e] \cap {"listener", "rpc"} = {}
                    /\ "handle" \notin held[e] => "object" \notin held[e]
                    /\ phase[e] \in {"closed", "failed"} /\ e \notin Server =>
                            "handle" \notin held[e]
  BY DEF FreedInsideOut
<1> QED
  BY Here DEF SoundAt, HeldAt, OrderedAt

\* Every variable keeps its type, and a creation that goes on has all that its steps
\* have acquired.
THEOREM TypeCorrect == Spec => []TypeOK
  BY Invariance, TypeFromInvariant, PTL

\* For any sets of entities and any GUIDs, shared or not: an entry in the node's graph is
\* that of an endpoint its peers can see and of an object that has not been freed (add_pub,
\* remove_pub and the two of readers), but for a client that failed half-way through add_to.
THEOREM GraphIsTruthful == Spec => []GraphTruthful
  BY Invariance, GraphFromInvariant, PTL

\* For any sets of entities and a failure at any step: the catch block of the constructor,
\* RmwAllocateFree::create and clean_* together free from the inside out, and the handle in
\* the end, unless it is a service's.
THEOREM AlwaysFreedInsideOut == Spec => []FreedInsideOut
  BY Invariance, FreedFromInvariant, PTL

-------------------------------------------------------------------------------
(* The registry that the graph of a node is *)

LifeOf == [e \in Unshared |-> IF phase[e] \in Unwinding THEN "creating" ELSE phase[e]]

Shown == [e \in Unshared |-> {k \in Entries[e] : GuidOf[e][k] \in graph[k]}]

\* An entity whose GUIDs are its own shows what has been entered for it.
LEMMA ShownIsHeld ==
  ASSUME NEW h, NEW g, NEW e \in Unshared,
         \A x \in Entity : h[x] \subseteq Steps[x],
         \A k \in Graph : \A i \in g[k] : \E x \in Entity : k \in h[x] /\ GuidOf[x][k] = i,
         \A x \in Unshared : \A k \in h[x] \cap Graph : GuidOf[x][k] \in g[k]
  PROVE  {k \in Entries[e] : GuidOf[e][k] \in g[k]} = h[e] \cap Graph
<1>1. e \in Entity /\ h[e] \subseteq Steps[e] /\ Entries[e] = Steps[e] \cap Graph
  BY StepsOf DEF Unshared
<1>2. ASSUME NEW k \in h[e] \cap Graph PROVE k \in Entries[e] /\ GuidOf[e][k] \in g[k]
  BY <1>1
<1>3. ASSUME NEW k \in Entries[e], GuidOf[e][k] \in g[k] PROVE k \in h[e] \cap Graph
  <2>1. k \in Graph
    BY <1>1
  <2>2. PICK x \in Entity : k \in h[x] /\ GuidOf[x][k] = GuidOf[e][k]
    BY <1>3, <2>1
  <2>3. k \in Entries[x]
    BY <2>1, <2>2, StepsOf
  <2>4. x = e
    BY <1>3, <2>2, <2>3 DEF Unshared
  <2> QED
    BY <2>1, <2>2, <2>4
<1> QED
  BY <1>2, <1>3

\* A step on one entity shows in the entries of that entity only.
LEMMA ShownUpdated ==
  ASSUME IInv, IInv', NEW e \in Entity, NEW h, held' = [held EXCEPT ![e] = h]
  PROVE  /\ e \in Unshared => Shown' = [Shown EXCEPT ![e] = h \cap Graph]
         /\ e \notin Unshared \/ h \cap Graph = held[e] \cap Graph => Shown' = Shown
<1>1. /\ held \in [Entity -> SUBSET UNION {Steps[x] : x \in Entity}] /\ Unshared \subseteq Entity
      /\ Shown = [x \in Unshared |-> Shown[x]] /\ Shown' = [x \in Unshared |-> Shown'[x]]
  BY DEF IInv, Typed, Shown, Unshared
<1>2. \A x \in Unshared : Shown[x] = held[x] \cap Graph
  <2>1. \A x \in Entity : held[x] \subseteq Steps[x]
    BY Here
  <2>2. /\ \A k \in Graph : \A i \in graph[k] : \E x \in Entity :
            k \in held[x] /\ GuidOf[x][k] = i
        /\ \A x \in Unshared : \A k \in held[x] \cap Graph : GuidOf[x][k] \in graph[k]
    BY DEF IInv, Recorded
  <2>3. ASSUME NEW x \in Unshared
        PROVE  {k \in Entries[x] : GuidOf[x][k] \in graph[k]} = held[x] \cap Graph
    BY <2>1, <2>2, ShownIsHeld, Zenon
  <2> QED
    BY <2>3 DEF Shown
<1>3. \A x \in Unshared : Shown'[x] = held'[x] \cap Graph
  <2>1. \A x \in Entity : held'[x] \subseteq Steps[x]
    BY DEF IInv, Sound, SoundAt
  <2>2. /\ \A k \in Graph : \A i \in graph'[k] : \E x \in Entity :
            k \in held'[x] /\ GuidOf[x][k] = i
        /\ \A x \in Unshared : \A k \in held'[x] \cap Graph : GuidOf[x][k] \in graph'[k]
    BY DEF IInv, Recorded
  <2>3. ASSUME NEW x \in Unshared
        PROVE  {k \in Entries[x] : GuidOf[x][k] \in graph'[k]} = held'[x] \cap Graph
    <3>1. PICK after : after = held'
      OBVIOUS
    <3>2. PICK recorded : recorded = graph'
      OBVIOUS
    <3>3. /\ \A y \in Entity : after[y] \subseteq Steps[y]
          /\ \A k \in Graph : \A i \in recorded[k] : \E y \in Entity :
                k \in after[y] /\ GuidOf[y][k] = i
          /\ \A y \in Unshared : \A k \in after[y] \cap Graph : GuidOf[y][k] \in recorded[k]
      BY <2>1, <2>2, <3>1, <3>2
    <3>4. {k \in Entries[x] : GuidOf[x][k] \in recorded[k]} = after[x] \cap Graph
      BY <3>3, ShownIsHeld, Zenon
    <3> QED
      BY <3>1, <3>2, <3>4
  <2> QED
    BY <2>3 DEF Shown
<1>4. \A x \in Unshared : held'[x] = IF x = e THEN h ELSE held[x]
  BY <1>1
<1> QED
  BY <1>1, <1>2, <1>3, <1>4

\* Which entries an entity has.
LEMMA EntriesOf ==
  ASSUME NEW e \in Entity
  PROVE  /\ e \in Publisher => Entries[e] = {"pub"}
         /\ e \in Subscription => Entries[e] = {"sub"}
         /\ e \in Rpc => Entries[e] = {"pub", "sub"}
         /\ e \in WaitSet <=> Entries[e] = {}
<1> DEFINE P == Plan[e]
<1>1. Entries[e] = {P[i] : i \in 1 .. Len(P)} \cap Graph
  BY StepsOf
<1>2. CASE e \in Publisher
  <2>1. P[7] = "pub" /\ Len(P) = 7
    BY <1>2, PlanOf, PublisherPlanEntries
  <2>2. \A i \in 1 .. Len(P) : P[i] \in Graph => i = 7
    BY <1>2, <2>1, OrderFacts, DistinctEntities DEF Rpc
  <2>3. Entries[e] = {"pub"}
    BY <1>1, <2>1, <2>2 DEF Graph
  <2> QED
    BY <1>2, <2>3, DistinctEntities DEF Rpc
<1>3. CASE e \in Subscription
  <2>1. P[8] = "sub" /\ Len(P) = 8
    BY <1>3, PlanOf, SubscriptionPlanEntries
  <2>2. \A i \in 1 .. Len(P) : P[i] \in Graph => i = 8
    BY <1>3, <2>1, OrderFacts, DistinctEntities DEF Rpc
  <2>3. Entries[e] = {"sub"}
    BY <1>1, <2>1, <2>2 DEF Graph
  <2> QED
    BY <1>3, <2>3, DistinctEntities DEF Rpc
<1>4. CASE e \in Rpc
  <2>1. Len(P) = 8 /\ P[7] = "sub" /\ P[8] = "pub"
    BY <1>4, OrderFacts
  <2>2. {"pub", "sub"} \subseteq {P[i] : i \in 1 .. Len(P)}
    BY <2>1
  <2> QED
    BY <1>1, <1>4, <2>2, DistinctEntities DEF Graph, Rpc
<1>5. CASE e \in WaitSet
  <2>1. Entries[e] = {}
    BY <1>5, StepsOf, WaitSetHasNone
  <2> QED
    BY <1>5, <2>1, DistinctEntities DEF Rpc
<1> QED
  BY <1>2, <1>3, <1>4, <1>5 DEF Entity

\* The next entry of a creation is entered while the node is there, a writer's after that
\* of its reader.
LEMMA NextEntry ==
  ASSUME IInv, NEW e \in Entity, CanGoOn(e), NEW k \in Graph, Step(e) = k
  PROVE  /\ k \in Entries[e] /\ node = "up"
         /\ k = "pub" /\ "sub" \in Entries[e] => "sub" \in held[e]
<1>1. /\ done[e] \in 0 .. Len(Plan[e]) /\ Len(Plan[e]) \in Nat /\ done[e] < Len(Plan[e])
      /\ held[e] = Prefix(e, done[e]) /\ k = Plan[e][done[e] + 1]
      /\ k \in Entries[e] /\ (node = "up" \/ e \in WaitSet)
  BY NextStep, StepsOf
<1>2. node = "up"
  BY <1>1, EntriesOf
<1>3. ASSUME k = "pub", "sub" \in Entries[e] PROVE "sub" \in held[e]
  <2>1. e \in Rpc
    BY <1>1, <1>3, EntriesOf DEF Entity
  <2>2. Len(Plan[e]) = 8 /\ Plan[e][7] = "sub" /\ done[e] >= 6
    BY <1>1, <2>1, OrderFacts, BeforeStep
  <2>3. done[e] + 1 # 7
    BY <1>1, <1>3, <2>2
  <2>4. 7 \in 1 .. done[e]
    BY <1>1, <2>2, <2>3
  <2>5. Plan[e][7] \in Prefix(e, done[e])
    BY <2>4 DEF Prefix
  <2> QED
    BY <1>1, <2>2, <2>5
<1> QED
  BY <1>1, <1>2, <1>3

\* A creation that fails has not entered everything.
LEMMA NotWhole ==
  ASSUME IInv, NEW e \in Entity, phase[e] \in Unwinding
  PROVE  held[e] \cap Graph = {} \/ held[e] \cap Graph # Entries[e]
<1>1. /\ UnwindingAt(e, phase[e], done[e], held[e])
      /\ done[e] \in 0 .. Len(Plan[e]) /\ done[e] < Len(Plan[e])
  BY Here DEF SoundAt, HeldAt, UnwindingAt
<1>2. CASE Plan[e][done[e] + 1] \in Graph
  <2>1. e \in Rpc /\ held[e] = Prefix(e, done[e])
    BY <1>1, <1>2 DEF UnwindingAt
  <2>2. held[e] \cap Graph \subseteq {"sub"}
    BY <1>1, <2>1, BeforeStep
  <2> QED
    BY <2>1, <2>2, EntriesOf
<1>3. CASE Plan[e][done[e] + 1] \notin Graph
  BY <1>1, <1>3 DEF UnwindingAt
<1> QED
  BY <1>2, <1>3

\* What happens to an entity whose GUIDs are not its own is no step of the registry.
LEMMA OthersUnseen ==
  ASSUME IInv, IInv', NEW e \in Entity, e \notin Unshared,
         NEW h, held' = [held EXCEPT ![e] = h],
         NEW next, phase' = [phase EXCEPT ![e] = next], node' = node
  PROVE  UNCHANGED Registry!registryVars
<1>1. Shown' = Shown
  BY ShownUpdated
<1>2. LifeOf' = LifeOf
  BY DEF LifeOf, IInv, Typed, Unshared
<1> QED
  BY <1>1, <1>2 DEF Registry!registryVars, LifeOf, Shown

\* What an unshared entity shows, where it is, and what it has entered of what it has.
LEMMA Seen ==
  ASSUME IInv, NEW e \in Unshared
  PROVE  /\ e \in Entity /\ Shown[e] = held[e] \cap Graph
         /\ LifeOf[e] = IF phase[e] \in Unwinding THEN "creating" ELSE phase[e]
         /\ Entries[e] = Steps[e] \cap Graph
         /\ node \in {"up", "gone"}
         /\ Shown = [x \in Unshared |-> Shown[x]]
<1>1. e \in Entity
  BY DEF Unshared
<1>2. \A x \in Entity : held[x] \subseteq Steps[x]
  BY Here
<1>3. /\ \A k \in Graph : \A i \in graph[k] : \E x \in Entity :
            k \in held[x] /\ GuidOf[x][k] = i
      /\ \A x \in Unshared : \A k \in held[x] \cap Graph : GuidOf[x][k] \in graph[k]
  BY DEF IInv, Recorded
<1>4. {k \in Entries[e] : GuidOf[e][k] \in graph[k]} = held[e] \cap Graph
  BY <1>2, <1>3, ShownIsHeld, Zenon
<1> QED
  BY <1>1, <1>4, StepsOf DEF LifeOf, Shown, IInv, Typed

\* A step that changes nothing of the graph, and of the phase only what Registry!Turn says.
LEMMA Turns ==
  ASSUME IInv, IInv', NEW e \in Unshared,
         NEW h, held' = [held EXCEPT ![e] = h], h \cap Graph = held[e] \cap Graph,
         NEW next, next \notin Unwinding, phase' = [phase EXCEPT ![e] = next], node' = node
  PROVE  Registry!Turn(e, IF phase[e] \in Unwinding THEN "creating" ELSE phase[e], next)
<1>1. phase \in [Entity -> Phase] /\ Unshared \subseteq Entity /\ e \in Entity
  BY DEF IInv, Typed, Unshared
<1>2. Shown' = Shown
  BY <1>1, ShownUpdated
<1>3. \A x \in Unshared : phase'[x] = IF x = e THEN next ELSE phase[x]
  BY <1>1
<1>4. LifeOf' = [LifeOf EXCEPT ![e] = next]
  BY <1>3 DEF LifeOf
<1>5. LifeOf[e] = IF phase[e] \in Unwinding THEN "creating" ELSE phase[e]
  BY DEF LifeOf
<1> QED
  BY <1>2, <1>4, <1>5 DEF Registry!Turn, LifeOf, Shown

\* When the registry has all entries of an entity.
LEMMA CompleteIs ==
  ASSUME IInv, NEW e \in Unshared
  PROVE  Registry!Complete(e) <=> held[e] \cap Graph = Entries[e]
  BY Seen DEF Registry!Complete, Shown

\* Beginning, going on with and returning from a creation.
LEMMA CreationRefines ==
  ASSUME IInv, IInv', NEW e \in Unshared, Creation(e)
  PROVE  [Registry!RegistryNext]_Registry!registryVars
<1>1. e \in Entity
  BY DEF Unshared
<1>2. CASE Create(e)
  <2>1. /\ phase[e] = "none" /\ (node = "up" \/ e \in WaitSet)
        /\ phase' = [phase EXCEPT ![e] = "creating"]
        /\ held' = [held EXCEPT ![e] = held[e]] /\ node' = node
    BY <1>1, <1>2, Here DEF Create
  <2>2. Registry!Turn(e, "none", "creating")
    BY <2>1, Turns DEF Unwinding
  <2>3. node = "up" \/ Entries[e] = {}
    BY <1>1, <2>1, EntriesOf
  <2> QED
    BY <2>2, <2>3 DEF Registry!Begin, Registry!RegistryNext
<1>3. CASE Acquire(e)
  <2>1. /\ CanGoOn(e) /\ Step(e) \notin Graph
        /\ held' = [held EXCEPT ![e] = held[e] \cup {Step(e)}]
        /\ phase' = phase /\ node' = node
    BY <1>3 DEF Acquire, Take
  <2>2. (held[e] \cup {Step(e)}) \cap Graph = held[e] \cap Graph
    BY <2>1
  <2>3. Shown' = Shown
    BY <1>1, <2>1, <2>2, ShownUpdated
  <2> QED
    BY <2>1, <2>3 DEF Registry!registryVars, LifeOf, Shown
<1>4. CASE Created(e)
  <2>1. /\ phase[e] = "creating" /\ done[e] = Len(Plan[e])
        /\ phase' = [phase EXCEPT ![e] = "open"]
        /\ held' = [held EXCEPT ![e] = held[e]] /\ node' = node
    BY <1>1, <1>4, Here DEF Created
  <2>2. held[e] = Steps[e]
    BY <1>1, <2>1, Here, PrefixFacts DEF SoundAt, HeldAt
  <2>3. Registry!Turn(e, "creating", "open")
    BY <2>1, Turns DEF Unwinding
  <2>4. Registry!Complete(e)
    BY <2>2, Seen, CompleteIs
  <2> QED
    BY <2>3, <2>4 DEF Registry!Return, Registry!RegistryNext
<1>5. ASSUME NEW k \in Graph, Register(e, k) PROVE Registry!RegistryNext
  <2>1. /\ CanGoOn(e) /\ Step(e) = k
        /\ held' = [held EXCEPT ![e] = held[e] \cup {k}]
        /\ phase' = phase /\ node' = node
    BY <1>5 DEF Register, Take
  <2>2. Shown' = [Shown EXCEPT ![e] = (held[e] \cup {k}) \cap Graph]
    BY <1>1, <2>1, ShownUpdated
  <2>3. Shown' = [Shown EXCEPT ![e] = Shown[e] \cup {k}]
    BY <2>2, Seen
  <2>4. /\ k \in Entries[e] /\ node = "up"
        /\ k = "pub" /\ "sub" \in Entries[e] => "sub" \in Shown[e]
    BY <1>1, <2>1, NextEntry, Seen DEF Graph
  <2>5. LifeOf[e] = "creating" /\ LifeOf' = LifeOf
    BY <2>1, Seen DEF CanGoOn, LifeOf, Unwinding
  <2>6. Registry!Show(e, k)
    BY <2>1, <2>3, <2>4, <2>5 DEF Registry!Show, LifeOf, Shown
  <2> QED
    BY <2>4, <2>6 DEF Registry!RegistryNext
<1> QED
  BY <1>2, <1>3, <1>4, <1>5 DEF Creation

\* A failure does not show until rmw_create_* returns.
LEMMA FailureRefines ==
  ASSUME IInv, IInv', NEW e \in Unshared, Failure(e)
  PROVE  [Registry!RegistryNext]_Registry!registryVars
<1>1. e \in Entity
  BY DEF Unshared
<1>2. ASSUME NEW h, held' = [held EXCEPT ![e] = h], h \cap Graph = held[e] \cap Graph,
             NEW next, phase' = [phase EXCEPT ![e] = next], node' = node,
             phase[e] \in {"creating"} \cup Unwinding, next \in Unwinding
      PROVE  UNCHANGED Registry!registryVars
  <2>1. Shown' = Shown
    BY <1>1, <1>2, ShownUpdated
  <2>2. \A x \in Unshared : phase'[x] = IF x = e THEN next ELSE phase[x]
    BY <1>2 DEF IInv, Typed, Unshared
  <2>3. LifeOf' = LifeOf
    BY <1>2, <2>2 DEF LifeOf
  <2> QED
    BY <1>2, <2>1, <2>3 DEF Registry!registryVars, LifeOf, Shown
<1>3. CASE Fail(e)
  <2>1. /\ phase[e] = "creating" /\ phase' = [phase EXCEPT ![e] = Catcher(e)]
        /\ held' = [held EXCEPT ![e] = held[e]] /\ node' = node
    BY <1>1, <1>3, Here DEF Fail, CanFail, CanGoOn
  <2>2. Catcher(e) \in Unwinding
    BY DEF Catcher, Unwinding, Initialised, Graph
  <2> QED
    BY <1>2, <2>1, <2>2
<1>4. CASE ConstructorCatches(e)
  <2>1. PICK h \in CleanedUp(e) : held' = [held EXCEPT ![e] = h]
    BY <1>4 DEF ConstructorCatches, Unwind
  <2>2. /\ phase[e] = "constructor" /\ phase' = [phase EXCEPT ![e] = "raf_create"]
        /\ node' = node
    BY <1>4 DEF ConstructorCatches, Unwind
  <2>3. e \notin WaitSet /\ held[e] \subseteq Steps[e]
    BY <1>1, <2>2, Here DEF SoundAt, HeldAt, Unwinding, UnwindingAt
  <2>4. h \cap Graph = held[e] \cap Graph
    BY <1>1, <2>3, CleanedUpFacts
  <2> QED
    BY <1>2, <2>1, <2>2, <2>4 DEF Unwinding
<1>5. CASE RafCatches(e)
  <2>1. /\ phase[e] = "raf_create" /\ phase' = [phase EXCEPT ![e] = "rmw_create"]
        /\ held' = [held EXCEPT ![e] = held[e] \ {"object"}] /\ node' = node
    BY <1>5 DEF RafCatches, Unwind
  <2>2. (held[e] \ {"object"}) \cap Graph = held[e] \cap Graph
    BY DEF Graph
  <2> QED
    BY <1>2, <2>1, <2>2 DEF Unwinding
<1>6. CASE CreateCatches(e)
  <2>1. PICK h \in Discarded(e) : held' = [held EXCEPT ![e] = h]
    BY <1>6 DEF CreateCatches, Unwind
  <2>2. /\ phase[e] = "rmw_create" /\ phase' = [phase EXCEPT ![e] = "failed"]
        /\ node' = node
    BY <1>6 DEF CreateCatches, Unwind
  <2>3. /\ UnwindingAt(e, "rmw_create", done[e], held[e]) /\ e \notin WaitSet
        /\ OrderedAt(e, phase[e], held[e]) /\ held[e] \subseteq Steps[e]
    BY <1>1, <2>2, Here DEF SoundAt, HeldAt, Unwinding, UnwindingAt
  <2>4. DataSet(e) \/ "object" \notin held[e]
    BY <2>3 DEF DataSet, Step, UnwindingAt
  <2>5. h \cap Graph = held[e] \cap Graph
    BY <1>1, <2>3, <2>4, DiscardedFacts
  <2>6. Registry!Turn(e, "creating", "failed")
    BY <2>1, <2>2, <2>5, Turns DEF Unwinding
  <2>7. Shown[e] = {} \/ ~Registry!Complete(e)
    BY <1>1, <2>2, NotWhole, Seen, CompleteIs DEF Unwinding
  <2> QED
    BY <2>6, <2>7 DEF Registry!GiveUp, Registry!RegistryNext, Shown
<1>7. CASE GotoFail(e)
  <2>1. /\ phase[e] = "creating" /\ phase' = [phase EXCEPT ![e] = "failed"] /\ e \in WaitSet
        /\ held' = [held EXCEPT ![e] = {}] /\ node' = node
    BY <1>7 DEF GotoFail, CanFail, CanGoOn
  <2>2. held[e] \cap Graph = {} /\ {} \cap Graph = held[e] \cap Graph
    BY <1>1, <2>1, Here, WaitSetHasNone
  <2>3. Registry!Turn(e, "creating", "failed")
    BY <2>1, <2>2, Turns DEF Unwinding
  <2>4. Shown[e] = {}
    BY <2>2, Seen
  <2> QED
    BY <2>3, <2>4 DEF Registry!GiveUp, Registry!RegistryNext, Shown
<1> QED
  BY <1>3, <1>4, <1>5, <1>6, <1>7 DEF Failure

\* Beginning, going on with and ending a destruction.
LEMMA DestructionRefines ==
  ASSUME IInv, IInv', NEW e \in Unshared, Destruction(e)
  PROVE  [Registry!RegistryNext]_Registry!registryVars
<1>1. e \in Entity
  BY DEF Unshared
<1>2. CASE Destroy(e)
  <2>1. /\ phase[e] = "open" /\ phase' = [phase EXCEPT ![e] = "closing"]
        /\ held' = [held EXCEPT ![e] = held[e]] /\ node' = node
    BY <1>1, <1>2, Here DEF Destroy
  <2>2. held[e] = Steps[e]
    BY <1>1, <2>1, Here DEF SoundAt, HeldAt
  <2>3. Registry!Turn(e, "open", "closing")
    BY <2>1, Turns DEF Unwinding
  <2>4. Registry!Complete(e)
    BY <2>2, Seen, CompleteIs
  <2> QED
    BY <2>3, <2>4 DEF Registry!Close, Registry!RegistryNext
<1>3. CASE Clean(e)
  <2>1. PICK h \in Discarded(e) : held' = [held EXCEPT ![e] = h]
    BY <1>3 DEF Clean, Unwind
  <2>2. /\ phase[e] = "closing" /\ phase' = [phase EXCEPT ![e] = "closed"]
        /\ held[e] \cap Graph = {} /\ node' = node
    BY <1>3 DEF Clean, Unwind
  <2>3. h \cap Graph = held[e] \cap Graph
    <3>1. CASE e \in WaitSet
      BY <2>1, <2>2, <3>1 DEF Discarded
    <3>2. CASE e \notin WaitSet
      <4>1. DataSet(e) /\ OrderedAt(e, phase[e], held[e]) /\ held[e] \subseteq Steps[e]
        BY <1>1, <2>2, Here, OrderFacts DEF DataSet, SoundAt, HeldAt
      <4> QED
        BY <1>1, <2>1, <3>2, <4>1, DiscardedFacts
    <3> QED
      BY <3>1, <3>2
  <2>4. Registry!Turn(e, "closing", "closed")
    BY <2>1, <2>2, <2>3, Turns DEF Unwinding
  <2>5. Shown[e] = {}
    BY <2>2, Seen
  <2> QED
    BY <2>4, <2>5 DEF Registry!Finish, Registry!RegistryNext, Shown
<1>4. ASSUME NEW k \in Graph, Unregister(e, k) PROVE Registry!RegistryNext
  <2>1. /\ phase[e] = "closing" /\ k \in held[e] /\ (k = "sub" => "pub" \notin held[e])
        /\ held' = [held EXCEPT ![e] = held[e] \ {k}]
        /\ phase' = phase /\ node' = node
    BY <1>4 DEF Unregister
  <2>2. Shown' = [Shown EXCEPT ![e] = (held[e] \ {k}) \cap Graph]
    BY <1>1, <2>1, ShownUpdated
  <2>3. Shown' = [Shown EXCEPT ![e] = Shown[e] \ {k}]
    BY <2>2, Seen
  <2>4. k \in Entries[e] /\ (k = "sub" => "pub" \notin Shown[e])
    BY <1>1, <2>1, Here, Seen
  <2>5. node = "up"
    BY <1>1, <2>1, <2>4, Here, EntriesOf DEF IInv, Typed
  <2>6. LifeOf[e] = "closing" /\ LifeOf' = LifeOf
    BY <2>1, Seen DEF LifeOf, Unwinding
  <2>7. Registry!Hide(e, k)
    BY <2>1, <2>3, <2>4, <2>5, <2>6 DEF Registry!Hide, LifeOf, Shown
  <2> QED
    BY <2>4, <2>7 DEF Registry!RegistryNext
<1> QED
  BY <1>2, <1>3, <1>4 DEF Destruction

\* The end of the node.
LEMMA NodeRefines == ASSUME IInv, IInv', DestroyNode PROVE Registry!EndNode
<1>1. /\ node = "up" /\ node' = "gone" /\ phase' = phase
      /\ graph' = [k \in Graph |-> {}]
      /\ \A e \in Entity \ WaitSet : phase[e] \in {"none", "closed", "failed"}
  BY DEF DestroyNode
<1>2. \A e \in Unshared : Entries[e] \subseteq Graph
  BY Seen
<1>3. Shown' = [e \in Unshared |-> {}]
  BY <1>1, <1>2 DEF Shown
<1>4. ASSUME NEW e \in Unshared, Entries[e] # {} PROVE LifeOf[e] \in {"none", "closed", "failed"}
  BY <1>1, <1>4, EntriesOf DEF LifeOf, Unshared, Unwinding
<1> QED
  BY <1>1, <1>3, <1>4 DEF Registry!EndNode, LifeOf, Shown

\* A step on one entity leaves the others and, unless it is the node's end, the node.
LEMMA EntityStep ==
  ASSUME IInv, NEW e \in Entity, Creation(e) \/ Failure(e) \/ Destruction(e)
  PROVE  /\ \E h : held' = [held EXCEPT ![e] = h]
         /\ \E p : phase' = [phase EXCEPT ![e] = p]
         /\ node' = node
<1>1. CASE Creation(e)
  BY <1>1, Here DEF Creation, Create, Acquire, Register, Take, Created
<1>2. CASE Failure(e)
  BY <1>2, Here DEF Failure, Fail, ConstructorCatches, RafCatches, CreateCatches, Unwind, GotoFail
<1>3. CASE Destruction(e)
  BY <1>3, Here DEF Destruction, Destroy, Clean, Unwind, Unregister
<1> QED
  BY <1>1, <1>2, <1>3

\* For any sets of entities and any GUIDs, to the entities whose GUIDs are their own the
\* node's graph is a registry of what has been created on it and not destroyed (add_pub,
\* add_sub, add_to and their opposites): the steps in between, the failures at them and what
\* the entities that share a GUID do to each other's entries do not show.
THEOREM Refinement == Spec => ImplementsRegistry
<1>1. Init => Registry!RegistryInit
  <2> SUFFICES ASSUME Init PROVE Registry!RegistryInit
    OBVIOUS
  <2>1. Unshared \subseteq Entity /\ \A e \in Entity : Entries[e] \subseteq Graph
    BY StepsOf DEF Unshared
  <2>2. LifeOf = [e \in Unshared |-> "none"]
    BY <2>1 DEF Init, LifeOf, Unwinding
  <2>3. Shown = [e \in Unshared |-> {}]
    BY <2>1 DEF Init, Shown
  <2> QED
    BY <2>2, <2>3 DEF Init, Registry!RegistryInit, LifeOf, Shown
<1>2. IInv /\ IInv' /\ [Next]_vars => [Registry!RegistryNext]_Registry!registryVars
  <2> SUFFICES ASSUME IInv, IInv', [Next]_vars
               PROVE  [Registry!RegistryNext]_Registry!registryVars
    OBVIOUS
  <2>1. ASSUME NEW e \in Entity, Creation(e) \/ Failure(e) \/ Destruction(e)
        PROVE  [Registry!RegistryNext]_Registry!registryVars
    <3>1. CASE e \in Unshared
      BY <2>1, <3>1, CreationRefines, FailureRefines, DestructionRefines
    <3>2. CASE e \notin Unshared
      BY <2>1, <3>2, EntityStep, OthersUnseen
    <3> QED
      BY <3>1, <3>2
  <2>2. CASE DestroyNode
    BY <2>2, NodeRefines DEF Registry!RegistryNext
  <2>3. CASE UNCHANGED vars
    BY <2>3 DEF vars, Registry!registryVars
  <2> QED
    BY <2>1, <2>2, <2>3 DEF Next
<1> QED
  BY <1>1, <1>2, Invariance, PTL DEF Spec, ImplementsRegistry, Registry!RegistrySpec

===============================================================================
