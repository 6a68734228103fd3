-------------------------- MODULE NodeLifecycle_proofs --------------------------
(***************************************************************************)
(* NodeLifecycle is correct for any contexts and nodes.  The inductive     *)
(* invariant says what each location of the constructor and of cleanup()   *)
(* owns, and that a participant that can call back is the participant of   *)
(* a node that owns everything.                                            *)
(***************************************************************************)
EXTENDS NodeLifecycle, TLAPS

\* The locations before there is a participant, and those where both listeners exist.
Early == {"none", "qos", "gc", "pub_listener", "sub_listener", "participant"}
Complete == {"participant", "transport", "install_pub", "install_sub", "open"}

\* Nodes are constructed one at a time.
OneConstructor ==
    \A m, n \in Node : pc[m] \in Constructing /\ pc[n] \in Constructing => m = n

\* Between set_default_participant_qos and create_participant nobody changes the default.
DefaultIsOwn ==
    \A n \in Node :
        pc[n] \in {"gc", "pub_listener", "sub_listener", "participant"} => defaultName = n

\* The guard condition, by location.
GuardConditionHeld ==
    \A n \in Node :
        /\ pc[n] \in {"none", "qos", "gc", "gone"} => n \notin gc
        /\ pc[n] \in Complete \cup {"pub_listener", "sub_listener"} => n \in gc

\* The listeners, by location.
ListenersHeld ==
    \A n \in Node :
        /\ pc[n] \in {"none", "qos", "gc", "pub_listener", "free_gc", "gone"} =>
                listener[n] = {}
        /\ pc[n] = "sub_listener" => listener[n] = {"pub"}
        /\ pc[n] = "free_pub" => "sub" \notin listener[n]
        /\ pc[n] \in Complete => listener[n] = Kind

\* A live participant belongs to a node that owns everything, and only a participant
\* that DDS knows calls back.
ParticipantBacked ==
    \A n \in Node :
        /\ participant[n] = "alive" =>
                /\ pc[n] \in (Complete \ {"participant"}) \cup {"cleanup"}
                /\ listener[n] = Kind
                /\ n \in gc
        /\ running[n] # {} => participant[n] \in {"alive", "orphan"}
        /\ pc[n] \in Early => participant[n] = "none"

IInv ==
    /\ TypeOK
    /\ FactoryInReach
    /\ OneConstructor
    /\ DefaultIsOwn
    /\ OwnName
    /\ GuardConditionHeld
    /\ ListenersHeld
    /\ ParticipantBacked


USE DEF Constructing, Cleaning, Complete, Early, Kind

\* There are no nodes before the first context.
LEMMA InitEstablishes == Init => IInv
  BY NoNodeAssumption, ContextOfType
     DEF Init, IInv, TypeOK, FactoryInReach, OneConstructor, DefaultIsOwn, OwnName,
         GuardConditionHeld, ListenersHeld, ParticipantBacked

\* A context ends only when none of its nodes is being constructed or destroyed and no
\* callback runs.
LEMMA ContextKeeps ==
  ASSUME IInv, NEW c \in Context, InitContext(c) \/ ShutDown(c) \/ FiniContext(c)
  PROVE  IInv'
<1> USE ContextOfType DEF IInv, TypeOK, FactoryInReach, Valid, OneConstructor, DefaultIsOwn,
            OwnName, GuardConditionHeld, ListenersHeld, ParticipantBacked, nodeVars, nameVars
<1>1. CASE InitContext(c)
  BY <1>1 DEF InitContext
<1>2. CASE ShutDown(c)
  BY <1>2 DEF ShutDown
<1>3. CASE FiniContext(c)
  BY <1>3 DEF FiniContext
<1> QED
  BY <1>1, <1>2, <1>3

\* Each step of the constructor, and its failure, leaves what the next location owns.
LEMMA ConstructionKeeps ==
  ASSUME IInv, NEW n \in Node,
         \/ CreateNode(n) \/ SetDefaultQos(n) \/ CreateGuardCondition(n)
         \/ CreateParticipant(n) \/ ConfigureTransport(n) \/ ConstructorFails(n)
         \/ \E k \in Kind : CreateListener(n, k) \/ InstallListener(n, k)
  PROVE  IInv'
<1> USE ContextOfType DEF IInv, TypeOK, FactoryInReach, Valid, OneConstructor, DefaultIsOwn,
            OwnName, GuardConditionHeld, ListenersHeld, ParticipantBacked, nameVars, Goto
<1>1. CASE CreateNode(n)
  BY <1>1 DEF CreateNode
<1>2. CASE SetDefaultQos(n)
  BY <1>2 DEF SetDefaultQos
<1>3. CASE CreateGuardCondition(n)
  BY <1>3 DEF CreateGuardCondition
<1>4. CASE CreateParticipant(n)
  BY <1>4 DEF CreateParticipant
<1>5. CASE ConfigureTransport(n)
  BY <1>5 DEF ConfigureTransport
<1>6. CASE ConstructorFails(n)
  BY <1>6 DEF ConstructorFails
<1>7. ASSUME NEW k \in Kind, CreateListener(n, k) PROVE IInv'
  BY <1>7 DEF CreateListener
<1>8. ASSUME NEW k \in Kind, InstallListener(n, k) PROVE IInv'
  BY <1>8 DEF InstallListener
<1> QED
  BY <1>1, <1>2, <1>3, <1>4, <1>5, <1>6, <1>7, <1>8

\* A callback begins only on a participant that is backed or lost.
LEMMA CallbackKeeps ==
  ASSUME IInv, NEW n \in Node, NEW k \in Kind,
         CallbackBegins(n, k) \/ CallbackEnds(n, k)
  PROVE  IInv'
<1> USE ContextOfType DEF IInv, TypeOK, FactoryInReach, Valid, OneConstructor, DefaultIsOwn,
            OwnName, GuardConditionHeld, ListenersHeld, ParticipantBacked, nameVars
<1>1. CASE CallbackBegins(n, k)
  BY <1>1 DEF CallbackBegins
<1>2. CASE CallbackEnds(n, k)
  BY <1>2 DEF CallbackEnds
<1> QED
  BY <1>1, <1>2

\* cleanup() frees in the order in which the locations of Cleaning own less and less.
LEMMA CleanupKeeps ==
  ASSUME IInv, NEW n \in Node,
         \/ DestroyNode(n) \/ DeleteParticipant(n) \/ DeleteParticipantFails(n)
         \/ FreeGuardCondition(n)
         \/ \E k \in Kind : FreeListener(n, k)
  PROVE  IInv'
<1> USE ContextOfType DEF IInv, TypeOK, FactoryInReach, Valid, OneConstructor, DefaultIsOwn,
            OwnName, GuardConditionHeld, ListenersHeld, ParticipantBacked, nameVars, Goto
<1>1. CASE DestroyNode(n)
  BY <1>1 DEF DestroyNode
<1>2. CASE DeleteParticipant(n)
  BY <1>2 DEF DeleteParticipant
<1>3. CASE DeleteParticipantFails(n)
  BY <1>3 DEF DeleteParticipantFails
<1>4. CASE FreeGuardCondition(n)
  BY <1>4 DEF FreeGuardCondition
<1>5. ASSUME NEW k \in Kind, FreeListener(n, k) PROVE IInv'
  BY <1>5 DEF FreeListener
<1> QED
  BY <1>1, <1>2, <1>3, <1>4, <1>5

-------------------------------------------------------------------------------
\* The invariant holds in every state.
THEOREM Invariance == Spec => []IInv
<1>1. ASSUME IInv, [Next]_vars PROVE IInv'
  <2>1. CASE UNCHANGED vars
    BY <1>1, <2>1 DEF vars, IInv, TypeOK, FactoryInReach, Valid, OneConstructor,
            DefaultIsOwn, OwnName, GuardConditionHeld, ListenersHeld, ParticipantBacked
  <2>2. CASE Next
    BY <1>1, <2>2, ContextKeeps, ConstructionKeeps, CallbackKeeps, CleanupKeeps DEF Next
  <2> QED
    BY <1>1, <2>1, <2>2
<1> QED
  BY <1>1, InitEstablishes, PTL DEF Spec

\* Every variable keeps its type.
THEOREM TypeCorrect == Spec => []TypeOK
<1>1. IInv => TypeOK
  BY DEF IInv
<1> QED
  BY <1>1, Invariance, PTL

\* A callback of OpenDDS finds the listener and the guard condition it uses, whatever
\* fails and whenever the node is destroyed.
THEOREM CallbackAlwaysFindsNode == Spec => []CallbackFindsNode
<1>1. IInv => CallbackFindsNode
  BY DEF IInv, TypeOK, ParticipantBacked, CallbackFindsNode
<1> QED
  BY <1>1, Invariance, PTL

\* A participant carries the name of its own node.
THEOREM NameIsOwn == Spec => []OwnName
<1>1. IInv => OwnName
  BY DEF IInv
<1> QED
  BY <1>1, Invariance, PTL

\* A node that is gone has released everything but a participant that could not be deleted.
THEOREM GoneAlwaysReleased == Spec => []GoneIsReleased
<1>1. IInv => GoneIsReleased
  BY DEF IInv, TypeOK, GuardConditionHeld, ListenersHeld, ParticipantBacked, GoneIsReleased
<1> QED
  BY <1>1, Invariance, PTL

\* A node is constructed and destroyed only while its context is valid.
THEOREM FactoryAlwaysInReach == Spec => []FactoryInReach
<1>1. IInv => FactoryInReach
  BY DEF IInv
<1> QED
  BY <1>1, Invariance, PTL

================================================================================
