----------------------------- MODULE WaitSet_proofs -----------------------------
(***************************************************************************)
(* Proofs about rmw_wait, for any arrays and any number of calls: no       *)
(* trigger of a guard condition is lost, a call that returns OK reports    *)
(* something, and the call is the atomic one of AtomicWait.                *)
(*                                                                         *)
(* None of the properties is inductive.  What carries them through a call is     *)
(* that the slots of the conditions the DDS wait returned are not touched  *)
(* by the loops (ActiveKept), which in turn needs that the wait set held   *)
(* nothing but this call's own conditions (AttachedIsWanted).              *)
(***************************************************************************)
EXTENDS WaitSet, TLAPS

Phases == {"subscriptions", "guards", "events"}

\* Between calls the wait set is empty and no loop is under way; during a call it holds what the caller passed.
AttachedIsWanted ==
    /\ pc = "idle" => attached = {} /\ left = {}
    /\ pc \in {"attach", "waiting"} => slots = wanted

\* The loops leave the slots of the active conditions alone, and a wait that did not time
\* out has returned at least one.
ActiveKept ==
    /\ pc \in Phases => active \subseteq slots /\ (timedOut \/ active # {})
    /\ pc = "idle" /\ ret = "OK" => active \subseteq slots /\ active # {}

IInv == TypeOK /\ AttachedIsWanted /\ ActiveKept /\ NoTriggerLost

USE DEF Condition, Reader, Entity

-------------------------------------------------------------------------------
\* Nothing has been triggered and nothing is attached before the first call.
LEMMA InitEstablishes == Init => IInv
  BY DEF Init, IInv, TypeOK, AttachedIsWanted, ActiveKept, NoTriggerLost, InFlight, Phases

\* The other threads touch nothing of the call, and a trigger sets the guard condition.
LEMMA OthersKeep == IInv /\ Others => IInv'
<1> SUFFICES ASSUME IInv, Others PROVE IInv'
  OBVIOUS
<1> USE DEF IInv, TypeOK, AttachedIsWanted, ActiveKept, NoTriggerLost, InFlight, Phases,
            callVars
<1>1. ASSUME NEW r \in Reader, Arrive(r) \/ TakeLast(r) PROVE IInv'
  BY <1>1 DEF Arrive, TakeLast
<1>2. ASSUME NEW g \in Guard, Trigger(g) PROVE IInv'
  BY <1>2 DEF Trigger
<1>3. ASSUME NEW ev \in Event, StatusChanges(ev) \/ TakeEvent(ev) PROVE IInv'
  BY <1>3 DEF StatusChanges, TakeEvent
<1> QED
  BY <1>1, <1>2, <1>3 DEF Others

\* Every early return lets go of the triggers it has already reset, and only of those.
LEMMA FailKeeps == IInv /\ Fail => IInv'
  BY DEF IInv, TypeOK, AttachedIsWanted, ActiveKept, NoTriggerLost, InFlight, Phases, Fail

\* A call starts with an empty wait set and all its slots.
LEMMA CallKeeps ==
  ASSUME NEW entities \in SUBSET Entity, NEW isFinite \in BOOLEAN,
         IInv, Call(entities, isFinite)
  PROVE  IInv'
  BY DEF IInv, TypeOK, AttachedIsWanted, ActiveKept, NoTriggerLost, InFlight, Phases, Call,
         envVars

\* Attaching and waiting: the conditions that end the wait are conditions of this call.
LEMMA WaitKeeps ==
  ASSUME IInv,
         \/ \E c \in Condition : Attach(c)
         \/ StartWait \/ WaitReturns \/ WaitTimesOut
  PROVE  IInv'
<1> USE DEF IInv, TypeOK, AttachedIsWanted, ActiveKept, NoTriggerLost, InFlight, Phases,
            envVars
<1>1. ASSUME NEW c \in Condition, Attach(c) PROVE IInv'
  BY <1>1 DEF Attach, Unattached
<1>2. CASE StartWait
  BY <1>2 DEF StartWait
<1>3. CASE WaitReturns
  BY <1>3 DEF WaitReturns, Ready
<1>4. CASE WaitTimesOut
  BY <1>4 DEF WaitTimesOut, Ready
<1> QED
  BY <1>1, <1>2, <1>3, <1>4

\* The loops: a guard condition that is reset is active and keeps its slot, and no other
\* loop nulls the slot of an active condition.
LEMMA LoopsKeep ==
  ASSUME IInv,
         \/ ResetSubscriptions \/ \E g \in Guard : ResetGuard(g)
         \/ ResetServices \/ \E ev \in Event : CheckEvent(ev)
         \/ Return
  PROVE  IInv'
<1> USE DisjointArrays DEF IInv, TypeOK, AttachedIsWanted, ActiveKept, NoTriggerLost,
                           InFlight, Phases, envVars
<1>1. CASE ResetSubscriptions
  BY <1>1 DEF ResetSubscriptions
<1>2. ASSUME NEW g \in Guard, ResetGuard(g) PROVE IInv'
  BY <1>2 DEF ResetGuard
<1>3. CASE ResetServices
  BY <1>3 DEF ResetServices
<1>4. ASSUME NEW ev \in Event, CheckEvent(ev) PROVE IInv'
  BY <1>4 DEF CheckEvent
<1>5. CASE Return
  BY <1>5 DEF Return
<1> QED
  BY <1>1, <1>2, <1>3, <1>4, <1>5

-------------------------------------------------------------------------------
\* Every step of every thread keeps the strengthened invariant.
THEOREM Inductive == Spec => []IInv
<1>1. IInv /\ [Next]_vars => IInv'
  <2> SUFFICES ASSUME IInv, [Next]_vars PROVE IInv'
    OBVIOUS
  <2>1. CASE Others
    BY <2>1, OthersKeep
  <2>2. CASE \E entities \in SUBSET Entity, isFinite \in BOOLEAN : Call(entities, isFinite)
    BY <2>2, CallKeeps
  <2>3. CASE AttachFails \/ WaitFails \/ ResetGuardFails \/ CheckEventFails
    BY <2>3, FailKeeps DEF AttachFails, WaitFails, ResetGuardFails, CheckEventFails
  <2>4. CASE Running /\ ~(AttachFails \/ WaitFails \/ ResetGuardFails \/ CheckEventFails)
    BY <2>4, WaitKeeps, LoopsKeep DEF Running
  <2>5. CASE UNCHANGED vars
    BY <2>5 DEF vars, IInv, TypeOK, AttachedIsWanted, ActiveKept, NoTriggerLost, InFlight,
                Phases
  <2> QED
    BY <2>1, <2>2, <2>3, <2>4, <2>5 DEF Next
<1> QED
  BY InitEstablishes, <1>1, PTL DEF Spec

\* Type correctness of rmw_wait: only the caller's own conditions are attached.
THEOREM TypeCorrect == Spec => []TypeOK
<1>1. IInv => TypeOK
  BY DEF IInv
<1> QED
  BY <1>1, Inductive, PTL

\* No trigger is lost, whenever it comes: rmw_wait resets a guard condition only if it is
\* going to report it.
THEOREM NoTriggerEverLost == Spec => []NoTriggerLost
<1>1. IInv => NoTriggerLost
  BY DEF IInv
<1> QED
  BY <1>1, Inductive, PTL

\* A call that returns OK hands back at least one entry that made the wait return.
THEOREM OkAlwaysReportsReady == Spec => []OkReportsReady
<1>1. IInv => OkReportsReady
  BY DEF IInv, ActiveKept, OkReportsReady
<1> QED
  BY <1>1, Inductive, PTL

-------------------------------------------------------------------------------
(* The refinement *)

\* When the DDS wait begins, all that the caller passed is attached; and the loops done so
\* far have left no slot to a condition that the DDS wait did not return.
Snapshot ==
    /\ pc = "waiting" => wanted \cap Condition \subseteq attached
    /\ pc \in Phases /\ timedOut => finite
    /\ pc \in {"guards", "events"} => slots \cap Subscription \subseteq active
    /\ pc = "guards" => slots \cap Guard \subseteq active \cup left
    /\ pc = "events" => slots \cap Condition \subseteq active

\* Every step keeps it: a loop ends when it has visited its whole array.
LEMMA SnapshotKept == IInv /\ Snapshot /\ [Next]_vars => Snapshot'
<1> SUFFICES ASSUME IInv, Snapshot, [Next]_vars PROVE Snapshot'
  OBVIOUS
<1> USE DEF IInv, TypeOK, AttachedIsWanted, Snapshot, Phases, envVars, callVars
<1>1. CASE Others
  BY <1>1 DEF Others, Arrive, TakeLast, Trigger, StatusChanges, TakeEvent
<1>2. ASSUME NEW entities \in SUBSET Entity, NEW isFinite \in BOOLEAN,
             Call(entities, isFinite)
      PROVE  Snapshot'
  BY <1>2 DEF Call
<1>3. CASE AttachFails \/ WaitFails \/ ResetGuardFails \/ CheckEventFails
  BY <1>3 DEF AttachFails, WaitFails, ResetGuardFails, CheckEventFails, Fail
<1>4. ASSUME NEW c \in Condition, Attach(c) PROVE Snapshot'
  BY <1>4 DEF Attach
<1>5. CASE StartWait
  BY <1>5 DEF StartWait, Unattached
<1>6. CASE WaitReturns \/ WaitTimesOut
  BY <1>6 DEF WaitReturns, WaitTimesOut
<1>7. CASE ResetSubscriptions
  BY <1>7 DEF ResetSubscriptions
<1>8. ASSUME NEW g \in Guard, ResetGuard(g) PROVE Snapshot'
  BY <1>8 DEF ResetGuard
<1>9. CASE ResetServices
  BY <1>9 DEF ResetServices
<1>10. ASSUME NEW ev \in Event, CheckEvent(ev) PROVE Snapshot'
  BY <1>10 DEF CheckEvent
<1>11. CASE Return
  BY <1>11 DEF Return
<1>12. CASE UNCHANGED vars
  BY <1>12 DEF vars
<1> QED
  BY <1>1, <1>2, <1>3, <1>4, <1>5, <1>6, <1>7, <1>8, <1>9, <1>10, <1>11, <1>12
     DEF Next, Running

\* Each step of rmw_wait is a step of the atomic call or none: the DDS wait looks, the
\* return hands over, an early return fails, and the loops in between change nothing.
LEMMA StepRefines == IInv /\ Snapshot /\ [Next]_vars => [AtomicWait!Next]_AtomicWait!vars
<1> SUFFICES ASSUME IInv, Snapshot, [Next]_vars PROVE [AtomicWait!Next]_AtomicWait!vars
  OBVIOUS
<1> USE DEF IInv, TypeOK, AttachedIsWanted, ActiveKept, Snapshot, Phases, envVars, callVars,
            AtomicWait!vars, AtomicWait!callVars, AtomicWait!Next
<1>1. ASSUME NEW r \in Reader, Arrive(r) PROVE AtomicWait!Arrive(r)
  BY <1>1 DEF Arrive, AtomicWait!Arrive
<1>2. ASSUME NEW r \in Reader, TakeLast(r) PROVE AtomicWait!TakeLast(r)
  BY <1>2 DEF TakeLast, AtomicWait!TakeLast
<1>3. ASSUME NEW g \in Guard, Trigger(g) PROVE AtomicWait!Trigger(g)
  BY <1>3 DEF Trigger, AtomicWait!Trigger
<1>4. ASSUME NEW ev \in Event, StatusChanges(ev) \/ TakeEvent(ev)
      PROVE  UNCHANGED AtomicWait!vars
  BY <1>4 DEF StatusChanges, TakeEvent
<1>5. ASSUME NEW entities \in SUBSET Entity, NEW isFinite \in BOOLEAN,
             Call(entities, isFinite)
      PROVE  AtomicWait!Call(entities, isFinite)
  BY <1>5 DEF Call, AtomicWait!Call
<1>6. CASE AttachFails \/ WaitFails \/ ResetGuardFails \/ CheckEventFails
  BY <1>6 DEF AttachFails, WaitFails, ResetGuardFails, CheckEventFails, Fail,
              AtomicWait!Fail
<1>7. ASSUME NEW c \in Condition, Attach(c) PROVE UNCHANGED AtomicWait!vars
  BY <1>7 DEF Attach
<1>8. CASE StartWait
  BY <1>8 DEF StartWait
<1>9. CASE WaitReturns \/ WaitTimesOut
  <2>1. Ready = AtomicWait!Ready
    BY <1>9 DEF WaitReturns, WaitTimesOut, Ready, AtomicWait!Ready
  <2>2. /\ pc = "waiting" /\ pc' = "subscriptions"
        /\ UNCHANGED <<data, triggered, wanted, finite, slots, ret>>
        /\ \/ Ready # {} /\ active' = Ready /\ timedOut' = FALSE
           \/ finite /\ active' \in {{}, Ready} /\ timedOut' = TRUE
    BY <1>9 DEF WaitReturns, WaitTimesOut
  <2>3. active' \cap Guard \subseteq triggered
    BY <2>2, DisjointArrays DEF Ready
  <2> QED
    BY <2>1, <2>2, <2>3 DEF AtomicWait!Wake
<1>10. CASE ResetSubscriptions
  BY <1>10 DEF ResetSubscriptions
<1>11. ASSUME NEW g \in Guard, ResetGuard(g) PROVE UNCHANGED AtomicWait!vars
  BY <1>11 DEF ResetGuard
<1>12. CASE ResetServices
  BY <1>12 DEF ResetServices
<1>13. ASSUME NEW ev \in Event, CheckEvent(ev) PROVE UNCHANGED AtomicWait!vars
  BY <1>13 DEF CheckEvent
<1>14. CASE Return
  BY <1>14, DisjointArrays DEF Return, AtomicWait!Return
<1>15. CASE UNCHANGED vars
  BY <1>15 DEF vars
<1> QED
  BY <1>1, <1>2, <1>3, <1>4, <1>5, <1>6, <1>7, <1>8, <1>9, <1>10, <1>11, <1>12, <1>13,
     <1>14, <1>15 DEF Next, Others, Running

\* rmw_wait, step by step and with its conditions changing under it, implements the call
\* that looks once: what it hands back was true together, and failures use up no trigger
\* they did not see.
THEOREM Refinement == Spec => ImplementsAtomicWait
<1>1. Init => Snapshot /\ AtomicWait!Init
  BY DEF Init, Snapshot, Phases, AtomicWait!Init
<1> QED
  BY <1>1, Inductive, SnapshotKept, StepRefines, PTL DEF Spec, ImplementsAtomicWait, AtomicWait!Spec

===============================================================================
