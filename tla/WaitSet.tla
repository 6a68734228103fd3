-------------------------------- MODULE WaitSet --------------------------------
(***************************************************************************)
(* rmw_wait (wait.hpp, wait.cpp) on one wait set: the caller's arrays are  *)
(* attached to a DDS::WaitSet, the DDS wait returns the conditions that    *)
(* were true, and the slots of the arrays that are not ready are nulled    *)
(* one array after the other while other threads trigger guard conditions  *)
(* and samples keep arriving.  The Cleaner detaches everything at every    *)
(* return.                                                                 *)
(*                                                                         *)
(* A subscription, service or client has a read condition, true while it   *)
(* has samples; a guard condition stays true until it is reset; an event   *)
(* is a communication status that stays changed until it is read.  The     *)
(* services and clients arrays, handled alike and after the guard          *)
(* conditions, are the one set Service.  The DDS wait set itself, and that *)
(* get_conditions and detach_condition succeed in the Cleaner, are taken   *)
(* from OpenDDS.                                                           *)
(***************************************************************************)
EXTENDS Naturals

CONSTANTS Subscription, Guard, Service, Event

Reader == Subscription \cup Service
Condition == Reader \cup Guard
Entity == Condition \cup Event

ASSUME DisjointArrays ==
    /\ Subscription \cap Service = {}
    /\ Guard \cap Reader = {}
    /\ Event \cap Condition = {}

VARIABLES
    data,        \* readers with samples that have not been taken
    triggered,   \* guard conditions whose trigger value is TRUE
    changed,     \* events whose status has changed and has not been read
    pc,          \* where rmw_wait is
    finite,      \* the call has a timeout
    wanted,      \* what the caller passed in
    slots,       \* entries of its arrays that are not null
    attached,    \* conditions attached to the DDS wait set
    active,      \* the conditions the DDS wait returned
    left,        \* guard conditions or events a loop has still to visit
    timedOut,    \* the DDS wait timed out
    ret,         \* the result of the last call
    unreported   \* guard conditions triggered since a call last reported them

vars == <<data, triggered, changed, pc, finite, wanted, slots, attached, active,
          left, timedOut, ret, unreported>>

envVars == <<data, triggered, changed, unreported>>
callVars == <<pc, finite, wanted, slots, attached, active, left, timedOut, ret>>

Init ==
    /\ data = {} /\ triggered = {} /\ changed = {} /\ unreported = {}
    /\ pc = "idle" /\ ret = "none"
    /\ finite = FALSE /\ timedOut = FALSE
    /\ wanted = {} /\ slots = {} /\ attached = {} /\ active = {} /\ left = {}

-------------------------------------------------------------------------------
(* Other threads *)

Arrive(r) ==
    /\ data' = data \cup {r}
    /\ UNCHANGED <<triggered, changed, unreported, callVars>>

\* A take of the last sample; a take of any other changes nothing here.
TakeLast(r) ==
    /\ data' = data \ {r}
    /\ UNCHANGED <<triggered, changed, unreported, callVars>>

\* rmw_trigger_guard_condition
Trigger(g) ==
    /\ triggered' = triggered \cup {g}
    /\ unreported' = unreported \cup {g}
    /\ UNCHANGED <<data, changed, callVars>>

StatusChanges(ev) ==
    /\ changed' = changed \cup {ev}
    /\ UNCHANGED <<data, triggered, unreported, callVars>>

\* rmw_take_event
TakeEvent(ev) ==
    /\ changed' = changed \ {ev}
    /\ UNCHANGED <<data, triggered, unreported, callVars>>

-------------------------------------------------------------------------------
(* The call *)

\* The Cleaner's destructor runs at every return.  A trigger that a failed call has
\* already reset is reported to no one: the ghost lets it go here.
Fail ==
    /\ ret' = "ERROR"
    /\ pc' = "idle"
    /\ attached' = {}
    /\ left' = {}
    /\ unreported' = unreported \cap triggered
    /\ UNCHANGED <<data, triggered, changed, finite, wanted, slots, active, timedOut>>

Call(entities, isFinite) ==
    /\ pc = "idle"
    /\ pc' = "attach"
    /\ wanted' = entities /\ slots' = entities /\ finite' = isFinite
    /\ ret' = "none"
    /\ active' = {}
    /\ UNCHANGED <<envVars, attached, left, timedOut>>

Rank(c) == IF c \in Subscription THEN 1 ELSE IF c \in Guard THEN 2 ELSE 3

\* What the loops over the arrays have still to attach; the events are not attached.
Unattached == (wanted \cap Condition) \ attached

\* attach_condition, array after array.
Attach(c) ==
    /\ pc = "attach"
    /\ c \in Unattached
    /\ \A d \in Unattached : Rank(c) <= Rank(d)
    /\ attached' = attached \cup {c}
    /\ UNCHANGED <<envVars, pc, finite, wanted, slots, active, left, timedOut, ret>>

\* Fault: an early return of the attach loops leaves what is attached so far.
AttachFailsUnclean ==
    /\ pc = "attach" /\ Unattached # {}
    /\ ret' = "ERROR"
    /\ pc' = "idle"
    /\ UNCHANGED <<envVars, finite, wanted, slots, attached, active, left, timedOut>>

\* A null entry, no read condition, or an attach_condition that fails.
AttachFails ==
    /\ pc = "attach" /\ Unattached # {}
    /\ Fail

\* Fault: the last of the arrays is not attached.
StartWaitEarly ==
    /\ pc = "attach" /\ Unattached \subseteq Service
    /\ pc' = "waiting"
    /\ UNCHANGED <<envVars, finite, wanted, slots, attached, active, left, timedOut, ret>>

StartWait ==
    /\ pc = "attach" /\ Unattached = {}
    /\ pc' = "waiting"
    /\ UNCHANGED <<envVars, finite, wanted, slots, attached, active, left, timedOut, ret>>

Ready == attached \cap (data \cup triggered)

\* The DDS wait returns the attached conditions that are true.
WaitReturns ==
    /\ pc = "waiting" /\ Ready # {}
    /\ active' = Ready /\ timedOut' = FALSE
    /\ pc' = "subscriptions"
    /\ UNCHANGED <<envVars, finite, wanted, slots, attached, left, ret>>

\* A timeout may race a condition that becomes true.
WaitTimesOut ==
    /\ pc = "waiting" /\ finite
    /\ active' \in {{}, Ready} /\ timedOut' = TRUE
    /\ pc' = "subscriptions"
    /\ UNCHANGED <<envVars, finite, wanted, slots, attached, left, ret>>

WaitFails ==
    /\ pc = "waiting"
    /\ Fail

ResetSubscriptions ==
    /\ pc = "subscriptions"
    /\ slots' = slots \ (Subscription \ active)
    /\ left' = wanted \cap Guard
    /\ pc' = "guards"
    /\ UNCHANGED <<envVars, finite, wanted, attached, active, timedOut, ret>>

\* Fault: every guard condition is reset, whether the DDS wait returned it or not.
ResetAnyGuard(g) ==
    /\ pc = "guards" /\ g \in left
    /\ triggered' = triggered \ {g}
    /\ slots' = IF g \in active THEN slots ELSE slots \ {g}
    /\ left' = left \ {g}
    /\ UNCHANGED <<data, changed, unreported, pc, finite, wanted, attached, active, timedOut, ret>>

\* set(false) for a guard condition among the active ones, its slot nulled otherwise.
ResetGuard(g) ==
    /\ pc = "guards" /\ g \in left
    /\ triggered' = triggered \ (active \cap {g})
    /\ slots' = slots \ ({g} \ active)
    /\ left' = left \ {g}
    /\ UNCHANGED <<data, changed, unreported, pc, finite, wanted, attached, active, timedOut, ret>>

\* DDSGuardCondition::set fails.
ResetGuardFails ==
    /\ pc = "guards" /\ left \cap active # {}
    /\ Fail

\* Fault: the read conditions are looked at as they are now.
ResetServicesByData ==
    /\ pc = "guards" /\ left = {}
    /\ slots' = slots \ (Service \ data)
    /\ left' = wanted \cap Event
    /\ pc' = "events"
    /\ UNCHANGED <<envVars, finite, wanted, attached, active, timedOut, ret>>

\* Services and clients.
ResetServices ==
    /\ pc = "guards" /\ left = {}
    /\ slots' = slots \ (Service \ active)
    /\ left' = wanted \cap Event
    /\ pc' = "events"
    /\ UNCHANGED <<envVars, finite, wanted, attached, active, timedOut, ret>>

\* __handle_active_event_conditions looks at the status as it is now.
CheckEvent(ev) ==
    /\ pc = "events" /\ ev \in left
    /\ slots' = slots \ ({ev} \ changed)
    /\ left' = left \ {ev}
    /\ UNCHANGED <<envVars, pc, finite, wanted, attached, active, timedOut, ret>>

\* The event has no data or no entity.
CheckEventFails ==
    /\ pc = "events" /\ left # {}
    /\ Fail

Return ==
    /\ pc = "events" /\ left = {}
    /\ ret' = IF timedOut THEN "TIMEOUT" ELSE "OK"
    /\ pc' = "idle"
    /\ attached' = {}
    /\ unreported' = unreported \ slots
    /\ UNCHANGED <<data, triggered, changed, finite, wanted, slots, active, left, timedOut>>

-------------------------------------------------------------------------------
Others ==
    \/ \E r \in Reader : Arrive(r) \/ TakeLast(r)
    \/ \E g \in Guard : Trigger(g)
    \/ \E ev \in Event : StatusChanges(ev) \/ TakeEvent(ev)

Running ==
    \/ \E c \in Condition : Attach(c)
    \/ AttachFails \/ StartWait
    \/ WaitReturns \/ WaitTimesOut \/ WaitFails
    \/ ResetSubscriptions
    \/ \E g \in Guard : ResetGuard(g)
    \/ ResetGuardFails \/ ResetServices
    \/ \E ev \in Event : CheckEvent(ev)
    \/ CheckEventFails \/ Return

Next ==
    \/ Others
    \/ \E entities \in SUBSET Entity, isFinite \in BOOLEAN : Call(entities, isFinite)
    \/ Running

Spec == Init /\ [][Next]_vars

\* The calling thread runs on once inside rmw_wait, and the DDS wait returns when a
\* condition is and stays true.  Nothing is assumed of the other threads, of timeouts
\* or of failures.
Progress ==
    \/ \E c \in Condition : Attach(c)
    \/ StartWait
    \/ WaitReturns
    \/ ResetSubscriptions
    \/ \E g \in Guard : ResetGuard(g)
    \/ ResetServices
    \/ \E ev \in Event : CheckEvent(ev)
    \/ Return

FairSpec == Spec /\ WF_vars(Progress)

-------------------------------------------------------------------------------
(* Properties *)

\* Every variable keeps its type; only conditions of the caller's arrays are attached.
TypeOK ==
    /\ data \subseteq Reader /\ triggered \subseteq Guard /\ changed \subseteq Event
    /\ pc \in {"idle", "attach", "waiting", "subscriptions", "guards", "events"}
    /\ finite \in BOOLEAN /\ timedOut \in BOOLEAN
    /\ wanted \subseteq Entity /\ slots \subseteq wanted
    /\ attached \subseteq wanted \cap Condition
    /\ active \subseteq Condition
    /\ left \subseteq wanted
    /\ ret \in {"none", "OK", "TIMEOUT", "ERROR"}
    /\ unreported \subseteq Guard

\* The conditions the present call took from the DDS wait and will still report.
InFlight == IF pc \in {"subscriptions", "guards", "events"} THEN active \cap slots ELSE {}

\* No trigger of a guard condition is lost: one that came before, during or after the DDS
\* wait, even between its return and the reset, is still set or is about to be
\* reported, unless the call that reset it fails.
NoTriggerLost == unreported \subseteq triggered \cup InFlight

\* A call that returns OK reports something that made the DDS wait return: it never comes
\* back with every array nulled, whatever earlier calls left behind.
OkReportsReady == pc = "idle" /\ ret = "OK" => slots \cap active # {}

\* A call that has been given a condition that is true comes back, with or without a
\* timeout, unless the condition is undone: no array is left out of the wait set.
ReadyWakes ==
    \A c \in Condition :
        (pc # "idle" /\ c \in wanted \cap (data \cup triggered))
            ~> (pc = "idle" \/ c \notin data \cup triggered)

\* rmw_wait, which looks at its conditions one after the other while they change, hands
\* back what one look at all of them would have: the entries that are not null are the
\* conditions true when the DDS wait returned, neither more nor fewer, whatever comes and
\* goes during the loops; and a call that fails uses up no trigger before it has looked,
\* afterwards none but those it was about to report.
AtomicWait == INSTANCE AtomicWait WITH
    pending <- triggered \cup IF pc \in {"subscriptions", "guards", "events"}
                              THEN active \cap Guard ELSE {},
    phase <- CASE pc = "idle" -> "idle"
               [] pc \in {"attach", "waiting"} -> "asleep"
               [] OTHER -> "awake",
    late <- timedOut,
    report <- active,
    slots <- IF pc = "idle" THEN slots ELSE wanted

ImplementsAtomicWait == AtomicWait!Spec

\* What the comments at wait.hpp:153 and wait.cpp:27 say: an event is one of the
\* conditions the wait waits for, so a changed status ends a wait for its event.
EventWakes ==
    \A ev \in Event :
        (pc = "waiting" /\ ev \in wanted \cap changed) ~> (pc = "idle" \/ ev \notin changed)

===============================================================================
