------------------------------- MODULE AtomicWait -------------------------------
(***************************************************************************)
(* What rmw_wait promises to its caller, as if it looked at everything at  *)
(* once: the conditions it hands back are those that were true at one      *)
(* moment of the call; a trigger of a guard condition is used up by the    *)
(* call that reports it and by no other, and a call that fails uses up at  *)
(* most those it was about to report.  Events are handed back or not.      *)
(***************************************************************************)
CONSTANTS Reader, Guard, Event

VARIABLES
    data,      \* readers with samples
    pending,   \* guard conditions triggered and not reported since
    phase,     \* no call, a call that sleeps, a call that has looked
    wanted,    \* what the call was given
    finite,    \* it has a timeout
    late,      \* its timeout has passed
    report,    \* the conditions that were true when it looked
    slots,     \* what the caller has in its hands
    ret

vars == <<data, pending, phase, wanted, finite, late, report, slots, ret>>

callVars == <<phase, wanted, finite, late, report, slots, ret>>

Init ==
    /\ data = {} /\ pending = {}
    /\ phase = "idle" /\ ret = "none"
    /\ wanted = {} /\ report = {} /\ slots = {}
    /\ finite = FALSE /\ late = FALSE

Arrive(r) ==
    /\ data' = data \cup {r}
    /\ UNCHANGED <<pending, callVars>>

TakeLast(r) ==
    /\ data' = data \ {r}
    /\ UNCHANGED <<pending, callVars>>

Trigger(g) ==
    /\ pending' = pending \cup {g}
    /\ UNCHANGED <<data, callVars>>

Call(entities, isFinite) ==
    /\ phase = "idle"
    /\ phase' = "asleep"
    /\ wanted' = entities /\ slots' = entities /\ finite' = isFinite
    /\ ret' = "none" /\ report' = {}
    /\ UNCHANGED <<data, pending, late>>

Ready == wanted \cap (data \cup pending)

Wake ==
    /\ phase = "asleep"
    /\ \/ Ready # {} /\ report' = Ready /\ late' = FALSE
       \/ finite /\ report' \in {{}, Ready} /\ late' = TRUE
    /\ phase' = "awake"
    /\ UNCHANGED <<data, pending, wanted, finite, slots, ret>>

\* A guard condition triggered again since the call looked may stay so, or be covered by
\* the report.
Return ==
    /\ phase = "awake"
    /\ phase' = "idle"
    /\ ret' = IF late THEN "TIMEOUT" ELSE "OK"
    /\ slots' \ Event = report /\ slots' \subseteq wanted
    /\ pending \ report \subseteq pending' /\ pending' \subseteq pending
    /\ UNCHANGED <<data, wanted, finite, late, report>>

Fail ==
    /\ phase # "idle"
    /\ phase' = "idle"
    /\ ret' = "ERROR"
    /\ slots' \subseteq wanted
    /\ pending' \subseteq pending
    /\ pending \ pending' \subseteq IF phase = "awake" THEN report ELSE {}
    /\ UNCHANGED <<data, wanted, finite, late, report>>

Next ==
    \/ \E r \in Reader : Arrive(r) \/ TakeLast(r)
    \/ \E g \in Guard : Trigger(g)
    \/ \E entities \in SUBSET (Reader \cup Guard \cup Event), isFinite \in BOOLEAN :
            Call(entities, isFinite)
    \/ Wake \/ Return \/ Fail

Spec == Init /\ [][Next]_vars

===============================================================================
