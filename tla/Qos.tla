----------------------------------- MODULE Qos -----------------------------------
(***************************************************************************)
(* The conversion of QoS profiles between rmw and DDS (qos.hpp).           *)
(*                                                                         *)
(* rmw counts the depth in a size_t and the seconds of a duration in a     *)
(* word of the same size, DDS in a signed Long.  A policy that is an       *)
(* enumeration is one of its values, "default" for SYSTEM_DEFAULT (a depth *)
(* of 0, a duration of 0), or "unknown".  Of a duration only the seconds   *)
(* are modelled.  The deadline and the lifespan of a profile do not reach  *)
(* DDS; reading a profile back reports those of DDS and is left out.       *)
(***************************************************************************)
EXTENDS Integers

CONSTANTS
    ULongs,   \* the number of values of a CORBA::ULong, and of a CORBA::Long
    Sizes     \* the number of values of a size_t

\* A depth of 1 is a Long, and a Long that is not negative is a size_t.
ASSUME Widths == ULongs \in Nat /\ ULongs > 2 /\ Sizes \in Nat /\ Sizes >= ULongs

\* static_cast<CORBA::ULong> of a size_t, assigned to a Long.
ToLong(n) == LET u == n % ULongs IN IF 2 * u >= ULongs THEN u - ULongs ELSE u

\* static_cast<size_t> of a Long.
ToSize(n) == n % Sizes

\* The policies that are enumerations, with the values that both sides know.
Policy == {"history", "reliability", "durability", "liveliness"}
Values(p) ==
    CASE p = "history"     -> {"keep_last", "keep_all"}
      [] p = "reliability" -> {"best_effort", "reliable"}
      [] p = "durability"  -> {"transient_local", "volatile"}
      [] p = "liveliness"  -> {"automatic", "manual_by_topic"}

\* Fault: the depth is taken over whatever its width.
RefusedByPolicyOnly(rmw, dds) == \E p \in Policy : rmw[p] = "unknown"

\* An unknown policy, or a queue whose size exceeds the DDS type; dds is the profile of
\* the entity's factory.  A build with assertions stops at a depth that is negative.
Refused(rmw, dds) ==
    LET depth == IF rmw.depth # 0 THEN ToLong(rmw.depth) ELSE dds.depth
        history == IF rmw.history = "default" THEN dds.history ELSE rmw.history
    IN  \/ \E p \in Policy : rmw[p] = "unknown"
        \/ history = "keep_last" /\ ToSize(depth) < rmw.depth /\ rmw.depth >= ULongs

\* rmw_qos_to_dds_qos, for a profile that is not refused.
ToDds(rmw, dds) ==
    [f \in Policy \cup {"depth", "lease"} |->
        CASE f \in Policy -> IF rmw[f] = "default" THEN dds[f] ELSE rmw[f]
          [] OTHER        -> IF rmw[f] = 0 THEN dds[f] ELSE ToLong(rmw[f])]

\* Fault: the depth is read back of a KEEP_LAST history only.
ToRmwKeptDepth(dds) ==
    [f \in Policy \cup {"depth", "lease"} |->
        CASE f \in Policy -> IF dds[f] \in Values(f) THEN dds[f] ELSE "unknown"
          [] f = "depth"  -> IF dds.history = "keep_last" THEN ToSize(dds.depth) ELSE 0
          [] OTHER        -> ToSize(dds[f])]

\* dds_qos_to_rmw_qos, which reads MANUAL_BY_PARTICIPANT as MANUAL_BY_TOPIC too: a liveliness
\* that ToDds and the defaults of OpenDDS never have.
ToRmw(dds) ==
    [f \in Policy \cup {"depth", "lease"} |->
        CASE f \in Policy -> IF dds[f] \in Values(f) THEN dds[f] ELSE "unknown"
          [] OTHER        -> ToSize(dds[f])]

===============================================================================
