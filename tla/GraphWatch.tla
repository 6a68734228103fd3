------------------------------- MODULE GraphWatch -------------------------------
(***************************************************************************)
(* What a node promises to whoever waits on its graph guard condition:     *)
(* the graph may change at any time, but once a part of it has changed     *)
(* some waiter owes a look at it, and the debt is paid by looking.  It may *)
(* go without a look only when that part is noted as missed, which a look  *)
(* at it makes up for, and so does a debt on all parts.                    *)
(* NodeGraph implements it.                                                *)
(***************************************************************************)

CONSTANTS
    Kind,      \* the two halves of the graph: writers and readers
    Endpoint,
    Waiter

VARIABLES
    graph,  \* the endpoints the node knows, by kind
    view,   \* what each waiter has last seen of them
    owed,   \* whether a look at that half of the graph is still to come
    missed  \* the halves of which a look was missed

watchVars == <<graph, view, owed, missed>>

WatchInit ==
    /\ graph = [k \in Kind |-> {}]
    /\ view = [w \in Waiter |-> [k \in Kind |-> {}]]
    /\ owed = [k \in Kind |-> FALSE]
    /\ missed = {}

\* Changing a half of the graph makes a look at it due; no due look is forgotten.
Change ==
    /\ graph' \in [Kind -> SUBSET Endpoint]
    /\ owed' \in [Kind -> BOOLEAN]
    /\ \A k \in Kind : owed[k] \/ graph'[k] # graph[k] => owed'[k]
    /\ missed' = missed \/ (missed' = {} /\ \A k \in Kind : owed'[k])
    /\ UNCHANGED view

\* A look at one half that was due is missed; a look at it may still be due for another
\* reason.
Miss(k) ==
    /\ owed[k]
    /\ missed' = missed \cup {k}
    /\ \E due \in BOOLEAN : owed' = [owed EXCEPT ![k] = due]
    /\ UNCHANGED <<graph, view>>

\* Looking at one half of the graph may settle that half only.
Look(w, k) ==
    /\ owed[k]
    /\ view' = [view EXCEPT ![w][k] = graph[k]]
    /\ missed' = missed \ {k}
    /\ \E due \in BOOLEAN : owed' = [owed EXCEPT ![k] = due]
    /\ UNCHANGED graph

WatchNext ==
    \/ Change
    \/ \E k \in Kind : Miss(k) \/ \E w \in Waiter : Look(w, k)

WatchSpec == WatchInit /\ [][WatchNext]_watchVars

===============================================================================
