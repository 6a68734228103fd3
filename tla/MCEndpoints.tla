------------------------------ MODULE MCEndpoints ------------------------------
(***************************************************************************)
(* Two entities: names, types and kinds of every sort with a plain         *)
(* profile, and profiles of every sort with a plain name.                  *)
(***************************************************************************)
EXTENDS Endpoints

CONSTANTS Other

Plain == [history |-> "keep_last", reliability |-> "default", durability |-> "volatile",
          liveliness |-> "default", depth |-> 1, lease |-> 0]

Type(directory, name) == [package |-> "pkg", directory |-> directory, name |-> name]

Asked(kinds, names, types, raws, profiles) ==
    [kind : kinds, node : {Self, Other}, name : names, type : types, raw : raws,
     profile : profiles]

Topics ==
    LET types == {Type("::msg", <<"T">>), Type("::action", <<"T">>)}
    IN  Asked({"publisher", "subscription"}, {<<"/", "x">>, <<"/", "x", "Request">>}, types,
              {FALSE}, {Plain})
        \cup
        Asked({"publisher", "subscription"},
              {<<"x">>, <<"rt", "/", "x">>, <<"rq", "/", "x", "Request">>},
              {Type("::msg", <<"T">>)}, {TRUE}, {Plain})

Services ==
    Asked({"client", "server"},
          {<<"/", "x">>, <<"/", "Request", "x">>, <<"/", "Reply", "x">>},
          {Type("::srv", <<"T">>)}, {FALSE}, {Plain})
    \cup
    Asked({"client", "server"}, {<<"/", "x">>},
          {Type("::srv", <<"Sample_", "T">>), Type("::action", <<"T">>)}, {FALSE}, {Plain})
    \cup
    Asked({"client", "server"}, {<<"/", "x">>}, {Type("::srv", <<"T">>)}, {TRUE}, {Plain})

\* The depths around the limits of a Long and of its unsigned type.
Depths == {0, 1, ULongs \div 2 - 1, ULongs \div 2, ULongs - 1, ULongs, ULongs + 1,
           ULongs + ULongs \div 2}

Histories == Values("history") \cup {"default", "unknown"}

Profiles ==
    {[Plain EXCEPT !.history = h, !.depth = d] : h \in Histories, d \in Depths}
    \cup UNION {{[Plain EXCEPT ![p] = v] : v \in Values(p) \cup {"default", "unknown"}} :
                    p \in Policy}
    \cup {[Plain EXCEPT !.lease = s] : s \in {1, ULongs \div 2, ULongs}}

WithProfiles ==
    Asked({"publisher", "subscription"}, {<<"/", "x">>}, {Type("::msg", <<"T">>)}, {FALSE},
          Profiles)

MCWord == RosPrefixes \cup Markers \cup {"x", "pkg", "T", "::action"}

MCRequest == Topics \cup Services \cup WithProfiles

\* A profile of its own is given to one entity at a time.
MCInit ==
    /\ Init
    /\ \E plain \in Entity : \A e \in Entity : e = plain \/ made[e].profile = Plain

MCSpec == MCInit /\ [][Next]_vars

===============================================================================
