----------------------------- MODULE MCControlPlane -----------------------------
(* Instances of ControlPlane for TLC. *)
EXTENDS ControlPlane

CONSTANTS p1, p2, t1, acct, tag, root, local

MCKeys      == {<<p1, t1>>, <<p1, Wild>>, <<p2, t1>>}
MCAccountOf == [p \in Principals |-> IF p = p1 THEN acct ELSE NoAccount]
MCScopeOf   == [a \in Admins |-> IF a = local THEN {acct} ELSE {acct, NoAccount}]

Rated     == [limit |-> 1, rpm |-> 1, cond |-> tag]
AlertOnly == [limit |-> 2, action |-> "alert"]
ClearRate == [rpm |-> Null]
MCBodies  == {Rated, AlertOnly, ClearRate}
MCEdits   == {[limit |-> 2], [unlimited |-> TRUE, th |-> "warn", rpm |-> Null]}

Row(k, m) == [j \in {k} |-> Entry(m)]
Narrow == [budgets |-> Row(<<p1, t1>>, [limit |-> 1, rpm |-> 1]),
           delete |-> {<<p1, Wild>>}, defaults |-> [limit |-> 2]]
Two    == [budgets |-> Row(<<p1, t1>>, [limit |-> 2, th |-> "block"])
                         @@ Row(<<p1, Wild>>, [unlimited |-> TRUE]),
           delete |-> {}, defaults |-> NoRow]
MCManifests     == {Narrow, Two}
MCDefaultBodies == {[enabled |-> TRUE, limit |-> 1], [rpm |-> Null]}
MCStartBudgets  == {[k \in Keys |-> IF k = <<p1, t1>>
                                     THEN [enabled |-> FALSE] @@ PostRow(Rated)
                                     ELSE NoRow]}
MCStartDefaults == {[enabled |-> TRUE, limit |-> 1, rpm |-> 1]}
================================================================================
