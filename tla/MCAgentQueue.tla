----------------------------- MODULE MCAgentQueue -----------------------------
(***************************************************************************)
(* Small queues for TLC.                                                   *)
(***************************************************************************)
EXTENDS AgentQueue

CONSTANTS w1, w2, s1, api, db, python

(* Item 2 depends on item 1; items 1 and 3 share a scope and 3 has one more; *)
(* item 1 needs a capability that only w2 offers; item 3 is picked first.    *)
ThreeItems == {1, 2, 3}
ThreePriorities == [i \in ThreeItems |-> IF i = 3 THEN 1 ELSE 2]
TwoNeedsOne == [i \in ThreeItems |-> IF i = 2 THEN {1} ELSE {}]
OneAndThreeShare ==
    [i \in ThreeItems |-> CASE i = 1 -> {api} [] i = 2 -> {} [] i = 3 -> {api, db}]
OneNeedsPython == [i \in ThreeItems |-> IF i = 1 THEN {python} ELSE {}]

TwoAgents == {w1, w2}
TwoKnowsPython == [a \in TwoAgents |-> IF a = w2 THEN {python} ELSE {}]
OneController == {w2}

NoSession == {}
OneSession == {s1}
TwoGenerations == {1, 2}

(* All claims without owner metadata; or w2's with, of generation 1. *)
NoOwners == [a \in TwoAgents |-> {Legacy}]
OwnersEach ==
    [a \in TwoAgents |-> IF a = w1 THEN {Legacy} ELSE {[session |-> s1, generation |-> 1]}]

LeaseOfTwo == {2}
LeaseOfOne == {1}
PlainItems == {"TODO"}
=============================================================================
