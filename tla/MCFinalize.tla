------------------------------ MODULE MCFinalize ------------------------------
(***************************************************************************)
(* One item and two finalize calls for TLC.                                *)
(***************************************************************************)
EXTENDS Finalize, TLC

CONSTANTS w1, s1, c1, c2, r1, r2, t1, t2, tracker

OneItem == {1}
OnePriority == [i \in OneItem |-> 1]
NoDependency == [i \in OneItem |-> {}]
NoScope == [i \in OneItem |-> {}]
NoCapability == [i \in OneItem |-> {}]
OneAgent == {w1}
OffersNothing == [a \in OneAgent |-> {}]
NoController == {}
NoSession == {}
NoOwners == [a \in OneAgent |-> {Legacy}]
TwoGenerations == {1, 2}
LeaseOfOne == {1}
PlainItems == {"TODO"}

(* Two requests for the item, with evidence of two states of the repository. *)
TwoCalls == {c1, c2}
TwoRequests == {r1, r2}
ForTheItem == [r \in TwoRequests |-> 1]
TwoViews == {t1, t2}
OneByOne == [1 .. 1 -> TwoViews]
OfEitherTree == [r \in TwoRequests |-> IF r = r1 THEN {<<t1>>} ELSE {<<t2>>}]
OnePlan == {tracker}
TheTracker == [r \in TwoRequests |-> tracker]
OneRequest == {r1}
ForThat == [r \in OneRequest |-> 1]
(* Two looks, at the index and at a file: one of them may find a change. *)
OneChange == [1 .. 2 -> TwoViews] \ {<<t2, t2>>}
OfOneTree == [r \in OneRequest |-> {<<t1, t1>>}]
ThatTracker == [r \in OneRequest |-> tracker]
NoRequests == {}
(* The second request can be prepared and never be completed. *)
TheSecond == {r2}
AnyOrder == Permutations(TwoCalls)
=============================================================================
