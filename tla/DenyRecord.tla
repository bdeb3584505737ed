------------------------------- MODULE DenyRecord -------------------------------
(***************************************************************************)
(* What the deny life cycle promises, whatever its steps: a deny is put on *)
(* record before it is imposed and stays on record until it is lifted, so  *)
(* whoever reads the record can always find and lift what is imposed.      *)
(***************************************************************************)
CONSTANT Denies
VARIABLES denied, recorded

Init == denied = {} /\ recorded = {}

Record(d) == recorded' = recorded \union {d} /\ UNCHANGED denied
Impose(d) == d \in recorded /\ denied' = denied \union {d} /\ UNCHANGED recorded
Lift(d)   == denied' = denied \ {d} /\ UNCHANGED recorded
Forget(d) == d \notin denied /\ recorded' = recorded \ {d} /\ UNCHANGED denied

Next == \E d \in Denies : Record(d) \/ Impose(d) \/ Lift(d) \/ Forget(d)

Spec == Init /\ [][Next]_<<denied, recorded>>
================================================================================
