------------------------------- MODULE MCMeterJoin -------------------------------
(* Instances of MeterJoin for TLC. *)
EXTENDS MeterJoin, TLC

CONSTANTS p1, u1, s1, r1, r2, v1, v2, w1, w2, x1

All(v) == [r \in Requests |-> v]

(* Who is behind a request: one role; in the log nobody, or for r2 alone   *)
(* the same role.                                                          *)
OneRole   == All(p1)
R2Named   == [r \in Requests |-> IF r = r2 THEN p1 ELSE NoOwner]
(* r1 carries an SSO user and a source identity, others carry neither.     *)
R1Lenses == [l \in LensLines |-> [r \in Requests |->
               IF r # r1 THEN NoOwner ELSE IF l = "sso" THEN u1 ELSE s1]]
NoLenses == [l \in LensLines |-> All(NoOwner)]
(* The request made first has the smaller time.                            *)
Times == [r \in Requests |-> IF r = r1 THEN 1 ELSE 2]

(* Which targets of p1 are rate-limited.                                   *)
Unrated    == [k \in Keys |-> [window |-> DefaultWindow, rated |-> FALSE]]
ModelRated == [k \in Keys |-> [Unrated[k] EXCEPT !.rated = k = <<p1, "model">>]]

(* Invocations of the meter are interchangeable.                           *)
MeterSymmetry == Permutations(Meters)

Uses(a, f, c, d, e) ==
  [admin |-> a, faults |-> f, crashes |-> c, dups |-> d, expiries |-> e]
Deaths == Uses(0, 0, 1, 1, 0)
Rough  == Uses(1, 1, 1, 1, 1)
================================================================================
