----------------------------- MODULE MCSpendStream ------------------------------
(* Instances of SpendStream for TLC. *)
EXTENDS SpendStream

CONSTANTS r1, p1, p2, s1, m1, m2, old1, f1, q1, q2, q3, c1, c2, home, west, acct, named, unknown, anywhere

Request(p, m, f, s, g, d) ==
  [p |-> p, model |-> m, profile |-> f, lens |-> s, region |-> g, day |-> d, usd |-> 1]
Monthly(k) == "monthly"
Account(p) == IF p = p1 THEN acct ELSE unknown
Name(p) == IF p = p1 THEN p1 ELSE named
Payer(q) == acct

(* q1 came through a profile, q2, not priced, by an identity lens; q3, not *)
(* priced either and of a caller without an ARN, sits on the row of a      *)
(* legacy target.                                                          *)
LedgerReq == q1 :> Request(p1, m1, f1, Nil, home, 1) @@ q2 :> Request(p1, m1, Nil, s1, west, 1)
               @@ q3 :> Request(p2, m2, Nil, Nil, home, 1)
LedgerOld == <<p2, old1, <<"monthly", 1>>>> :>
               [NoRow EXCEPT !.reqs = {q3}, !.unpriced = 1, !.last = 1]
LedgerPlan == << [id |-> c1, req |-> q2, known |-> TRUE, source |-> Nil],
                 [id |-> c2, req |-> q3, known |-> FALSE,
                  source |-> <<p2, old1, <<"monthly", 1>>>>] >>

(* The ledger writer is behind by no more than this many records.          *)
MaxLag == 4
Lagging == Len(stream) <= MaxLag

ASSUME InstanceComparable == Comparable /\ LensesMetered
================================================================================
