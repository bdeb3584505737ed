------------------------------- MODULE MCNotices --------------------------------
(* Instances of Notices for TLC. *)
EXTENDS Notices

CONSTANTS p1, s1, m1, g1, q1, ann, boss, desk

Request(p, s, d) == [p |-> p, model |-> m1, profile |-> Nil, lens |-> s, region |-> g1,
                      day |-> 1, usd |-> d]
Monthly(k) == "monthly"

(* p1 is the role of boss and, through the lens s1, of ann; half of its    *)
(* budget was spent before there was one, and q1 brings it to exactly 80 %.*)
NoticeReq == q1 :> Request(p1, s1, 3)
NoticeOld == <<p1, m1, <<"monthly", 1>>>> :> [NoRow EXCEPT !.spend = 5]
Limit(n) == [limit |-> n, warns |-> {50, 80}, enabled |-> TRUE]
NoticeBudget == <<p1, m1>> :> Limit(10) @@ <<s1, m1>> :> Limit(5)
User(p, l, admin, off, prefs) ==
  [arn |-> p, lens |-> l, verified |-> TRUE, admin |-> admin, off |-> off, prefs |-> prefs]
NoticePool == ann :> User(Nil, s1, FALSE, {50}, <<>>)
              @@ boss :> User(p1, Nil, TRUE, {}, "watch" :> TRUE)
NoticeRoles == ann :> {p1} @@ boss :> {Nil}
================================================================================
