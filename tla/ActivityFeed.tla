---- MODULE ActivityFeed ----
(* The central activity feed: one request walks the days of the window        *)
(* backwards, one query of the byDay index at a time, until its page is full, *)
(* the window's floor is drained or its allowance of queries is spent, and    *)
(* hands back a cursor to go on from. Rows are written meanwhile.             *)
EXTENDS Integers, FiniteSets, FiniteSetsExt

CONSTANTS
    PageLimit,      \* rows a page may hold
    QueryCap,       \* queries one request may make (30 in the code)
    Window,         \* days the operator asked for
    Filters,        \* the row types a walk may ask for, each a set of types
    None

ASSUME FeedAssumption ==
    PageLimit \in Nat \ {0} /\ QueryCap \in Nat \ {0} /\ Window \in Nat \ {0} /\ None \notin Nat

VARIABLES
    rows,           \* PrincipalActivity: [day, sk, type, ...], sk unique and growing
    today,
    feed            \* the walk of one operator through the feed

Closed == [phase |-> "closed"]
FeedInit == feed = Closed

At(bucket, after) == [bucket |-> bucket, after |-> after]

(* First page: from today down to the floor. The cursor carries the floor.    *)
OpensFeed ==
    /\ feed.phase = "closed"
    /\ \E types \in Filters :
         feed' = [ phase |-> "walk", at |-> At(today, None), floor |-> today - (Window - 1),
                   types |-> types, items |-> {}, queries |-> 0, got |-> {}, capped |-> FALSE,
                   due |-> {r \in rows : r.day > today - Window /\ r.type \in types} ]
    /\ UNCHANGED <<rows, today>>

LoadsMore ==
    /\ feed.phase = "paged"
    /\ feed' = [feed EXCEPT !.phase = "walk", !.got = @ \cup feed.items,
                            !.items = {}, !.queries = 0]
    /\ UNCHANGED <<rows, today>>

(* The newest n rows of a set, and where a query that examined them stops: it *)
(* reports a position exactly when it examined as many rows as it was allowed.*)
Newest(S, n) == {r \in S : Cardinality({q \in S : q.sk > r.sk}) < n}
Pending(at) == {r \in rows : r.day = at.bucket /\ (at.after # None => r.sk < at.after)}
Examined(at, n) == Newest(Pending(at), n)
LastEvaluated(examined, n) ==
    IF Cardinality(examined) = n THEN Min({r.sk : r \in examined}) ELSE None

(* Where the walk goes on after a query of a day that is not the last one.    *)
Onward(at, last) == IF last # None THEN At(at.bucket, last) ELSE At(at.bucket - 1, None)

(* A slip: the request gives up at its cap without a cursor.                  *)
GivesUp(full, more, at, floor) == full /\ more
(* After a page that is full with more to come, or at the cap above the floor.*)
HasCursor(full, more, at, floor) == more /\ (full \/ at.bucket # floor)

Queries ==
    /\ feed.phase = "walk"
    /\ LET n == PageLimit - Cardinality(feed.items)
           examined == Examined(feed.at, n)
           last == LastEvaluated(examined, n)
           items == feed.items \cup {r \in examined : r.type \in feed.types}
           full == Cardinality(items) >= PageLimit
           more == last # None \/ feed.at.bucket # feed.floor
           at == IF more THEN Onward(feed.at, last) ELSE feed.at
           spent == feed.queries + 1 >= QueryCap
           stops == ~more \/ full \/ spent
           cursor == HasCursor(full, more, at, feed.floor)
       IN  feed' = [feed EXCEPT
             !.items = items, !.at = at, !.queries = @ + 1,
             !.phase = IF ~stops THEN "walk" ELSE IF cursor THEN "paged" ELSE "done",
             !.capped = stops /\ more /\ ~full /\ at.bucket = feed.floor]
    /\ UNCHANGED <<rows, today>>

Feed == OpensFeed \/ LoadsMore \/ Queries

----------------------------------------------------------------------------

(* A walk shows no row on two pages, although rows are written while it goes *)
(* on and its pages end at any place of a day; and one that ends has shown    *)
(* every row of its window that was there when it began, however many         *)
(* requests it took, midnight included - except when a request spent its last *)
(* query just as it came to the window's floor, and returned no cursor        *)
(* (handleAdminActivity).                                                     *)
WindowServed ==
    /\ feed.phase # "closed" => feed.got \cap feed.items = {}
    /\ feed.phase = "done" /\ ~feed.capped => feed.due \subseteq feed.got \cup feed.items
====
