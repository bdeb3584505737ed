---- MODULE AccountsProofs ----
(* Proofs about Accounts and its feed, for every value of their constants.    *)
EXTENDS Accounts, FiniteSetTheorems, WellFoundedInduction, TLAPS

(******************************************************************************)
(* Induction over naturals and over finite sets, stated with a set of the     *)
(* cases instead of a predicate.                                              *)
(******************************************************************************)
(* A set of naturals that has 0 and the successor of each of its elements  *)
(* has them all.                                                           *)
LEMMA NatSetInduction ==
  ASSUME NEW T \in SUBSET Nat, 0 \in T, \A n \in T : n + 1 \in T
  PROVE  T = Nat
<1>. DEFINE R == OpToRel(<, Nat)
<1>1. SUFFICES ASSUME Nat \ T # {} PROVE FALSE
  OBVIOUS
<1>2. IsWellFoundedOn(R, Nat)
  BY NatLessThanWellFounded
<1>3. PICK x \in Nat \ T : \A y \in Nat \ T : ~ (<<y, x>> \in R)
  <2>. HIDE DEF R
  <2>1. Nat \ T \subseteq Nat
    OBVIOUS
  <2>. QED BY <1>1, <1>2, <2>1, WFMin
<1>4. \A y \in Nat \ T : ~ (y < x)
  BY <1>3 DEF OpToRel
<1>5. x \in Nat /\ x # 0
  BY <1>3
<1>6. x - 1 \in Nat /\ x - 1 < x /\ (x - 1) + 1 = x
  BY <1>5
<1>7. x - 1 \in T
  BY <1>4, <1>6
<1>8. x \in T
  BY <1>6, <1>7
<1>. QED BY <1>3, <1>8

(* A set of subsets of a finite set that has a subset whenever it has all  *)
(* that are one element smaller has them all.                              *)
LEMMA SubsetInduction ==
  ASSUME NEW S, IsFiniteSet(S), NEW F \in SUBSET SUBSET S,
         \A T \in SUBSET S : (\A x \in T : T \ {x} \in F) => T \in F
  PROVE  F = SUBSET S
<1>. DEFINE N == {n \in Nat : \A T \in SUBSET S : Cardinality(T) = n => T \in F}
<1>1. \A T \in SUBSET S : IsFiniteSet(T) /\ Cardinality(T) \in Nat
  BY FS_Subset, FS_CardinalityType
<1>2. 0 \in N
  BY <1>1, FS_EmptySet
<1>3. ASSUME NEW n \in N PROVE n + 1 \in N
  <2>1. SUFFICES ASSUME NEW T \in SUBSET S, Cardinality(T) = n + 1 PROVE T \in F
    OBVIOUS
  <2>2. ASSUME NEW x \in T PROVE Cardinality(T \ {x}) = n
    <3>1. Cardinality(T \ {x}) = Cardinality(T) - 1
      BY <1>1, FS_RemoveElement
    <3>2. n \in Nat
      OBVIOUS
    <3>. QED BY <2>1, <3>1, <3>2
  <2>. QED BY <2>1, <2>2
<1>4. N = Nat
  <2>. HIDE DEF N
  <2>1. N \in SUBSET Nat
    BY DEF N
  <2>. QED BY <1>2, <1>3, <2>1, NatSetInduction
<1>. QED BY <1>1, <1>4

(******************************************************************************)
(* What one query of the feed examines.                                       *)
(******************************************************************************)
Ordered(S) == \A r, q \in S : r.sk \in Nat /\ (r.sk = q.sk => r = q)
Above(S, r) == {q \in S : q.sk > r.sk}

(* Of some rows one is the oldest.                                            *)
LEMMA OldestRow ==
  ASSUME NEW T, Ordered(T), T # {}
  PROVE  \E x \in T : \A y \in T : x.sk <= y.sk
<1>. DEFINE R == OpToRel(<, Nat)
            K == {x.sk : x \in T}
<1>1. IsWellFoundedOn(R, Nat)
  BY NatLessThanWellFounded
<1>2. K \subseteq Nat /\ K # {}
  BY DEF Ordered
<1>3. PICK k \in K : \A y \in K : ~ (<<y, k>> \in R)
  <2>. HIDE DEF R, K
  <2>. QED BY <1>1, <1>2, WFMin
<1>4. \A y \in K : ~ (y < k)
  BY <1>2, <1>3 DEF OpToRel
<1>5. \A y \in K : k <= y
  <2>. HIDE DEF K
  <2>1. k \in Nat /\ \A y \in K : y \in Nat
    BY <1>2
  <2>. QED BY <1>4, <2>1
<1>6. PICK x \in T : k = x.sk
  BY <1>3
<1>. QED BY <1>5, <1>6

(* No more rows than it may be are all of them examined.                      *)
LEMMA AllNewest ==
  ASSUME NEW T, IsFiniteSet(T), Ordered(T), NEW n \in Nat, Cardinality(T) <= n
  PROVE  Newest(T, n) = T
<1>1. ASSUME NEW r \in T
      PROVE  Cardinality(Above(T, r)) < n
  <2>1. Above(T, r) \subseteq T \ {r}
    BY DEF Above, Ordered
  <2>2. IsFiniteSet(T \ {r}) /\ Cardinality(T \ {r}) = Cardinality(T) - 1
    BY FS_RemoveElement
  <2>3. IsFiniteSet(Above(T, r)) /\ Cardinality(Above(T, r)) <= Cardinality(T \ {r})
    BY <2>1, <2>2, FS_Subset
  <2>4. Cardinality(T) \in Nat /\ Cardinality(Above(T, r)) \in Nat
    BY <2>3, FS_CardinalityType
  <2>. QED BY <2>2, <2>3, <2>4
<1>. QED BY <1>1 DEF Newest, Above

(* Of more, as many as may be.                                                *)
LEMMA NewestCount ==
  ASSUME NEW S, IsFiniteSet(S), Ordered(S), NEW n \in Nat
  PROVE  Newest(S, n) = S \/ Cardinality(Newest(S, n)) = n
<1>. DEFINE F == {T \in SUBSET S : Cardinality(T) >= n => Cardinality(Newest(T, n)) = n}
<1>1. \A T \in SUBSET S : IsFiniteSet(T) /\ Cardinality(T) \in Nat /\ Ordered(T)
  BY FS_Subset, FS_CardinalityType DEF Ordered
<1>2. ASSUME NEW T \in SUBSET S, \A x \in T : T \ {x} \in F, Cardinality(T) >= n
      PROVE  Cardinality(Newest(T, n)) = n
  <2>0. IsFiniteSet(T) /\ Cardinality(T) \in Nat /\ Ordered(T)
    BY <1>1
  <2>1. CASE Cardinality(T) = n
    BY <2>0, <2>1, AllNewest
  <2>2. CASE Cardinality(T) # n
    <3>1. T # {}
      BY <1>2, <2>0, <2>2, FS_EmptySet
    <3>2. PICK x \in T : \A y \in T : x.sk <= y.sk
      BY <2>0, <3>1, OldestRow
    <3>. DEFINE U == T \ {x}
    <3>3. IsFiniteSet(U) /\ Cardinality(U) = Cardinality(T) - 1
      BY <2>0, FS_RemoveElement
    <3>4. Cardinality(U) >= n
      BY <1>2, <2>0, <2>2, <3>3
    <3>5. Cardinality(Newest(U, n)) = n
      BY <1>2, <3>4
    <3>6. Above(T, x) = U
      BY <2>0, <3>2 DEF Above, Ordered
    <3>7. \A r \in U : Above(T, r) = Above(U, r)
      BY <2>0, <3>2 DEF Above, Ordered
    <3>8. ~ (Cardinality(Above(T, x)) < n)
      <4>1. Cardinality(U) \in Nat
        BY <3>3, FS_CardinalityType
      <4>. QED BY <3>4, <3>6, <4>1
    <3>9. Newest(T, n) = {r \in T : Cardinality(Above(T, r)) < n}
          /\ Newest(U, n) = {r \in U : Cardinality(Above(U, r)) < n}
      BY DEF Newest, Above
    <3>10. Newest(T, n) = Newest(U, n)
      <4>. HIDE DEF U
      <4>1. \A r \in T : r = x \/ r \in U
        BY DEF U
      <4>2. \A r \in U : r \in T
        BY DEF U
      <4>. QED BY <3>7, <3>8, <3>9, <4>1, <4>2
    <3>. QED BY <3>5, <3>10
  <2>. QED BY <2>1, <2>2
<1>3. F \in SUBSET SUBSET S
  OBVIOUS
<1>4. \A T \in SUBSET S : (\A x \in T : T \ {x} \in F) => T \in F
  BY <1>2
<1>. HIDE DEF F
<1>5. F = SUBSET S
  BY <1>3, <1>4, SubsetInduction
<1>6. Cardinality(S) >= n => Cardinality(Newest(S, n)) = n
  BY <1>5 DEF F
<1>7. Cardinality(S) \in Nat
  BY FS_CardinalityType
<1>8. Cardinality(S) <= n => Newest(S, n) = S
  BY AllNewest
<1>. QED BY <1>6, <1>7, <1>8

(* What is left is older than what was examined.                              *)
LEMMA RestIsOlder ==
  ASSUME NEW S, IsFiniteSet(S), Ordered(S), NEW n \in Nat,
         NEW r \in S, r \notin Newest(S, n), NEW q \in Newest(S, n)
  PROVE  r.sk < q.sk
<1>1. q \in S /\ Cardinality(Above(S, q)) < n /\ ~ (Cardinality(Above(S, r)) < n)
  BY DEF Newest, Above
<1>2. SUFFICES ASSUME q.sk <= r.sk PROVE FALSE
  BY <1>1 DEF Ordered
<1>3. Above(S, r) \subseteq Above(S, q) /\ Above(S, q) \subseteq S
  BY <1>1, <1>2 DEF Above, Ordered
<1>4. IsFiniteSet(Above(S, q))
  BY <1>3, FS_Subset
<1>5. IsFiniteSet(Above(S, r)) /\ Cardinality(Above(S, r)) <= Cardinality(Above(S, q))
  BY <1>3, <1>4, FS_Subset
<1>6. Cardinality(Above(S, r)) \in Nat /\ Cardinality(Above(S, q)) \in Nat
  BY <1>4, <1>5, FS_CardinalityType
<1>. QED BY <1>1, <1>5, <1>6

(******************************************************************************)
(* The walk of the feed. Whatever it has not shown yet lies ahead of where it *)
(* stands, and whatever it has shown lies behind.                             *)
(******************************************************************************)
RowsOK ==
    /\ IsFiniteSet(rows) /\ today \in Int
    /\ \A r \in rows :
        /\ r.day \in Int /\ r.day <= today /\ r.sk \in 1..Cardinality(rows)
        /\ \A q \in rows : q.sk = r.sk => q = r

Position == [bucket : Int, after : Nat \cup {None}]
Walk ==
    [ phase : {"walk", "paged", "done"}, at : Position, floor : Int, types : Filters,
      items : SUBSET rows, queries : Int, got : SUBSET rows, capped : BOOLEAN, due : SUBSET rows ]

Ahead(r, at) == r.day < at.bucket \/ (r.day = at.bucket /\ (at.after # None => r.sk < at.after))
Shown(f) == f.got \cup f.items

WalkOK(f) ==
    /\ f \in Walk
    /\ f.got \cap f.items = {}
    /\ \A r \in f.due : f.floor <= r.day /\ r.type \in f.types
    /\ f.phase = "walk" => Cardinality(f.items) < PageLimit
    /\ f.phase # "done" =>
         /\ f.floor <= f.at.bucket
         /\ \A r \in f.due : r \in Shown(f) \/ Ahead(r, f.at)
         /\ \A r \in Shown(f) : ~ Ahead(r, f.at)
    /\ f.phase = "done" /\ ~ f.capped => f.due \subseteq Shown(f)

FeedOK == feed = Closed \/ WalkOK(feed)

(* Rows that come later change nothing about a walk.                          *)
LEMMA WalkKeeps ==
  ASSUME FeedOK, rows \subseteq rows', feed' = feed
  PROVE  FeedOK'
<1>1. CASE feed = Closed
  BY <1>1 DEF FeedOK, Closed
<1>2. CASE WalkOK(feed)
  <2>1. feed \in Walk
    BY <1>2 DEF WalkOK
  <2>2. feed' \in Walk'
    BY <2>1 DEF Walk, Position
  <2>. QED BY <1>2, <2>2 DEF FeedOK, WalkOK, Shown, Ahead
<1>. QED BY <1>1, <1>2 DEF FeedOK

(* Opening the feed starts a walk that has shown what it has come past. *)
LEMMA OpensStep ==
  ASSUME RowsOK, FeedOK, OpensFeed
  PROVE  FeedOK'
<1>1. PICK types \in Filters :
         feed' = [ phase |-> "walk", at |-> At(today, None), floor |-> today - (Window - 1),
                   types |-> types, items |-> {}, queries |-> 0, got |-> {}, capped |-> FALSE,
                   due |-> {r \in rows : r.day > today - Window /\ r.type \in types} ]
  BY DEF OpensFeed
<1>2. rows' = rows /\ today \in Int /\ Window \in Nat \ {0} /\ PageLimit \in Nat \ {0}
  BY FeedAssumption DEF OpensFeed, RowsOK
<1>3. feed' \in Walk'
  BY <1>1, <1>2 DEF Walk, Position, At
<1>4. \A r \in feed'.due : r \in rows /\ r.type \in types /\ r.day > today - Window
  BY <1>1
<1>5. \A r \in feed'.due : feed'.floor <= r.day
  BY <1>1, <1>2, <1>4 DEF RowsOK
<1>6. \A r \in feed'.due : Ahead(r, feed'.at)
  BY <1>1, <1>2, <1>4 DEF RowsOK, Ahead, At
<1>7. Cardinality(feed'.items) < PageLimit
  BY <1>1, <1>2, FS_EmptySet
<1>8. feed'.floor <= feed'.at.bucket
  BY <1>1, <1>2 DEF At
<1>9. feed'.phase = "walk" /\ Shown(feed') = {} /\ feed'.got = {} /\ feed'.types = types
  BY <1>1 DEF Shown
<1>. QED BY <1>3, <1>4, <1>5, <1>6, <1>7, <1>8, <1>9 DEF FeedOK, WalkOK

(* A further page goes on from the cursor, with nothing shown twice. *)
LEMMA LoadsStep ==
  ASSUME RowsOK, FeedOK, LoadsMore
  PROVE  FeedOK'
<1>1. feed.phase = "paged" /\ rows' = rows
  BY DEF LoadsMore
<1>2. WalkOK(feed)
  BY <1>1 DEF FeedOK, Closed
<1>3. feed \in Walk
  BY <1>2 DEF WalkOK
<1>4. feed' = [feed EXCEPT !.phase = "walk", !.got = feed.got \cup feed.items,
                           !.items = {}, !.queries = 0]
  BY DEF LoadsMore
<1>5. feed' \in Walk'
  <2>1. Shown(feed) \in SUBSET rows /\ {} \in SUBSET rows /\ 0 \in Int
    BY <1>3 DEF Walk, Shown
  <2>2. feed' = [feed EXCEPT !.phase = "walk", !.got = Shown(feed), !.items = {}, !.queries = 0]
    BY <1>4 DEF Shown
  <2>3. feed' \in Walk
    BY <1>3, <2>1, <2>2 DEF Walk
  <2>. QED BY <1>1, <2>3 DEF Walk, Position
<1>6. /\ feed'.phase = "walk" /\ feed'.items = {} /\ feed'.got = Shown(feed)
      /\ feed'.at = feed.at /\ feed'.floor = feed.floor /\ feed'.types = feed.types
      /\ feed'.due = feed.due
  BY <1>3, <1>4 DEF Walk, Shown
<1>7. Shown(feed') = Shown(feed)
  BY <1>6 DEF Shown
<1>8. Cardinality(feed'.items) < PageLimit
  BY <1>6, FS_EmptySet, FeedAssumption
<1>. QED BY <1>1, <1>2, <1>5, <1>6, <1>7, <1>8 DEF FeedOK, WalkOK

(* Of the positions of some rows one is the least.                            *)
LEMMA LeastPosition ==
  ASSUME NEW S, Ordered(S), S # {}
  PROVE  /\ \E r \in S : Min({x.sk : x \in S}) = r.sk
         /\ \A r \in S : Min({x.sk : x \in S}) <= r.sk
<1>. DEFINE K == {x.sk : x \in S}
<1>1. PICK x \in S : \A y \in S : x.sk <= y.sk
  BY OldestRow
<1>2. x.sk \in K /\ \A k \in K : x.sk <= k
  BY <1>1
<1>3. Min(K) = CHOOSE k \in K : \A m \in K : k <= m
  BY DEF Min
<1>. HIDE DEF K
<1>4. Min(K) \in K /\ \A m \in K : Min(K) <= m
  BY <1>2, <1>3
<1>. QED BY <1>4 DEF K

(* A query goes back, past nothing that it did not look at.                   *)
LEMMA QueriesStep ==
  ASSUME RowsOK, FeedOK, Queries
  PROVE  FeedOK'
<1>1. feed.phase = "walk" /\ rows' = rows
  BY DEF Queries
<1>2. WalkOK(feed)
  BY <1>1 DEF FeedOK, Closed
<1>3. feed \in Walk /\ feed.at \in Position /\ feed.floor \in Int /\ feed.floor <= feed.at.bucket
      /\ feed.at.bucket \in Int /\ feed.at.after \in Nat \cup {None}
  BY <1>1, <1>2 DEF WalkOK, Walk, Position
<1>. DEFINE n == PageLimit - Cardinality(feed.items)
            P == Pending(feed.at)
            examined == Examined(feed.at, n)
            last == LastEvaluated(examined, n)
            items == feed.items \cup {r \in examined : r.type \in feed.types}
            full == Cardinality(items) >= PageLimit
            more == last # None \/ feed.at.bucket # feed.floor
            at == IF more THEN Onward(feed.at, last) ELSE feed.at
            spent == feed.queries + 1 >= QueryCap
            stops == ~more \/ full \/ spent
            cursor == HasCursor(full, more, at, feed.floor)
            phase == IF ~stops THEN "walk" ELSE IF cursor THEN "paged" ELSE "done"
            capped == stops /\ more /\ ~full /\ at.bucket = feed.floor
<1>4. feed' = [feed EXCEPT !.items = items, !.at = at, !.queries = feed.queries + 1,
                           !.phase = phase, !.capped = capped]
  BY DEF Queries
<1>5. IsFiniteSet(P) /\ Ordered(P) /\ P \subseteq rows
  <2>1. P \subseteq rows /\ IsFiniteSet(rows)
    BY DEF Pending, RowsOK
  <2>2. IsFiniteSet(P) /\ Cardinality(rows) \in Nat
    BY <2>1, FS_Subset, FS_CardinalityType
  <2>. QED BY <2>1, <2>2 DEF Ordered, RowsOK
<1>6. n \in Nat \ {0}
  <2>1. feed.items \in SUBSET rows
    BY <1>3 DEF Walk
  <2>2. Cardinality(feed.items) \in Nat
    BY <2>1, FS_Subset, FS_CardinalityType DEF RowsOK
  <2>. QED BY <1>1, <1>2, <2>2, FeedAssumption DEF WalkOK
<1>7. examined = Newest(P, n) /\ examined \subseteq P
  BY DEF Examined, Newest
<1>8. \A r \in rows : r \in P <=> r.day = feed.at.bucket /\ Ahead(r, feed.at)
  BY <1>3 DEF Pending, Ahead, RowsOK
<1>9. last = None => examined = P
  <2>1. SUFFICES ASSUME last = None, Cardinality(examined) = n PROVE FALSE
    BY <1>5, <1>6, <1>7, NewestCount
  <2>2. examined # {}
    BY <1>6, <2>1, FS_EmptySet
  <2>3. Ordered(examined)
    BY <1>5, <1>7 DEF Ordered
  <2>4. PICK r \in examined : last = r.sk
    BY <2>1, <2>2, <2>3, LeastPosition DEF LastEvaluated
  <2>. QED BY <2>1, <2>3, <2>4, FeedAssumption DEF Ordered
<1>10. last # None =>
         /\ last \in Nat
         /\ \A r \in examined : last <= r.sk
         /\ \A r \in P \ examined : r.sk < last
         /\ \E r \in examined : last = r.sk
  <2>1. SUFFICES ASSUME last # None
        PROVE  /\ last \in Nat
               /\ \A r \in examined : last <= r.sk
               /\ \A r \in P \ examined : r.sk < last
               /\ \E r \in examined : last = r.sk
    OBVIOUS
  <2>2. Cardinality(examined) = n /\ last = Min({x.sk : x \in examined})
    BY <2>1 DEF LastEvaluated
  <2>3. examined # {}
    BY <1>6, <2>2, FS_EmptySet
  <2>4. Ordered(examined)
    BY <1>5, <1>7 DEF Ordered
  <2>5. PICK r \in examined : last = r.sk
    BY <2>2, <2>3, <2>4, LeastPosition
  <2>6. \A q \in examined : last <= q.sk
    BY <2>2, <2>3, <2>4, LeastPosition
  <2>7. \A q \in P \ examined : q.sk < r.sk
    BY <1>5, <1>6, <1>7, RestIsOlder
  <2>. QED BY <2>4, <2>5, <2>6, <2>7 DEF Ordered
<1>11. more =>
         /\ at \in Position /\ feed.floor <= at.bucket
         /\ \A r \in examined : ~ Ahead(r, at)
         /\ \A r \in rows : ~ Ahead(r, feed.at) => ~ Ahead(r, at)
         /\ \A r \in rows \ examined : Ahead(r, feed.at) => Ahead(r, at)
  <2>. HIDE DEF P, examined, last
  <2>0. \A r \in rows : r.day \in Int /\ r.sk \in Nat
    <3>1. Cardinality(rows) \in Nat
      BY FS_CardinalityType DEF RowsOK
    <3>. QED BY <3>1 DEF RowsOK
  <2>1. CASE last = None /\ feed.at.bucket # feed.floor
    <3>1. more /\ at = [bucket |-> feed.at.bucket - 1, after |-> None]
      BY <2>1 DEF Onward, At
    <3>2. examined = P
      BY <1>9, <2>1
    <3>3. at \in Position /\ feed.floor <= at.bucket
      BY <1>3, <2>1, <3>1 DEF Position
    <3>. HIDE DEF more, at
    <3>4. \A r \in rows : Ahead(r, at) <=> r.day < feed.at.bucket
      BY <1>3, <2>0, <3>1 DEF Ahead
    <3>5. \A r \in rows : r.day < feed.at.bucket => Ahead(r, feed.at)
      BY DEF Ahead
    <3>6. \A r \in rows : Ahead(r, feed.at) => r.day < feed.at.bucket \/ r \in P
      BY <1>8 DEF Ahead
    <3>7. \A r \in P : ~ (r.day < feed.at.bucket)
      BY <1>3, <1>5, <1>8, <2>0
    <3>. QED BY <1>5, <3>2, <3>3, <3>4, <3>5, <3>6, <3>7
  <2>2. CASE last # None
    <3>1. more /\ at = [bucket |-> feed.at.bucket, after |-> last]
      BY <2>2 DEF Onward, At
    <3>2. last \in Nat
      BY <1>10, <2>2
    <3>3. at \in Position /\ feed.floor <= at.bucket
      BY <1>3, <3>1, <3>2 DEF Position
    <3>. HIDE DEF more, at
    <3>4. \A r \in rows : Ahead(r, at) <=>
            r.day < feed.at.bucket \/ (r.day = feed.at.bucket /\ r.sk < last)
      BY <2>2, <3>1 DEF Ahead
    <3>5. \A r \in examined : r \in rows /\ r.day = feed.at.bucket /\ last <= r.sk
      BY <1>5, <1>7, <1>8, <1>10, <2>2
    <3>6. \A r \in examined : ~ Ahead(r, at)
      BY <1>3, <2>0, <3>2, <3>4, <3>5
    <3>7. PICK q \in examined : last = q.sk
      BY <1>10, <2>2
    <3>8. q \in rows /\ q.day = feed.at.bucket /\ Ahead(q, feed.at)
      BY <1>5, <1>7, <1>8, <3>7
    <3>9. feed.at.after # None => feed.at.after \in Nat /\ last < feed.at.after
      BY <1>3, <2>0, <3>7, <3>8 DEF Ahead
    <3>10. ASSUME NEW r \in rows, Ahead(r, at) PROVE Ahead(r, feed.at)
      BY <1>3, <2>0, <3>2, <3>4, <3>9, <3>10 DEF Ahead
    <3>11. ASSUME NEW r \in rows, r \notin examined, Ahead(r, feed.at) PROVE Ahead(r, at)
      <4>1. r.day < feed.at.bucket \/ r \in P \ examined
        BY <1>8, <3>11 DEF Ahead
      <4>2. r \in P \ examined => r.day = feed.at.bucket /\ r.sk < last
        BY <1>5, <1>8, <1>10, <2>2
      <4>. QED BY <3>4, <4>1, <4>2, <3>11
    <3>. QED BY <3>3, <3>6, <3>10, <3>11
  <2>. QED BY <2>1, <2>2
<1>12. ~ more => \A r \in rows : Ahead(r, feed.at) /\ feed.floor <= r.day => r \in examined
  <2>. HIDE DEF P, examined, last
  <2>. SUFFICES ASSUME ~ more
       PROVE \A r \in rows : Ahead(r, feed.at) /\ feed.floor <= r.day => r \in examined
    OBVIOUS
  <2>1. last = None /\ feed.at.bucket = feed.floor
    OBVIOUS
  <2>. HIDE DEF more
  <2>2. \A r \in rows : Ahead(r, feed.at) /\ feed.floor <= r.day => r.day = feed.at.bucket
    BY <1>3, <2>1 DEF Ahead, RowsOK
  <2>. QED BY <1>8, <1>9, <2>1, <2>2
<1>13. items \in SUBSET rows /\ at \in Position /\ phase \in {"walk", "paged", "done"}
       /\ capped \in BOOLEAN /\ feed.queries + 1 \in Int
  <2>1. feed.items \in SUBSET rows /\ feed.queries \in Int
    BY <1>3 DEF Walk
  <2>2. at \in Position
    <3>. HIDE DEF more
    <3>. QED BY <1>3, <1>11
  <2>3. examined \subseteq rows
    BY <1>5, <1>7
  <2>. HIDE DEF examined, more, full, at
  <2>. QED BY <2>1, <2>2, <2>3
<1>. HIDE DEF n, P, examined, last, items, full, more, at, spent, stops, cursor, phase, capped
<1>14. feed' \in Walk
  BY <1>3, <1>4, <1>13 DEF Walk
<1>15. /\ feed'.items = items /\ feed'.at = at /\ feed'.phase = phase /\ feed'.capped = capped
       /\ feed'.got = feed.got /\ feed'.due = feed.due /\ feed'.floor = feed.floor
       /\ feed'.types = feed.types
  BY <1>3, <1>4 DEF Walk
<1>16. feed' \in Walk'
  BY <1>1, <1>14 DEF Walk, Position
<1>17. feed.got \cap items = {}
  <2>1. feed.got \cap feed.items = {} /\ \A r \in feed.got : ~ Ahead(r, feed.at)
    BY <1>1, <1>2 DEF WalkOK, Shown
  <2>2. \A r \in examined : Ahead(r, feed.at)
    BY <1>5, <1>7, <1>8
  <2>. QED BY <2>1, <2>2 DEF items
<1>18. phase = "walk" => Cardinality(items) < PageLimit
  <2>1. Cardinality(items) \in Nat
    BY <1>13, FS_Subset, FS_CardinalityType DEF RowsOK
  <2>. QED BY <2>1, FeedAssumption DEF phase, stops, full, cursor, HasCursor
<1>19. phase # "done" => more
  BY DEF phase, cursor, HasCursor, stops
<1>20. Shown(feed) \subseteq Shown(feed') /\ Shown(feed') = Shown(feed) \cup items
       /\ \A r \in Shown(feed') : r \in Shown(feed) \/ r \in examined
  BY <1>15 DEF Shown, items
<1>21. \A r \in feed.due : r \in rows /\ r.type \in feed.types /\ feed.floor <= r.day
                          /\ (r \in Shown(feed) \/ Ahead(r, feed.at))
  BY <1>1, <1>2, <1>3 DEF WalkOK, Walk
<1>22. \A r \in feed.due : r \in examined => r \in Shown(feed')
  BY <1>20, <1>21 DEF items
<1>23. phase # "done" =>
         /\ feed.floor <= at.bucket
         /\ \A r \in feed.due : r \in Shown(feed') \/ Ahead(r, at)
         /\ \A r \in Shown(feed') : ~ Ahead(r, at)
  <2>1. \A r \in Shown(feed) : r \in rows /\ ~ Ahead(r, feed.at)
    BY <1>1, <1>2, <1>3 DEF WalkOK, Walk, Shown
  <2>. QED BY <1>11, <1>19, <1>20, <1>21, <1>22, <2>1
<1>24. phase = "done" /\ ~ capped => feed.due \subseteq Shown(feed')
  <2>1. phase = "done" /\ ~ capped => ~ more
    BY DEF phase, capped, cursor, HasCursor
  <2>. QED BY <1>12, <1>20, <1>21, <1>22, <2>1
<1>25. \A r \in feed.due : feed.floor <= r.day /\ r.type \in feed.types
  BY <1>21
<1>. QED BY <1>1, <1>15, <1>16, <1>17, <1>18, <1>23, <1>24, <1>25 DEF FeedOK, WalkOK

(******************************************************************************)
(* Users, and the requests about them.                                        *)
(******************************************************************************)
Accounted == [email : Emails, groups : SUBSET Groups, enabled : BOOLEAN]
Kinds == {"created", "groups", "switched", "updated", "deleted"}
Steps == {"groups", "lookup", "delete", "record"}
Homes == [name : Ids \cup Emails, excused : BOOLEAN]
Requests ==
    [ kind : Kinds, name : Ids \cup Emails, who : Ids, step : Steps, canonical : Homes \cup {None},
      adds : SUBSET Groups, removes : SUBSET Groups, target : SUBSET Groups, alone : BOOLEAN ]

(* No two users answer to one name, and who is gone is not there.             *)
UsersOK ==
    /\ users \in [DOMAIN users -> Accounted] /\ DOMAIN users \subseteq Ids
    /\ \A u, v \in DOMAIN users : users[u].email = users[v].email => u = v
    /\ DOMAIN gone \cap DOMAIN users = {}

CallsOK == \A s \in Sessions : call[s] # None => call[s] \in Requests

(* The user of a request is there, or another session deleted it, or it is    *)
(* this request that did and that looked the user up before.                  *)
Settles(s) ==
    /\ \/ call[s].who \in DOMAIN users
       \/ call[s].who \in DOMAIN gone /\ gone[call[s].who] # s
       \/ call[s].step = "record" /\ call[s].canonical # None
    /\ call[s].canonical # None => call[s].canonical.excused \/ call[s].canonical.name = call[s].who
    /\ call[s].step = "delete" => call[s].canonical # None
SettlesOK == \A s \in Sessions : call[s] # None => Settles(s)

(* A request alone at a user's groups has given all of its target that it no  *)
(* longer has to give, and takes none of it; two at one user are not alone.   *)
Changes(s) == call[s] # None /\ call[s].step = "groups"
Gave(s) ==
    /\ call[s].removes \cap call[s].target = {}
    /\ \A u \in Named(call[s].name) : call[s].target \ call[s].adds \subseteq users[u].groups
AloneOK ==
    /\ \A s \in Sessions : Changes(s) /\ call[s].alone => Gave(s)
    /\ \A s, t \in Sessions :
        s # t /\ Changes(s) /\ Changes(t) /\ Named(call[s].name) \cap Named(call[t].name) # {} =>
            ~ call[s].alone

People == call = [s \in Sessions |-> call[s]] /\ UsersOK /\ CallsOK /\ SettlesOK /\ AloneOK
Inv == People /\ OneTimeline /\ RowsOK /\ FeedOK

(* A name is the name of one user: the id's, or the holder's of the address.  *)
LEMMA OneNamed ==
  ASSUME UsersOK, NEW u \in DOMAIN users, NEW name \in {u, users[u].email}
  PROVE  Named(name) = {u}
<1>1. \A v \in DOMAIN users : v \in Ids /\ users[v].email \in Emails
  BY DEF UsersOK, Accounted
<1>2. \A v \in DOMAIN users : v # users[u].email /\ u # users[v].email
  BY <1>1, AccountsAssumption
<1>. QED BY <1>2 DEF Named, UsersOK

(* The sign-in name and the address of an account resolve to the same account. *)
LEMMA CanonicalNamed ==
  ASSUME UsersOK, NEW u \in DOMAIN users, NEW name \in {u, users[u].email}
  PROVE  Canonical(name) = u
<1>1. Named(name) = {u}
  BY OneNamed
<1>. QED BY <1>1 DEF Canonical

(* A name resolves to an account name or stays the name that was asked for. *)
LEMMA CanonicalType ==
  ASSUME UsersOK, NEW name \in Ids \cup Emails
  PROVE  Canonical(name) \in Ids \cup Emails
<1>1. Named(name) \subseteq Ids
  BY DEF Named, UsersOK
<1>. QED BY <1>1 DEF Canonical

(* A request that looks its user up finds the one it is about, if not excused.*)
LEMMA FindsItsUser ==
  ASSUME UsersOK, NEW s \in Sessions, call[s] # None, call[s] \in Requests, Settles(s),
         call[s].canonical = None \/ call[s].step # "record", ~ Excused(s)
  PROVE  Canonical(call[s].name) = call[s].who
<1>1. CASE call[s].who \in DOMAIN users
  <2>1. call[s].name \in {call[s].who, users[call[s].who].email}
    BY <1>1 DEF Excused
  <2>. QED BY <1>1, <2>1, CanonicalNamed
<1>2. CASE call[s].who \notin DOMAIN users
  BY <1>2 DEF Excused, Settles
<1>. QED BY <1>1, <1>2

(* A row of today's is one more, and the newest.                              *)
LEMMA RowAdded ==
  ASSUME RowsOK, NEW r, rows' = rows \cup {r}, today' = today,
         r.day = today, r.sk = Cardinality(rows) + 1
  PROVE  RowsOK' /\ rows \subseteq rows'
<1>1. IsFiniteSet(rows) /\ Cardinality(rows) \in Nat /\ today \in Int
  BY FS_CardinalityType DEF RowsOK
<1>2. \A q \in rows : q.sk \in Nat /\ q.sk < r.sk
  BY <1>1 DEF RowsOK
<1>3. r \notin rows
  BY <1>1, <1>2
<1>4. IsFiniteSet(rows') /\ Cardinality(rows') = Cardinality(rows) + 1
  BY <1>1, <1>3, FS_AddElement
<1>5. ASSUME NEW q \in rows'
      PROVE  /\ q.day \in Int /\ q.day <= today' /\ q.sk \in 1..Cardinality(rows')
             /\ \A p \in rows' : p.sk = q.sk => p = q
  <2>1. CASE q = r
    BY <1>1, <1>2, <1>4, <2>1
  <2>2. CASE q \in rows
    <3>1. q.day \in Int /\ q.day <= today /\ q.sk \in 1..Cardinality(rows)
          /\ \A p \in rows : p.sk = q.sk => p = q
      BY <2>2 DEF RowsOK
    <3>. QED BY <1>1, <1>2, <1>4, <2>2, <3>1
  <2>. QED BY <2>1, <2>2
<1>. QED BY <1>1, <1>4, <1>5 DEF RowsOK

(* The row that a request records.                                            *)
LEMMA RecordedRow ==
  ASSUME RowsOK, FeedOK, OneTimeline, NEW s \in Sessions, NEW key, NEW excused \in BOOLEAN,
         Recorded(s, key, excused), excused \/ key = call[s].who
  PROVE  RowsOK' /\ FeedOK' /\ OneTimeline'
<1>. DEFINE r == [ day |-> today, sk |-> Cardinality(rows) + 1, type |-> call[s].kind,
                   key |-> UserKey(key), who |-> call[s].who, excused |-> excused ]
<1>1. rows' = rows \cup {r} /\ today' = today /\ feed' = feed
  BY DEF Recorded
<1>2. r.day = today /\ r.sk = Cardinality(rows) + 1 /\ (r.excused \/ r.key = UserKey(r.who))
  OBVIOUS
<1>. HIDE DEF r
<1>3. RowsOK' /\ rows \subseteq rows'
  BY <1>1, <1>2, RowAdded
<1>4. FeedOK'
  BY <1>1, <1>3, WalkKeeps
<1>5. OneTimeline'
  BY <1>1, <1>2 DEF OneTimeline, UserKey
<1>. QED BY <1>3, <1>4, <1>5

(******************************************************************************)
(* What a request that is sent does to the requests in flight.                *)
(******************************************************************************)
Names == Ids \cup Emails
Alike(c, d) ==
    /\ c.name = d.name /\ c.who = d.who /\ c.step = d.step /\ c.canonical = d.canonical
    /\ c.adds = d.adds /\ c.removes = d.removes /\ c.target = d.target

(* Only the requests it overlaps change, and only in not being alone.         *)
LEMMA SendsFacts ==
  ASSUME People, NEW s \in Sessions, NEW request \in Requests,
         NEW others \in SUBSET Sessions, \A t \in others : Changes(t), Sends(s, request, others)
  PROVE  /\ call' = [t \in Sessions |-> call'[t]] /\ CallsOK'
         /\ Alike(call'[s], request) /\ call'[s].alone = (others = {})
         /\ \A t \in Sessions \ {s} : call'[t] # None =>
              /\ call[t] # None /\ Alike(call'[t], call[t])
              /\ call'[t].alone => call[t].alone /\ t \notin others
<1>1. call' = [t \in Sessions |->
                 IF t = s THEN [request EXCEPT !.alone = others = {}]
                 ELSE IF t \in others THEN [call[t] EXCEPT !.alone = FALSE] ELSE call[t]]
  BY DEF Sends
<1>2. /\ [request EXCEPT !.alone = others = {}] \in Requests
      /\ Alike([request EXCEPT !.alone = others = {}], request)
      /\ [request EXCEPT !.alone = others = {}].alone = (others = {})
  <2>1. (others = {}) \in BOOLEAN
    OBVIOUS
  <2>. QED BY <2>1 DEF Requests, Alike
<1>3. ASSUME NEW c \in Requests
      PROVE  /\ [c EXCEPT !.alone = FALSE] \in Requests /\ Alike([c EXCEPT !.alone = FALSE], c)
             /\ [c EXCEPT !.alone = FALSE].alone = FALSE
  BY DEF Requests, Alike
<1>4. \A t \in Sessions : call[t] # None => call[t] \in Requests
  BY DEF People, CallsOK
<1>5. \A t \in others : call[t] # None
  BY DEF Changes
<1>6. CallsOK'
  <2>1. \A t \in Sessions : call'[t] # None => call'[t] \in Requests
    BY <1>1, <1>2, <1>3, <1>4, <1>5
  <2>. QED BY <2>1 DEF CallsOK, Requests, Homes
<1>7. ASSUME NEW t \in Sessions \ {s}, call'[t] # None
      PROVE  /\ call[t] # None /\ Alike(call'[t], call[t])
             /\ call'[t].alone => call[t].alone /\ t \notin others
  <2>1. CASE t \in others
    BY <1>1, <1>3, <1>4, <1>5, <2>1
  <2>2. CASE t \notin others
    BY <1>1, <1>7, <2>2 DEF Alike
  <2>. QED BY <2>1, <2>2
<1>. QED BY <1>1, <1>2, <1>6, <1>7

(* Either every request that may reach user u from now on counts as           *)
(* overlapped, or none comes to reach u that did not.                         *)
LEMMA SendsKeeps ==
  ASSUME People, NEW s \in Sessions, NEW request \in Requests, NEW u \in Ids, NEW R \in SUBSET Names,
         NEW others \in SUBSET Sessions, \A t \in others : Changes(t), Sends(s, request, others),
         UsersOK', gone' = gone, DOMAIN users \subseteq DOMAIN users',
         request.who \in DOMAIN users', request.step # "delete",
         request.canonical # None => request.canonical.name = request.who,
         \A name \in Names : \A v \in Named(name)' :
            v = u \/ (v \in Named(name) /\ users'[v].groups = users[v].groups),
         \A name \in Names : u \in Named(name) /\ u \in Named(name)' => users'[u].groups = users[u].groups,
         \A name \in Names : u \in Named(name)' => name \in R,
         \/ \A t \in Sessions \ {s} : Changes(t) /\ call[t].name \in R => t \in others
         \/ /\ \A t \in Sessions \ {s} : Changes(t) /\ call[t].name \in R => u \in Named(call[t].name)
            /\ request.step # "groups",
         request.step = "groups" =>
            /\ request.removes \cap request.target = {}
            /\ \A v \in Named(request.name)' : v = u
            /\ request.target \ request.adds \subseteq users'[u].groups
  PROVE  People'
<1>1. /\ call' = [t \in Sessions |-> call'[t]] /\ CallsOK'
      /\ Alike(call'[s], request) /\ call'[s].alone = (others = {})
      /\ \A t \in Sessions \ {s} : call'[t] # None =>
           /\ call[t] # None /\ Alike(call'[t], call[t])
           /\ call'[t].alone => call[t].alone /\ t \notin others
  BY SendsFacts
<1>2. ASSUME NEW t \in Sessions, call'[t] # None PROVE Settles(t)'
  <2>1. CASE t = s
    BY <1>1, <2>1 DEF Alike, Settles
  <2>2. CASE t # s
    <3>1. call[t] # None /\ Settles(t) /\ Alike(call'[t], call[t])
      BY <1>1, <1>2, <2>2 DEF People, SettlesOK
    <3>. QED BY <3>1 DEF Settles, Alike
  <2>. QED BY <2>1, <2>2
<1>3. \A t \in Sessions : call[t] # None => call[t].name \in Names
  BY DEF People, CallsOK, Requests, Names
<1>4. ASSUME NEW t \in Sessions \ {s}, Changes(t)'
      PROVE  /\ Changes(t) /\ Alike(call'[t], call[t]) /\ call[t].name \in Names
             /\ call'[t].alone => call[t].alone /\ t \notin others
  BY <1>1, <1>3, <1>4 DEF Changes, Alike
<1>5. ASSUME NEW t \in Sessions, Changes(t)', call'[t].alone PROVE Gave(t)'
  <2>1. CASE t = s
    BY <1>1, <1>5, <2>1 DEF Gave, Changes, Alike
  <2>2. CASE t # s
    <3>1. Changes(t) /\ call[t].alone /\ Gave(t) /\ Alike(call'[t], call[t])
          /\ t \notin others /\ call[t].name \in Names
      BY <1>4, <1>5, <2>2 DEF People, AloneOK
    <3>2. PICK name \in Names : name = call[t].name
      BY <3>1
    <3>3. \A v \in Named(name)' : v \in Named(name) /\ users'[v].groups = users[v].groups
      BY <2>2, <3>1, <3>2
    <3>4. call'[t].name = name /\ call'[t].target = call[t].target /\ call'[t].adds = call[t].adds
          /\ call'[t].removes = call[t].removes
      BY <3>1, <3>2 DEF Alike
    <3>. QED BY <3>1, <3>2, <3>3, <3>4 DEF Gave
  <2>. QED BY <2>1, <2>2
<1>6. ASSUME NEW t \in Sessions, NEW r \in Sessions, t # r, Changes(t)', Changes(r)',
             (Named(call[t].name) \cap Named(call[r].name))' # {}, call'[t].alone
      PROVE  FALSE
  <2>1. PICK x \in Names, y \in Names, v \in DOMAIN users' :
           /\ call'[t].name = x /\ call'[r].name = y
           /\ v \in Named(x)' /\ v \in Named(y)'
    <3>1. call'[t].name \in Names /\ call'[r].name \in Names
      BY <1>1, <1>6 DEF CallsOK, Changes, Requests, Names
    <3>. QED BY <1>6, <3>1 DEF Named
  <2>2. CASE t # s /\ r # s
    <3>1. /\ Changes(t) /\ call[t].name = x /\ call[t].alone /\ t \notin others
          /\ Changes(r) /\ call[r].name = y
      BY <1>4, <1>6, <2>1, <2>2 DEF Alike
    <3>2. v \in Named(x)
      BY <2>1, <2>2, <3>1
    <3>3. v \in Named(y)
      BY <2>1, <2>2, <3>1
    <3>. QED BY <1>6, <3>1, <3>2, <3>3 DEF People, AloneOK
  <2>3. CASE t = s
    <3>1. /\ request.step = "groups" /\ request.name = x /\ others = {}
          /\ Changes(r) /\ call[r].name = y
      BY <1>1, <1>4, <1>6, <2>1, <2>3 DEF Alike, Changes
    <3>2. v = u /\ y \in R
      BY <2>1, <3>1
    <3>. QED BY <1>6, <2>3, <3>1, <3>2
  <2>4. CASE r = s
    <3>1. /\ request.step = "groups" /\ request.name = y /\ t \notin others
          /\ Changes(t) /\ call[t].name = x
      BY <1>1, <1>4, <1>6, <2>1, <2>4 DEF Alike, Changes
    <3>2. v = u /\ x \in R
      BY <2>1, <3>1
    <3>. QED BY <1>6, <2>4, <3>1, <3>2
  <2>. QED BY <2>2, <2>3, <2>4
<1>7. SettlesOK'
  BY <1>2 DEF SettlesOK
<1>8. AloneOK'
  BY <1>5, <1>6 DEF AloneOK
<1>. QED BY <1>1, <1>7, <1>8 DEF People

(******************************************************************************)
(* The administrators' requests.                                              *)
(******************************************************************************)
LEMMA RestKeeps ==
  ASSUME Inv, rows' = rows, today' = today, feed' = feed
  PROVE  OneTimeline' /\ RowsOK' /\ FeedOK'
<1>1. OneTimeline' /\ RowsOK'
  BY DEF Inv, OneTimeline, RowsOK, UserKey
<1>. QED BY <1>1, WalkKeeps DEF Inv

(* The parts of an account, as the directory holds them. *)
LEMMA UserType ==
  ASSUME UsersOK, NEW u \in DOMAIN users
  PROVE  /\ u \in Ids /\ users[u] \in Accounted /\ users[u].email \in Emails
         /\ users[u].groups \in SUBSET Groups /\ users[u].enabled \in BOOLEAN
BY DEF UsersOK, Accounted

(* The parts of a request under way, as the constructor sets them. *)
LEMMA RequestType ==
  ASSUME NEW kind \in Kinds, NEW name \in Names, NEW who \in Ids, NEW step \in Steps
  PROVE  /\ Request(kind, name, who, step) \in Requests
         /\ Request(kind, name, who, step).kind = kind /\ Request(kind, name, who, step).name = name
         /\ Request(kind, name, who, step).who = who /\ Request(kind, name, who, step).step = step
         /\ Request(kind, name, who, step).canonical = None
BY DEF Request, Requests, Names

(* The sessions that change an account are the ones whose request names it or its
   address. *)
LEMMA ChangingChanges ==
  ASSUME NEW u, NEW e
  PROVE  /\ \A t \in Changing(u, e) : Changes(t)
         /\ \A t \in Sessions : Changes(t) /\ call[t].name \in {u, e} => t \in Changing(u, e)
BY DEF Changing, Changes

(* An account deletion keeps the invariant: its name is gone and its event is on its timeline. *)
LEMMA DeletesStep ==
  ASSUME Inv, NEW s \in Sessions, Deletes(s)
  PROVE  Inv'
<1>0. PICK u \in DOMAIN users : \E name \in {u, users[u].email} :
         Sends(s, Request("deleted", name, u, "lookup"), {}) /\ users' = users /\ gone' = gone
  BY DEF Deletes, DeletionOrder
<1>1. PICK name \in {u, users[u].email} :
         Sends(s, Request("deleted", name, u, "lookup"), {}) /\ users' = users /\ gone' = gone
  BY <1>0
<1>2. People /\ UsersOK /\ u \in Ids /\ name \in Names
  BY UserType DEF Inv, People, Names
<1>. DEFINE request == Request("deleted", name, u, "lookup")
<1>3. request \in Requests /\ request.who = u /\ request.step = "lookup" /\ request.canonical = None
  BY <1>2, RequestType DEF Kinds, Steps
<1>4. rows' = rows /\ today' = today /\ feed' = feed
  BY <1>1 DEF Sends
<1>5. UsersOK'
  BY <1>1, <1>2 DEF UsersOK
<1>. DEFINE R == {m \in Names : u \in Named(m)}
<1>6. \A m \in Names : Named(m)' = Named(m)
  BY <1>1 DEF Named
<1>7. \A m \in Names : u \in Named(m)' => m \in R
  BY <1>6
<1>8. \A m \in Names : \A v \in Named(m)' : v = u \/ (v \in Named(m) /\ users'[v].groups = users[v].groups)
  BY <1>1, <1>6
<1>9. \A t \in Sessions \ {s} : Changes(t) /\ call[t].name \in R => u \in Named(call[t].name)
  OBVIOUS
<1>10. Sends(s, request, {}) /\ (\A t \in {} : Changes(t)) /\ {} \in SUBSET Sessions /\ R \in SUBSET Names
  BY <1>1
<1>11. DOMAIN users \subseteq DOMAIN users' /\ request.who \in DOMAIN users'
       /\ request.step # "delete" /\ request.step # "groups"
       /\ \A m \in Names : u \in Named(m) /\ u \in Named(m)' => users'[u].groups = users[u].groups
  BY <1>1, <1>3
<1>. HIDE DEF request, R
<1>12. People'
  BY <1>1, <1>2, <1>3, <1>5, <1>7, <1>8, <1>9, <1>10, <1>11, SendsKeeps
<1>. QED BY <1>4, <1>12, RestKeeps DEF Inv

(* To switch a user on or off reaches nobody's groups.                        *)
LEMMA SwitchesStep ==
  ASSUME Inv, NEW s \in Sessions, Switches(s)
  PROVE  Inv'
<1>0. PICK u \in DOMAIN users : \E name \in {u, users[u].email} :
         /\ Sends(s, Request("switched", name, u, "record"), {})
         /\ users' = [users EXCEPT ![u].enabled = ~@] /\ gone' = gone
  BY DEF Switches
<1>1. PICK name \in {u, users[u].email} :
         /\ Sends(s, Request("switched", name, u, "record"), {})
         /\ users' = [users EXCEPT ![u].enabled = ~@] /\ gone' = gone
  BY <1>0
<1>2. People /\ UsersOK /\ u \in Ids /\ name \in Names
  BY UserType DEF Inv, People, Names
<1>. DEFINE request == Request("switched", name, u, "record")
            R == {m \in Names : u \in Named(m)}
<1>3. request \in Requests /\ request.who = u /\ request.step = "record" /\ request.canonical = None
  BY <1>2, RequestType DEF Kinds, Steps
<1>4. rows' = rows /\ today' = today /\ feed' = feed
  BY <1>1 DEF Sends
<1>5. /\ DOMAIN users' = DOMAIN users /\ users' = [v \in DOMAIN users |-> users'[v]]
      /\ \A v \in DOMAIN users : /\ users'[v].email = users[v].email
                                /\ users'[v].groups = users[v].groups
                                /\ users'[v] \in Accounted
  <2>1. users[u] \in Accounted /\ [users[u] EXCEPT !.enabled = ~ users[u].enabled] \in Accounted
    BY <1>2, UserType DEF Accounted
  <2>2. users' = [v \in DOMAIN users |->
                    IF v = u THEN [users[u] EXCEPT !.enabled = ~ users[u].enabled] ELSE users[v]]
    BY <1>1, <1>2 DEF UsersOK
  <2>3. \A v \in DOMAIN users : users[v] \in Accounted
    BY <1>2, UserType
  <2>. QED BY <2>1, <2>2, <2>3 DEF Accounted
<1>6. UsersOK'
  BY <1>1, <1>2, <1>5 DEF UsersOK, Accounted
<1>7. \A m \in Names : Named(m)' = Named(m)
  BY <1>5 DEF Named
<1>8. \A m \in Names : u \in Named(m)' => m \in R
  BY <1>7
<1>9. /\ \A m \in Names : \A v \in Named(m)' : v = u \/ (v \in Named(m) /\ users'[v].groups = users[v].groups)
      /\ \A m \in Names : u \in Named(m) /\ u \in Named(m)' => users'[u].groups = users[u].groups
  BY <1>5, <1>7 DEF Named
<1>10. \A t \in Sessions \ {s} : Changes(t) /\ call[t].name \in R => u \in Named(call[t].name)
  OBVIOUS
<1>11. Sends(s, request, {}) /\ (\A t \in {} : Changes(t)) /\ {} \in SUBSET Sessions /\ R \in SUBSET Names
  BY <1>1
<1>12. DOMAIN users \subseteq DOMAIN users' /\ request.who \in DOMAIN users' /\ gone' = gone
       /\ request.step # "delete" /\ request.step # "groups"
  BY <1>1, <1>3, <1>5
<1>. HIDE DEF request, R
<1>13. People'
  BY <1>2, <1>3, <1>6, <1>8, <1>9, <1>10, <1>11, <1>12, SendsKeeps
<1>. QED BY <1>4, <1>13, RestKeeps DEF Inv

(* A change of address keeps the invariant: no two accounts share an address. *)
LEMMA ReaddressesStep ==
  ASSUME Inv, NEW s \in Sessions, Readdresses(s)
  PROVE  Inv'
<1>0. PICK u \in DOMAIN users, e \in Emails : \E name \in {u, users[u].email} :
         /\ Named(e) = {}
         /\ Sends(s, Request("updated", name, u, "record"), Reached(u, e))
         /\ users' = [users EXCEPT ![u].email = e] /\ gone' = gone
  BY DEF Readdresses
<1>1. PICK name \in {u, users[u].email} :
         /\ Sends(s, Request("updated", name, u, "record"), Reached(u, e))
         /\ users' = [users EXCEPT ![u].email = e] /\ gone' = gone
  BY <1>0
<1>2. People /\ UsersOK /\ u \in Ids /\ name \in Names /\ e \in Names
  BY UserType DEF Inv, People, Names
<1>. DEFINE request == Request("updated", name, u, "record")
            others == Reached(u, e)
<1>3. request \in Requests /\ request.who = u /\ request.step = "record" /\ request.canonical = None
  BY <1>2, RequestType DEF Kinds, Steps
<1>4. rows' = rows /\ today' = today /\ feed' = feed
  BY <1>1 DEF Sends
<1>5. /\ DOMAIN users' = DOMAIN users /\ users' = [v \in DOMAIN users |-> users'[v]]
      /\ \A v \in DOMAIN users : /\ users'[v].email = (IF v = u THEN e ELSE users[v].email)
                                /\ users'[v].groups = users[v].groups
                                /\ users'[v] \in Accounted
  <2>1. users[u] \in Accounted /\ [users[u] EXCEPT !.email = e] \in Accounted
    BY <1>0, <1>2, UserType DEF Accounted
  <2>2. users' = [v \in DOMAIN users |->
                    IF v = u THEN [users[u] EXCEPT !.email = e] ELSE users[v]]
    BY <1>1, <1>2 DEF UsersOK
  <2>3. \A v \in DOMAIN users : users[v] \in Accounted
    BY <1>2, UserType
  <2>. QED BY <2>1, <2>2, <2>3 DEF Accounted
<1>6. UsersOK'
  <2>1. \A v \in DOMAIN users : users[v].email # e
    BY <1>0 DEF Named
  <2>. QED BY <1>1, <1>2, <1>5, <2>1 DEF UsersOK, Accounted
<1>7. \A m \in Names : \A v \in Named(m)' : v = u \/ v \in Named(m)
  BY <1>5 DEF Named
<1>8. \A m \in Names : u \in Named(m)' => m \in {u, e}
  BY <1>5 DEF Named
<1>9. /\ \A m \in Names : \A v \in Named(m)' : v = u \/ (v \in Named(m) /\ users'[v].groups = users[v].groups)
      /\ \A m \in Names : u \in Named(m) /\ u \in Named(m)' => users'[u].groups = users[u].groups
  BY <1>5, <1>7 DEF Named
<1>10. others \in SUBSET Sessions /\ \A t \in others : Changes(t)
  BY ChangingChanges DEF Reached, Changing
<1>11. \/ \A t \in Sessions \ {s} : Changes(t) /\ call[t].name \in {u, e} => t \in others
       \/ \A t \in Sessions \ {s} : Changes(t) /\ call[t].name \in {u, e} => u \in Named(call[t].name)
  <2>1. CASE \E t \in Changing(u, e) : call[t].name = e
    BY <2>1, ChangingChanges DEF Reached
  <2>2. CASE ~ \E t \in Changing(u, e) : call[t].name = e
    <3>1. \A t \in Sessions : Changes(t) /\ call[t].name \in {u, e} => call[t].name = u
      BY <2>2, ChangingChanges
    <3>2. u \in Named(u)
      BY DEF Named
    <3>. QED BY <3>1, <3>2
  <2>. QED BY <2>1, <2>2
<1>12. Sends(s, request, others) /\ {u, e} \in SUBSET Names
  BY <1>1, <1>2 DEF Names
<1>13. DOMAIN users \subseteq DOMAIN users' /\ request.who \in DOMAIN users' /\ gone' = gone
       /\ request.step # "delete" /\ request.step # "groups"
  BY <1>1, <1>3, <1>5
<1>. HIDE DEF request, others
<1>14. People'
  <2>. DEFINE Q == {u, e}
  <2>1. /\ Q \in SUBSET Names /\ \A m \in Names : u \in Named(m)' => m \in Q
        /\ \/ \A t \in Sessions \ {s} : Changes(t) /\ call[t].name \in Q => t \in others
           \/ \A t \in Sessions \ {s} : Changes(t) /\ call[t].name \in Q => u \in Named(call[t].name)
    BY <1>8, <1>11, <1>12
  <2>. HIDE DEF Q
  <2>. QED BY <1>2, <1>3, <1>6, <1>9, <1>10, <1>12, <1>13, <2>1, SendsKeeps
<1>. QED BY <1>4, <1>14, RestKeeps DEF Inv

(* Adding the missing groups, which comes first, keeps the invariant. *)
LEMMA PutsGroupsStep ==
  ASSUME Inv, NEW s \in Sessions, PutsGroups(s)
  PROVE  Inv'
<1>0. PICK u \in DOMAIN users, target \in SUBSET Groups : \E name \in {u, users[u].email} :
         /\ Sends(s, [Request("groups", name, u, "groups") EXCEPT !.target = target,
                         !.adds = target \ users[u].groups,
                         !.removes = users[u].groups \ target], Changing(u, users[u].email))
         /\ users' = users /\ gone' = gone
  BY DEF PutsGroups
<1>1. PICK name \in {u, users[u].email} :
         /\ Sends(s, [Request("groups", name, u, "groups") EXCEPT !.target = target,
                         !.adds = target \ users[u].groups,
                         !.removes = users[u].groups \ target], Changing(u, users[u].email))
         /\ users' = users /\ gone' = gone
  BY <1>0
<1>2. People /\ UsersOK /\ u \in Ids /\ name \in Names /\ users[u].email \in Names
      /\ users[u].groups \in SUBSET Groups
  BY UserType DEF Inv, People, Names
<1>. DEFINE base == Request("groups", name, u, "groups")
            request == [base EXCEPT !.target = target, !.adds = target \ users[u].groups,
                                    !.removes = users[u].groups \ target]
            others == Changing(u, users[u].email)
            R == {u, users[u].email}
<1>3. /\ request \in Requests /\ request.who = u /\ request.step = "groups" /\ request.name = name
      /\ request.canonical = None /\ request.target = target
      /\ request.adds = target \ users[u].groups /\ request.removes = users[u].groups \ target
  <2>1. base \in Requests /\ base.who = u /\ base.step = "groups" /\ base.name = name
        /\ base.canonical = None
    BY <1>2, RequestType DEF Kinds, Steps
  <2>2. target \ users[u].groups \in SUBSET Groups /\ users[u].groups \ target \in SUBSET Groups
    BY <1>2
  <2>. HIDE DEF base
  <2>. QED BY <2>1, <2>2 DEF Requests
<1>4. rows' = rows /\ today' = today /\ feed' = feed
  BY <1>1 DEF Sends
<1>5. UsersOK' /\ DOMAIN users \subseteq DOMAIN users' /\ u \in DOMAIN users'
  BY <1>1, <1>2 DEF UsersOK
<1>6. \A m \in Names : Named(m)' = Named(m)
  BY <1>1 DEF Named
<1>7. R \in SUBSET Names /\ \A m \in Names : u \in Named(m)' => m \in R
  <2>1. R \in SUBSET Names
    <3>1. u \in Names
      BY <1>2 DEF Names
    <3>. QED BY <1>2, <3>1
  <2>2. \A m \in Names : u \in Named(m) => m \in R
    BY DEF Named
  <2>. QED BY <1>6, <2>1, <2>2
<1>8. \A m \in Names : \A v \in Named(m)' : v = u \/ (v \in Named(m) /\ users'[v].groups = users[v].groups)
  BY <1>1, <1>6
<1>9. others \in SUBSET Sessions /\ (\A t \in others : Changes(t))
      /\ \A t \in Sessions \ {s} : Changes(t) /\ call[t].name \in R => t \in others
  BY ChangingChanges DEF Changing
<1>10. \A v \in Named(name)' : v = u
  BY <1>2, <1>6, OneNamed
<1>11. /\ request.removes \cap request.target = {}
       /\ request.target \ request.adds \subseteq users'[u].groups
       /\ users'[u].groups = users[u].groups /\ gone' = gone
  BY <1>1, <1>3
<1>12. Sends(s, request, others)
  BY <1>1
<1>. HIDE DEF base, request, others, R
<1>13. People'
  BY <1>2, <1>3, <1>5, <1>7, <1>8, <1>9, <1>10, <1>11, <1>12, SendsKeeps
<1>. QED BY <1>4, <1>13, RestKeeps DEF Inv

(* The creation of an account keeps the invariant, under a name the directory never
   gave out before. *)
LEMMA CreatesStep ==
  ASSUME Inv, NEW s \in Sessions, Creates(s)
  PROVE  Inv'
<1>1. PICK e \in Emails, u \in Ids \ (DOMAIN users \cup DOMAIN gone), gs \in SUBSET Groups :
        /\ Named(e) = {}
        /\ Sends(s, [Request("created", e, u, "groups") EXCEPT !.adds = gs, !.target = gs,
                        !.canonical = [name |-> u, excused |-> FALSE]], Changing(u, e))
        /\ users' = With(users, u, [email |-> e, groups |-> {}, enabled |-> TRUE])
        /\ gone' = gone
  BY DEF Creates
<1>2. People /\ UsersOK /\ u \in Ids /\ e \in Names /\ u \in Names
  BY DEF Inv, People, Names
<1>. DEFINE base == Request("created", e, u, "groups")
            request == [base EXCEPT !.adds = gs, !.target = gs,
                          !.canonical = [name |-> u, excused |-> FALSE]]
            others == Changing(u, e)
            R == {u, e}
<1>3. /\ request \in Requests /\ request.who = u /\ request.step = "groups" /\ request.name = e
      /\ request.canonical.name = u /\ request.target = gs /\ request.adds = gs /\ request.removes = {}
  <2>1. base \in Requests /\ base.who = u /\ base.step = "groups" /\ base.name = e /\ base.removes = {}
    <3>1. base.removes = {}
      BY DEF Request
    <3>. QED BY <1>2, <3>1, RequestType DEF Kinds, Steps
  <2>2. [name |-> u, excused |-> FALSE] \in Homes /\ [name |-> u, excused |-> FALSE].name = u
    BY DEF Homes
  <2>. HIDE DEF base
  <2>. QED BY <2>1, <2>2 DEF Requests
<1>4. rows' = rows /\ today' = today /\ feed' = feed
  BY <1>1 DEF Sends
<1>5. /\ DOMAIN users' = DOMAIN users \cup {u}
      /\ users' = [v \in DOMAIN users \cup {u} |-> users'[v]]
      /\ users'[u] = [email |-> e, groups |-> {}, enabled |-> TRUE]
      /\ \A v \in DOMAIN users : users'[v] = users[v]
  BY <1>1 DEF With
<1>6. UsersOK'
  <2>1. \A v \in DOMAIN users : users[v].email # e
    BY <1>1 DEF Named
  <2>2. [email |-> e, groups |-> {}, enabled |-> TRUE] \in Accounted
    BY DEF Accounted
  <2>3. \A v \in DOMAIN users' : users'[v] \in Accounted
    BY <1>2, <1>5, <2>2 DEF UsersOK
  <2>4. users' \in [DOMAIN users' -> Accounted]
    BY <1>5, <2>3
  <2>5. \A v, w \in DOMAIN users' : users'[v].email = users'[w].email => v = w
    BY <1>2, <1>5, <2>1 DEF UsersOK
  <2>6. DOMAIN gone' \cap DOMAIN users' = {} /\ DOMAIN users' \subseteq Ids
    BY <1>1, <1>2, <1>5 DEF UsersOK
  <2>. QED BY <2>4, <2>5, <2>6 DEF UsersOK, Accounted
<1>7. R \in SUBSET Names /\ \A m \in Names : u \in Named(m)' => m \in R
  BY <1>2, <1>5 DEF Named
<1>8. /\ \A m \in Names : \A v \in Named(m)' : v = u \/ (v \in Named(m) /\ users'[v].groups = users[v].groups)
      /\ \A m \in Names : u \in Named(m) /\ u \in Named(m)' => users'[u].groups = users[u].groups
  BY <1>1, <1>5 DEF Named
<1>9. others \in SUBSET Sessions /\ (\A t \in others : Changes(t))
      /\ \A t \in Sessions \ {s} : Changes(t) /\ call[t].name \in R => t \in others
  BY ChangingChanges DEF Changing
<1>10. \A v \in Named(e)' : v = u
  BY <1>1, <1>5 DEF Named
<1>11. /\ request.removes \cap request.target = {}
       /\ request.target \ request.adds \subseteq users'[u].groups
       /\ gone' = gone /\ u \in DOMAIN users' /\ DOMAIN users \subseteq DOMAIN users'
  BY <1>1, <1>3, <1>5
<1>12. Sends(s, request, others)
  BY <1>1
<1>. HIDE DEF base, request, others, R
<1>13. /\ request.canonical # None => request.canonical.name = request.who
       /\ request.who \in DOMAIN users' /\ request.step # "delete"
       /\ \A v \in Named(request.name)' : v = u
  BY <1>3, <1>10, <1>11
<1>14. People'
  BY <1>2, <1>3, <1>6, <1>7, <1>8, <1>9, <1>10, <1>11, <1>12, <1>13, SendsKeeps
<1>. QED BY <1>4, <1>14, RestKeeps DEF Inv

(******************************************************************************)
(* The requests' own steps.                                                   *)
(******************************************************************************)

(* A request that ends, or goes on past the groups, disturbs no other.        *)
LEMMA CallMoves ==
  ASSUME People, NEW s \in Sessions, NEW c \in Requests \cup {None},
         call' = [call EXCEPT ![s] = c], users' = users, gone' = gone,
         c # None =>
           /\ c.step # "groups"
           /\ \/ c.who \in DOMAIN users
              \/ c.who \in DOMAIN gone /\ gone[c.who] # s
              \/ c.step = "record" /\ c.canonical # None
           /\ c.canonical # None => c.canonical.excused \/ c.canonical.name = c.who
           /\ c.step = "delete" => c.canonical # None
  PROVE  People'
<1>1. call' = [t \in Sessions |-> IF t = s THEN c ELSE call[t]]
  BY DEF People
<1>2. UsersOK'
  BY DEF People, UsersOK
<1>3. CallsOK'
  <2>1. \A t \in Sessions : call'[t] # None => call'[t] \in Requests
    BY <1>1 DEF People, CallsOK
  <2>. QED BY <2>1 DEF CallsOK, Requests, Homes
<1>4. SettlesOK'
  <2>1. ASSUME NEW t \in Sessions, call'[t] # None PROVE Settles(t)'
    <3>1. CASE t = s
      BY <1>1, <2>1, <3>1 DEF Settles
    <3>2. CASE t # s
      <4>1. call'[t] = call[t] /\ Settles(t)
        BY <1>1, <2>1, <3>2 DEF People, SettlesOK
      <4>. QED BY <4>1 DEF Settles
    <3>. QED BY <3>1, <3>2
  <2>. QED BY <2>1 DEF SettlesOK
<1>5. AloneOK'
  <2>1. \A t \in Sessions : Changes(t)' => Changes(t) /\ call'[t] = call[t]
    BY <1>1 DEF Changes
  <2>2. \A t \in Sessions : call'[t] = call[t] => (Gave(t)' <=> Gave(t))
    BY DEF Gave, Named
  <2>3. \A t \in Sessions : call'[t] = call[t] => Named(call[t].name)' = Named(call[t].name)
    BY DEF Named
  <2>. QED BY <2>1, <2>2, <2>3 DEF People, AloneOK
<1>. QED BY <1>1, <1>2, <1>3, <1>4, <1>5 DEF People

(* The part of the invariant about people needs only the directory and the requests
   under way. *)
LEMMA PeopleKeep ==
  ASSUME People, users' = users, gone' = gone, call' = call
  PROVE  People'
<1>1. UsersOK' /\ CallsOK' /\ call' = [s \in Sessions |-> call'[s]]
  BY DEF People, UsersOK, CallsOK, Accounted, Requests, Homes
<1>2. SettlesOK'
  BY DEF People, SettlesOK, Settles
<1>3. AloneOK'
  <2>1. \A s \in Sessions : (Changes(s)' <=> Changes(s)) /\ (Gave(s)' <=> Gave(s))
                          /\ Named(call[s].name)' = Named(call[s].name)
    BY DEF Changes, Gave, Named
  <2>. QED BY <2>1 DEF People, AloneOK
<1>. QED BY <1>1, <1>2, <1>3 DEF People

(* A request that ends takes its own obligations with it. *)
LEMMA EndsKeeps ==
  ASSUME People, NEW s \in Sessions, Ends(s), users' = users, gone' = gone
  PROVE  People'
BY CallMoves DEF Ends

(* A crash of a request between two calls keeps the invariant. *)
LEMMA RequestDiesStep ==
  ASSUME Inv, NEW s \in Sessions, RequestDies(s)
  PROVE  Inv'
BY EndsKeeps, RestKeeps DEF RequestDies, Inv

(* The request of a session, and what is known of it.                         *)
LEMMA CallFacts ==
  ASSUME People, NEW s \in Sessions, call[s] # None
  PROVE  /\ call[s] \in Requests /\ Settles(s)
         /\ call[s].name \in Names /\ call[s].who \in Ids /\ call[s].step \in Steps
         /\ call[s].canonical \in Homes \cup {None} /\ call[s].alone \in BOOLEAN
         /\ call[s].adds \in SUBSET Groups /\ call[s].removes \in SUBSET Groups
         /\ call[s].target \in SUBSET Groups
<1>1. call[s] \in Requests /\ Settles(s)
  BY DEF People, CallsOK, SettlesOK
<1>. QED BY <1>1 DEF Requests, Names

(* A row is keyed by the name the request found, or excused.                  *)
LEMMA RecordsStep ==
  ASSUME Inv, NEW s \in Sessions, Records(s)
  PROVE  Inv'
<1>1. call[s] # None /\ call[s].step = "record" /\ Ends(s) /\ users' = users /\ gone' = gone
  BY DEF Records
<1>2. People /\ UsersOK /\ call[s] \in Requests /\ Settles(s) /\ call[s].canonical \in Homes \cup {None}
  BY <1>1, CallFacts DEF Inv, People
<1>3. People'
  BY <1>1, <1>2, EndsKeeps
<1>4. RowsOK /\ FeedOK /\ OneTimeline
  BY DEF Inv
<1>5. CASE call[s].canonical # None /\ Recorded(s, call[s].canonical.name, call[s].canonical.excused)
  <2>1. call[s].canonical.excused \in BOOLEAN
        /\ (call[s].canonical.excused \/ call[s].canonical.name = call[s].who)
    BY <1>2, <1>5 DEF Settles, Homes
  <2>. QED BY <1>3, <1>4, <1>5, <2>1, RecordedRow DEF Inv
<1>6. CASE call[s].canonical = None /\ Recorded(s, Canonical(call[s].name), Excused(s))
  <2>1. Excused(s) \/ Canonical(call[s].name) = call[s].who
    BY <1>1, <1>2, <1>6, FindsItsUser
  <2>2. Excused(s) \in BOOLEAN
    BY DEF Excused
  <2>. QED BY <1>3, <1>4, <1>6, <2>1, <2>2, RecordedRow DEF Inv
<1>7. CASE Recorded(s, call[s].name, TRUE)
  BY <1>3, <1>4, <1>7, RecordedRow DEF Inv
<1>8. CASE rows' = rows /\ today' = today /\ feed' = feed
  BY <1>3, <1>8, RestKeeps DEF Inv
<1>. QED BY <1>5, <1>6, <1>7, <1>8 DEF Records

(* The look-up of the current groups, the plan of an update, keeps the invariant. *)
LEMMA LooksUpStep ==
  ASSUME Inv, NEW s \in Sessions, LooksUp(s)
  PROVE  Inv'
<1>1. /\ call[s] # None /\ call[s].step = "lookup" /\ users' = users /\ gone' = gone
      /\ rows' = rows /\ today' = today /\ feed' = feed
  BY DEF LooksUp
<1>2. People /\ UsersOK /\ call[s] \in Requests /\ Settles(s) /\ call[s].name \in Names
      /\ call[s].who \in Ids /\ call = [t \in Sessions |-> call[t]]
  BY <1>1, CallFacts DEF Inv, People
<1>3. PICK home \in Homes : /\ call' = [call EXCEPT ![s].step = "delete", ![s].canonical = home]
                            /\ home.excused \/ home.name = call[s].who
  <2>. DEFINE found == [name |-> Canonical(call[s].name), excused |-> Excused(s)]
              given == [name |-> call[s].name, excused |-> TRUE]
  <2>1. found \in Homes /\ (found.excused \/ found.name = call[s].who)
    <3>1. Excused(s) \in BOOLEAN
      BY DEF Excused
    <3>2. Canonical(call[s].name) \in Ids \cup Emails
      BY <1>2, CanonicalType DEF Names
    <3>3. Excused(s) \/ Canonical(call[s].name) = call[s].who
      BY <1>1, <1>2, FindsItsUser
    <3>. QED BY <3>1, <3>2, <3>3 DEF Homes
  <2>2. given \in Homes /\ given.excused
    BY <1>2 DEF Homes, Names
  <2>3. \/ call' = [call EXCEPT ![s].step = "delete", ![s].canonical = found]
        \/ call' = [call EXCEPT ![s].step = "delete", ![s].canonical = given]
    BY DEF LooksUp
  <2>. HIDE DEF found, given
  <2>. QED BY <2>1, <2>2, <2>3
<1>. DEFINE c == [call[s] EXCEPT !.step = "delete", !.canonical = home]
<1>4. call' = [call EXCEPT ![s] = c]
  BY <1>2, <1>3
<1>5. home # None
  BY AccountsAssumption DEF Homes
<1>6. c \in Requests /\ c.step = "delete" /\ c.canonical = home /\ c.who = call[s].who
  BY <1>2 DEF Requests, Steps
<1>. HIDE DEF c
<1>7. /\ c \in Requests \cup {None} /\ c.step # "groups" /\ c.canonical # None
      /\ c.canonical.excused \/ c.canonical.name = c.who
      /\ c.who \in DOMAIN users \/ (c.who \in DOMAIN gone /\ gone[c.who] # s)
  BY <1>1, <1>2, <1>3, <1>5, <1>6 DEF Settles
<1>8. People'
  BY <1>1, <1>2, <1>4, <1>7, CallMoves
<1>. QED BY <1>1, <1>8, RestKeeps DEF Inv

(* Removing the groups that are no longer wanted, the last call of an update, keeps
   the invariant. *)
LEMMA RemovesStep ==
  ASSUME Inv, NEW s \in Sessions, Removes(s)
  PROVE  Inv'
<1>1. /\ call[s] # None /\ call[s].step = "delete"
      /\ rows' = rows /\ today' = today /\ feed' = feed
  BY DEF Removes
<1>2. People /\ UsersOK /\ call[s] \in Requests /\ Settles(s) /\ call[s].name \in Names
      /\ call[s].who \in Ids /\ call = [t \in Sessions |-> call[t]]
      /\ call[s].canonical \in Homes /\ call[s].canonical # None
  BY <1>1, CallFacts DEF Inv, People, Settles
<1>3. CASE Named(call[s].name) = {}
  BY <1>1, <1>2, <1>3, EndsKeeps, RestKeeps DEF Removes, Inv
<1>4. CASE Named(call[s].name) # {}
  <2>. DEFINE u == CHOOSE u \in Named(call[s].name) : TRUE
  <2>1. u \in Named(call[s].name) /\ u \in DOMAIN users /\ u \in Ids
    BY <1>2, <1>4 DEF Named, UsersOK
  <2>2. /\ users' = Without(users, u) /\ gone' = With(gone, u, s)
        /\ call' = [call EXCEPT ![s].step = "record", ![s].who = u, ![s].canonical =
             IF call[s].canonical = None THEN None
             ELSE [call[s].canonical EXCEPT !.excused = call[s].canonical.excused \/ call[s].canonical.name # u]]
    BY <1>4 DEF Removes
  <2>. HIDE DEF u
  <2>. DEFINE home == IF call[s].canonical = None THEN None
                      ELSE [call[s].canonical EXCEPT !.excused = call[s].canonical.excused \/ call[s].canonical.name # u]
              c == [call[s] EXCEPT !.step = "record", !.who = u, !.canonical = home]
  <2>3. home \in Homes /\ (home.excused \/ home.name = u) /\ home # None
    <3>1. home \in Homes /\ (home.excused \/ home.name = u)
      BY <1>2 DEF Homes
    <3>2. \A h \in Homes : h # None
      BY AccountsAssumption DEF Homes
    <3>. QED BY <3>1, <3>2
  <2>4. call' = [t \in Sessions |-> IF t = s THEN c ELSE call[t]]
    <3>1. call' = [call EXCEPT ![s].step = "record", ![s].who = u, ![s].canonical = home]
      BY <2>2
    <3>. HIDE DEF home
    <3>. QED BY <1>2, <3>1
  <2>. HIDE DEF home
  <2>5. c \in Requests /\ c.step = "record" /\ c.who = u /\ c.canonical = home
    BY <1>2, <2>1, <2>3 DEF Requests, Steps
  <2>. HIDE DEF c
  <2>6. /\ DOMAIN users' = DOMAIN users \ {u} /\ users' = [v \in DOMAIN users \ {u} |-> users'[v]]
        /\ \A v \in DOMAIN users \ {u} : users'[v] = users[v]
    BY <2>2 DEF Without
  <2>7. DOMAIN gone' = DOMAIN gone \cup {u} /\ gone'[u] = s
        /\ \A v \in DOMAIN gone : v # u => gone'[v] = gone[v]
    BY <2>2 DEF With
  <2>8. UsersOK'
    <3>1. users' \in [DOMAIN users' -> Accounted]
      BY <1>2, <2>6 DEF UsersOK
    <3>. QED BY <1>2, <2>6, <2>7, <3>1 DEF UsersOK, Accounted
  <2>9. CallsOK'
    <3>1. \A t \in Sessions : call'[t] # None => call'[t] \in Requests
      BY <1>2, <2>4, <2>5 DEF People, CallsOK
    <3>. QED BY <3>1 DEF CallsOK, Requests, Homes
  <2>10. ASSUME NEW t \in Sessions, call'[t] # None PROVE Settles(t)'
    <3>1. CASE t = s
      BY <2>3, <2>4, <2>5, <3>1 DEF Settles
    <3>2. CASE t # s
      <4>1. call'[t] = call[t] /\ Settles(t)
        BY <1>2, <2>4, <2>10, <3>2 DEF People, SettlesOK
      <4>2. \/ call[t].who \in DOMAIN users'
            \/ call[t].who \in DOMAIN gone' /\ gone'[call[t].who] # t
            \/ call[t].step = "record" /\ call[t].canonical # None
        BY <2>6, <2>7, <3>2, <4>1 DEF Settles
      <4>. QED BY <4>1, <4>2 DEF Settles
    <3>. QED BY <3>1, <3>2
  <2>11. AloneOK'
    <3>1. \A t \in Sessions : Changes(t)' => Changes(t) /\ call'[t] = call[t]
      BY <2>4, <2>5 DEF Changes
    <3>2. \A m \in Names : \A v \in Named(m)' : v \in Named(m) /\ users'[v] = users[v]
      BY <2>6 DEF Named
    <3>3. \A t \in Sessions : Changes(t) => call[t].name \in Names
      BY <1>2, CallFacts DEF Changes
    <3>4. ASSUME NEW t \in Sessions, Changes(t)', call'[t].alone PROVE Gave(t)'
      <4>1. Changes(t) /\ call'[t] = call[t] /\ Gave(t)
        BY <1>2, <3>1, <3>4 DEF People, AloneOK
      <4>2. PICK m \in Names : m = call[t].name
        BY <3>3, <4>1
      <4>. QED BY <3>2, <4>1, <4>2 DEF Gave
    <3>5. ASSUME NEW t \in Sessions, NEW r \in Sessions, t # r, Changes(t)', Changes(r)',
                 (Named(call[t].name) \cap Named(call[r].name))' # {}
          PROVE  ~ call'[t].alone
      <4>1. Changes(t) /\ call'[t] = call[t] /\ Changes(r) /\ call'[r] = call[r]
        BY <3>1, <3>5
      <4>2. PICK m \in Names, k \in Names : m = call[t].name /\ k = call[r].name
        BY <3>3, <4>1
      <4>3. Named(m)' \cap Named(k)' # {}
        BY <3>5, <4>1, <4>2
      <4>4. Named(m) \cap Named(k) # {}
        BY <3>2, <4>3
      <4>. QED BY <1>2, <3>5, <4>1, <4>2, <4>4 DEF People, AloneOK
    <3>. QED BY <3>4, <3>5 DEF AloneOK
  <2>12. SettlesOK'
    BY <2>10 DEF SettlesOK
  <2>13. People'
    BY <2>4, <2>8, <2>9, <2>11, <2>12 DEF People
  <2>. QED BY <1>1, <2>13, RestKeeps DEF Inv
<1>. QED BY <1>3, <1>4

(* A session adds or removes groups of u, none that its target asks for.      *)
Regroups(s, u, groups, adds, removes) ==
    /\ users' = [users EXCEPT ![u].groups = groups]
    /\ call' = [call EXCEPT ![s].adds = adds, ![s].removes = removes]
    /\ call[s].target \ call[s].adds \subseteq users[u].groups
            /\ call[s].removes \cap call[s].target = {} =>
         call[s].target \ adds \subseteq groups

(* The step of a request at its user's groups.                                *)
LEMMA ChangesGroupStep ==
  ASSUME Inv, NEW s \in Sessions, ChangesGroup(s)
  PROVE  Inv'
<1>1. /\ call[s] # None /\ call[s].step = "groups" /\ gone' = gone
      /\ rows' = rows /\ today' = today /\ feed' = feed /\ Changes(s)
  BY DEF ChangesGroup, Changes
<1>2. People /\ UsersOK /\ call[s] \in Requests /\ Settles(s) /\ call[s].name \in Names
      /\ call = [t \in Sessions |-> call[t]]
  BY <1>1, CallFacts DEF Inv, People
<1>3. CASE Ends(s) /\ users' = users
  BY <1>1, <1>2, <1>3, EndsKeeps, RestKeeps DEF Inv
<1>4. CASE Goes(s, "record") /\ users' = users
  <2>. DEFINE c == [call[s] EXCEPT !.step = "record"]
  <2>1. call' = [call EXCEPT ![s] = c]
    BY <1>2, <1>4 DEF Goes
  <2>2. /\ c \in Requests \cup {None} /\ c.step = "record" /\ c.who = call[s].who
        /\ c.canonical = call[s].canonical
    BY <1>2 DEF Requests, Steps
  <2>. HIDE DEF c
  <2>3. /\ c.step # "groups" /\ c.step # "delete"
        /\ \/ c.who \in DOMAIN users
           \/ c.who \in DOMAIN gone /\ gone[c.who] # s
           \/ c.step = "record" /\ c.canonical # None
        /\ c.canonical # None => c.canonical.excused \/ c.canonical.name = c.who
    BY <1>2, <2>2 DEF Settles
  <2>4. People'
    BY <1>1, <1>2, <1>4, <2>1, <2>2, <2>3, CallMoves
  <2>. QED BY <1>1, <2>4, RestKeeps DEF Inv
<1>5. ASSUME NEW u \in Named(call[s].name), NEW groups \in SUBSET Groups,
             NEW adds \in SUBSET Groups, NEW removes \in SUBSET call[s].removes,
             Regroups(s, u, groups, adds, removes)
      PROVE  Inv'
  <2>. DEFINE c == [call[s] EXCEPT !.adds = adds, !.removes = removes]
  <2>1. u \in DOMAIN users /\ u \in Ids
    BY <1>2, UserType DEF Named
  <2>2. call' = [t \in Sessions |-> IF t = s THEN c ELSE call[t]]
    BY <1>2, <1>5 DEF Regroups
  <2>3. /\ c \in Requests /\ Alike([c EXCEPT !.adds = call[s].adds, !.removes = call[s].removes], call[s])
        /\ c.alone = call[s].alone /\ c.name = call[s].name /\ c.who = call[s].who
        /\ c.step = call[s].step /\ c.canonical = call[s].canonical /\ c.target = call[s].target
        /\ c.adds = adds /\ c.removes = removes
    BY <1>2, <1>5 DEF Requests, Alike
  <2>. HIDE DEF c
  <2>4. /\ DOMAIN users' = DOMAIN users /\ users' = [v \in DOMAIN users |-> users'[v]]
        /\ users'[u].groups = groups
        /\ \A v \in DOMAIN users : users'[v].email = users[v].email /\ users'[v] \in Accounted
        /\ \A v \in DOMAIN users : v # u => users'[v].groups = users[v].groups
    <3>1. users[u] \in Accounted /\ [users[u] EXCEPT !.groups = groups] \in Accounted
      BY <1>2, <1>5, <2>1, UserType DEF Accounted
    <3>2. users' = [v \in DOMAIN users |->
                      IF v = u THEN [users[u] EXCEPT !.groups = groups] ELSE users[v]]
      BY <1>2, <1>5 DEF UsersOK, Regroups
    <3>3. \A v \in DOMAIN users : users[v] \in Accounted
      BY <1>2, UserType
    <3>. QED BY <2>1, <3>1, <3>2, <3>3 DEF Accounted
  <2>5. UsersOK'
    BY <1>1, <1>2, <2>4 DEF UsersOK, Accounted
  <2>6. CallsOK'
    <3>1. \A t \in Sessions : call'[t] # None => call'[t] \in Requests
      BY <1>2, <2>2, <2>3 DEF People, CallsOK
    <3>. QED BY <3>1 DEF CallsOK, Requests, Homes
  <2>7. ASSUME NEW t \in Sessions, call'[t] # None PROVE Settles(t)'
    <3>1. CASE t = s
      <4>. QED BY <1>1, <1>2, <2>2, <2>3, <2>4, <3>1 DEF Settles
    <3>2. CASE t # s
      <4>1. call'[t] = call[t] /\ Settles(t)
        BY <1>2, <2>2, <2>7, <3>2 DEF People, SettlesOK
      <4>. QED BY <1>1, <2>4, <4>1 DEF Settles
    <3>. QED BY <3>1, <3>2
  <2>8. \A m \in Names : Named(m)' = Named(m)
    BY <2>4 DEF Named
  <2>9. ASSUME NEW t \in Sessions, Changes(t)'
        PROVE  /\ Changes(t) /\ call'[t].alone = call[t].alone /\ call'[t].name = call[t].name
               /\ call[t].name \in Names
    <3>1. Changes(t) /\ call'[t].alone = call[t].alone /\ call'[t].name = call[t].name
      BY <1>1, <2>2, <2>3, <2>9 DEF Changes
    <3>. QED BY <1>2, <3>1, CallFacts DEF Changes
  <2>10. ASSUME NEW t \in Sessions, NEW r \in Sessions, t # r, Changes(t)', Changes(r)',
                (Named(call[t].name) \cap Named(call[r].name))' # {}
         PROVE  ~ call'[t].alone
    <3>1. PICK m \in Names, k \in Names : m = call[t].name /\ k = call[r].name
                                        /\ m = call'[t].name /\ k = call'[r].name
      BY <2>9, <2>10
    <3>2. Named(m)' \cap Named(k)' # {}
      BY <2>10, <3>1
    <3>3. Named(m) \cap Named(k) # {}
      BY <2>8, <3>2
    <3>. QED BY <1>2, <2>9, <2>10, <3>1, <3>3 DEF People, AloneOK
  <2>11. ASSUME NEW t \in Sessions, Changes(t)', call'[t].alone PROVE Gave(t)'
    <3>1. Changes(t) /\ call[t].alone /\ Gave(t) /\ call[t].name \in Names
      BY <1>2, <2>9, <2>11 DEF People, AloneOK
    <3>2. PICK m \in Names : m = call[t].name /\ m = call'[t].name
      BY <2>9, <2>11
    <3>3. Named(m)' = Named(m)
      BY <2>8
    <3>4. CASE t = s
      <4>1. \A v \in Named(m) : v = u
        <5>1. \A v \in Named(m) : m \in {v, users[v].email} /\ v \in DOMAIN users
          BY DEF Named
        <5>2. \A v \in Named(m) : Named(m) = {v}
          BY <1>2, <5>1, OneNamed
        <5>. QED BY <1>5, <3>2, <3>4, <5>2
      <4>2. call[s].target \ adds \subseteq groups /\ call[s].removes \cap call[s].target = {}
        BY <1>5, <3>1, <3>4 DEF Gave, Regroups
      <4>3. removes \cap call[s].target = {}
        BY <1>5, <4>2
      <4>4. call'[t] = c
        BY <2>2, <3>4
      <4>. QED BY <2>3, <2>4, <3>2, <3>3, <4>1, <4>2, <4>3, <4>4 DEF Gave
    <3>5. CASE t # s
      <4>1. call'[t] = call[t]
        BY <2>2, <3>5
      <4>2. u \notin Named(m)
        BY <1>1, <1>2, <1>5, <3>1, <3>2, <3>5 DEF People, AloneOK
      <4>3. \A v \in Named(m) : v \in DOMAIN users /\ users'[v].groups = users[v].groups
        BY <2>4, <4>2 DEF Named
      <4>. QED BY <3>1, <3>2, <3>3, <4>1, <4>3 DEF Gave
    <3>. QED BY <3>4, <3>5
  <2>12. People'
    <3>1. AloneOK'
      BY <2>10, <2>11 DEF AloneOK
    <3>2. SettlesOK'
      BY <2>7 DEF SettlesOK
    <3>. QED BY <2>2, <2>5, <2>6, <3>1, <3>2 DEF People
  <2>. QED BY <1>1, <2>12, RestKeeps DEF Inv
<1>6. CASE \E u \in Named(call[s].name) : \E g \in call[s].adds :
             /\ users' = [users EXCEPT ![u].groups = @ \cup {g}]
             /\ call' = [call EXCEPT ![s].adds = @ \ {g}]
  <2>1. PICK u \in Named(call[s].name), g \in call[s].adds :
             /\ users' = [users EXCEPT ![u].groups = @ \cup {g}]
             /\ call' = [call EXCEPT ![s].adds = @ \ {g}]
    BY <1>6
  <2>2. /\ call[s].adds \in SUBSET Groups /\ call[s].removes \in SUBSET Groups
        /\ users[u].groups \in SUBSET Groups
    BY <1>1, <1>2, CallFacts, UserType DEF Named
  <2>. DEFINE groups == users[u].groups \cup {g}
              adds == call[s].adds \ {g}
  <2>3. groups \in SUBSET Groups /\ adds \in SUBSET Groups
    BY <2>2
  <2>4. users' = [users EXCEPT ![u].groups = groups]
    BY <2>1
  <2>5. call' = [call EXCEPT ![s].adds = adds, ![s].removes = call[s].removes]
    BY <1>2, <2>1 DEF Requests
  <2>6. call[s].target \ call[s].adds \subseteq users[u].groups => call[s].target \ adds \subseteq groups
    OBVIOUS
  <2>7. Regroups(s, u, groups, adds, call[s].removes) /\ call[s].removes \in SUBSET call[s].removes
    BY <2>4, <2>5, <2>6 DEF Regroups
  <2>. HIDE DEF groups, adds
  <2>. QED BY <1>5, <2>1, <2>3, <2>7
<1>7. CASE \E u \in Named(call[s].name) : \E g \in call[s].removes :
             /\ users' = [users EXCEPT ![u].groups = @ \ {g}]
             /\ call' = [call EXCEPT ![s].removes = @ \ {g}]
  <2>1. PICK u \in Named(call[s].name), g \in call[s].removes :
             /\ users' = [users EXCEPT ![u].groups = @ \ {g}]
             /\ call' = [call EXCEPT ![s].removes = @ \ {g}]
    BY <1>7
  <2>2. /\ call[s].adds \in SUBSET Groups /\ call[s].removes \in SUBSET Groups
        /\ users[u].groups \in SUBSET Groups
    BY <1>1, <1>2, CallFacts, UserType DEF Named
  <2>. DEFINE groups == users[u].groups \ {g}
              removes == call[s].removes \ {g}
  <2>3. groups \in SUBSET Groups /\ removes \in SUBSET call[s].removes
    BY <2>2
  <2>4. users' = [users EXCEPT ![u].groups = groups]
    BY <2>1
  <2>5. call' = [call EXCEPT ![s].adds = call[s].adds, ![s].removes = removes]
    BY <1>2, <2>1 DEF Requests
  <2>6. call[s].target \ call[s].adds \subseteq users[u].groups /\ call[s].removes \cap call[s].target = {} =>
          call[s].target \ call[s].adds \subseteq groups
    BY <2>1
  <2>7. Regroups(s, u, groups, call[s].adds, removes)
    BY <2>4, <2>5, <2>6 DEF Regroups
  <2>. HIDE DEF groups, removes
  <2>. QED BY <1>5, <2>1, <2>2, <2>3, <2>7
<1>. QED BY <1>3, <1>4, <1>6, <1>7 DEF ChangesGroup

(******************************************************************************)
(* The theorems.                                                              *)
(******************************************************************************)
LEMMA InitInv ==
  ASSUME Init
  PROVE  Inv
<1>1. /\ users = [u \in {FirstUser} |-> [email |-> FirstEmail, groups |-> Groups, enabled |-> TRUE]]
      /\ gone = << >> /\ call = [s \in Sessions |-> None]
      /\ rows = Earlier /\ today = 0 /\ feed = Closed
  BY DEF Init, FeedInit
<1>2. UsersOK
  <2>1. [email |-> FirstEmail, groups |-> Groups, enabled |-> TRUE] \in Accounted
    BY AccountsAssumption DEF Accounted
  <2>2. DOMAIN users = {FirstUser} /\ users \in [DOMAIN users -> Accounted]
    BY <1>1, <2>1
  <2>3. DOMAIN gone = {}
    BY <1>1
  <2>. QED BY <2>2, <2>3, AccountsAssumption DEF UsersOK
<1>3. People
  BY <1>1, <1>2 DEF People, CallsOK, SettlesOK, AloneOK, Changes
<1>4. RowsOK
  <2>1. /\ IsFiniteSet(Earlier)
        /\ \A r \in Earlier : /\ r.day \in Int /\ r.day <= 0 /\ r.sk \in 1..Cardinality(Earlier)
                             /\ \A q \in Earlier : q.sk = r.sk => q = r
    BY AccountsAssumption
  <2>. QED BY <1>1, <2>1 DEF RowsOK
<1>5. OneTimeline
  BY <1>1, AccountsAssumption DEF OneTimeline, UserKey
<1>. QED BY <1>1, <1>3, <1>4, <1>5 DEF Inv, FeedOK

(* The central activity feed keeps the invariant of the whole. *)
LEMMA FeedStep ==
  ASSUME Inv, Feed, UNCHANGED own
  PROVE  Inv'
<1>1. rows' = rows /\ today' = today /\ users' = users /\ gone' = gone /\ call' = call
  BY DEF Feed, OpensFeed, LoadsMore, Queries, own
<1>2. FeedOK'
  BY OpensStep, LoadsStep, QueriesStep DEF Feed, Inv
<1>3. RowsOK' /\ OneTimeline'
  BY <1>1 DEF Inv, RowsOK, OneTimeline, UserKey
<1>4. People'
  BY <1>1, PeopleKeep DEF Inv
<1>. QED BY <1>2, <1>3, <1>4 DEF Inv

(* Every step of the accounts keeps the invariant. *)
LEMMA StepInv ==
  ASSUME Inv, [Next]_vars
  PROVE  Inv'
<1>1. ASSUME NEW s \in Sessions, Admin(s) PROVE Inv'
  BY <1>1, CreatesStep, PutsGroupsStep, SwitchesStep, ReaddressesStep, DeletesStep DEF Admin
<1>2. ASSUME NEW s \in Sessions, Handler(s) PROVE Inv'
  BY <1>2, ChangesGroupStep, LooksUpStep, RemovesStep, RecordsStep, RequestDiesStep DEF Handler
<1>3. CASE Midnight
  <2>1. rows' = rows /\ feed' = feed /\ today' = today + 1
        /\ users' = users /\ gone' = gone /\ call' = call
    BY <1>3 DEF Midnight, own
  <2>2. RowsOK'
    <3>1. today' \in Int /\ \A r \in rows : r.day \in Int /\ r.day <= today'
      BY <2>1 DEF Inv, RowsOK
    <3>. QED BY <2>1, <3>1 DEF Inv, RowsOK
  <2>3. FeedOK' /\ OneTimeline'
    BY <2>1, WalkKeeps DEF Inv, OneTimeline, UserKey
  <2>4. People'
    BY <2>1, PeopleKeep DEF Inv
  <2>. QED BY <2>2, <2>3, <2>4 DEF Inv
<1>4. CASE Feed /\ UNCHANGED own
  BY <1>4, FeedStep
<1>5. CASE UNCHANGED vars
  <2>1. rows' = rows /\ feed' = feed /\ today' = today
        /\ users' = users /\ gone' = gone /\ call' = call
    BY <1>5 DEF vars, own
  <2>. QED BY <2>1, RestKeeps, PeopleKeep DEF Inv
<1>. QED BY <1>1, <1>2, <1>3, <1>4, <1>5 DEF Next

(* The inductive invariant: users have addresses of their own, requests under way agree with
   the directory, and a walk of the feed has shown all it came past. *)
THEOREM InvHolds == Spec => []Inv
<1>1. Init => Inv
  BY InitInv
<1>2. Inv /\ [Next]_vars => Inv'
  BY StepInv
<1>. QED BY <1>1, <1>2, PTL DEF Spec

(* OneTimeline for any users, addresses, sessions and bounds: the events of a user are
   under the id of the user, whichever name the request used. *)
THEOREM OneTimelineHolds == Spec => []OneTimeline
<1>1. Inv => OneTimeline
  BY DEF Inv
<1>. QED BY <1>1, InvHolds, PTL

(* WindowServed for any users and days: a walk of the feed shows no row twice and ends having
   shown all of its window. *)
THEOREM WindowServedHolds == Spec => []WindowServed
<1>1. ASSUME Inv PROVE WindowServed
  <2>1. CASE feed = Closed
    BY <2>1 DEF WindowServed, Closed
  <2>2. CASE WalkOK(feed)
    BY <2>2 DEF WindowServed, WalkOK, Shown
  <2>. QED BY <1>1, <2>1, <2>2 DEF Inv, FeedOK
<1>. QED BY <1>1, InvHolds, PTL

(* A step that takes the last group of an account is made by a request that wants
   none, or that did not run alone. *)
LEMMA StepStrips ==
  ASSUME Inv, [Next]_vars, NEW u \in DOMAIN users \cap DOMAIN users',
         users[u].groups # {}, users'[u].groups = {}
  PROVE  \E s \in Changing(u, users[u].email) : call[s].target = {} \/ ~ call[s].alone
<1>. USE DEF Inv, People
<1>0. users[u] \in Accounted /\ \A v \in DOMAIN users : users[v] \in Accounted
  BY DEF UsersOK
<1>1. ASSUME NEW s \in Sessions, NEW v \in Named(call[s].name), NEW g \in call[s].removes,
             call[s] # None, call[s].step = "groups", NextChange(call[s]) = "remove",
             users' = [users EXCEPT ![v].groups = @ \ {g}]
      PROVE  s \in Changing(u, users[u].email) /\ (call[s].target = {} \/ ~ call[s].alone)
  <2>1. u = v /\ users[u].groups \subseteq {g}
    BY <1>0, <1>1 DEF Accounted, UsersOK
  <2>2. call[s].name = u \/ call[s].name = users[u].email
    BY <1>1, <2>1 DEF Named
  <2>3. call[s].adds = {}
    BY <1>1 DEF NextChange
  <2>4. call[s].alone => call[s].target \subseteq {g} /\ call[s].removes \cap call[s].target = {}
    BY <1>1, <2>1, <2>3 DEF AloneOK, Changes, Gave
  <2>. QED BY <1>1, <2>2, <2>4 DEF Changing
<1>2. ASSUME NEW s \in Sessions, NEW v \in DOMAIN users, NEW g,
             users' = [users EXCEPT ![v].groups = @ \cup {g}]
      PROVE  FALSE
  BY <1>0, <1>2 DEF UsersOK, Accounted
<1>3. ASSUME users' = users PROVE FALSE
  BY <1>3
<1>4. CASE \E s \in Sessions : ChangesGroup(s)
  BY ZenonT(60), <1>1, <1>2, <1>3, <1>4 DEF ChangesGroup, Named
<1>5. ASSUME NEW s \in Sessions, Admin(s) PROVE FALSE
  <2>1. CASE Creates(s)
    BY <2>1 DEF Creates, With
  <2>2. CASE Switches(s)
    BY <1>0, <2>2 DEF Switches, Accounted, UsersOK
  <2>3. CASE Readdresses(s)
    BY <1>0, <2>3 DEF Readdresses, Accounted, UsersOK
  <2>. QED BY <1>3, <1>5, <2>1, <2>2, <2>3 DEF Admin, PutsGroups, Deletes
<1>6. ASSUME NEW s \in Sessions, Removes(s) PROVE FALSE
  BY <1>3, <1>6 DEF Removes, Without
<1>7. CASE \/ Midnight \/ (Feed /\ UNCHANGED own) \/ UNCHANGED vars
         \/ \E s \in Sessions : LooksUp(s) \/ Records(s) \/ RequestDies(s)
  BY <1>3, <1>7 DEF Midnight, own, vars, LooksUp, Records, RequestDies
<1>. QED BY <1>4, <1>5, <1>6, <1>7 DEF Next, Handler

(* NeverStripped for any sessions and groups: an update that runs alone never
   leaves a person without a group it was to have. *)
THEOREM NeverStrippedHolds == Spec => NeverStripped
<1>1. Inv /\ [Next]_vars =>
        [\A u \in DOMAIN users \cap DOMAIN users' :
           users[u].groups # {} /\ users'[u].groups = {} =>
              \E s \in Changing(u, users[u].email) : call[s].target = {} \/ ~call[s].alone]_vars
  BY StepStrips
<1>. QED BY <1>1, InvHolds, PTL DEF Spec, NeverStripped
====
