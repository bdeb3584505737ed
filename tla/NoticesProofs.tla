------------------------------ MODULE NoticesProofs ------------------------------
(* Proofs about Notices, for every value of its constants. *)
EXTENDS Notices, FiniteSetTheorems, WellFoundedInduction, TLAPS

(***************************************************************************)
(* Sets of naturals, and the sequence of a set.                            *)
(***************************************************************************)
(* A bounded set of naturals that is not empty has a maximum.              *)
LEMMA MaxOf ==
  ASSUME NEW n \in Nat, NEW S \in SUBSET (0..n), S # {}
  PROVE  Max(S) \in S /\ \A y \in S : y <= Max(S)
<1>. DEFINE R == OpToRel(<, Nat)
            T == {n - x : x \in S}
<1>1. IsWellFoundedOn(R, Nat) /\ T \subseteq Nat /\ T # {}
  <2>1. IsWellFoundedOn(R, Nat)
    BY NatLessThanWellFounded
  <2>2. \A x \in S : n - x \in Nat
    OBVIOUS
  <2>3. PICK x : x \in S
    OBVIOUS
  <2>4. n - x \in T
    BY <2>3
  <2>. HIDE DEF R
  <2>5. T \subseteq Nat /\ T # {}
    BY <2>2, <2>4
  <2>. QED BY <2>1, <2>5
<1>2. PICK t \in T : \A y \in T : ~ (<<y, t>> \in R)
  <2>. HIDE DEF R, T
  <2>. QED BY <1>1, WFMin
<1>3. \A y \in T : ~ (y < t)
  BY <1>1, <1>2 DEF OpToRel
<1>4. PICK x \in S : t = n - x
  BY <1>2
<1>5. \A y \in S : x >= y
  BY <1>3, <1>4
<1>6. \E z \in S : \A y \in S : z >= y
  BY <1>4, <1>5
<1>7. Max(S) \in S /\ \A y \in S : Max(S) >= y
  BY <1>6 DEF Max
<1>. QED BY <1>7

(* The same, for bounds that are numerals.                                 *)
UpTo(S, n) == S \in SUBSET (0..n)
(* The maximum of a set of naturals up to a bound is one of them and none is above
   it. *)
LEMMA MaxUpTo ==
  ASSUME NEW n \in Nat, NEW S, UpTo(S, n), S # {}
  PROVE  Max(S) \in S /\ \A y \in S : y <= Max(S)
BY MaxOf DEF UpTo

(* A finite set as a sequence: each element once, and nothing else.        *)
LEMMA SeqOfSet ==
  ASSUME NEW S, IsFiniteSet(S)
  PROVE  /\ SetToSeq(S) \in [1..Cardinality(S) -> S] /\ Cardinality(S) \in Nat
         /\ \A x \in S : \E n \in 1..Cardinality(S) : SetToSeq(S)[n] = x
         /\ \A m, n \in 1..Cardinality(S) : SetToSeq(S)[m] = SetToSeq(S)[n] => m = n
<1>. DEFINE D == 1..Cardinality(S)
<1>1. Cardinality(S) \in Nat /\ ExistsBijection(D, S)
  BY FS_CardinalityType
<1>2. PICK f \in [D -> S] : IsInjective(f)
  BY <1>1 DEF ExistsBijection, Bijection, Injection
<1>3. SetToSeq(S) \in [D -> S] /\ IsInjective(SetToSeq(S))
  BY <1>2 DEF SetToSeq
<1>. DEFINE s == SetToSeq(S)
<1>4. s \in Injection(D, S)
  BY <1>3 DEF Injection
<1>5. IsFiniteSet(D) /\ Cardinality(D) = Cardinality(S)
  BY <1>1, FS_Interval
<1>. HIDE DEF s
<1>6. s \in Surjection(D, S)
  <2>. HIDE DEF D
  <2>. QED BY <1>4, <1>5, FS_Injection
<1>7. \A x \in S : \E n \in D : s[n] = x
  BY <1>6 DEF Surjection
<1>8. \A m, n \in D : s[m] = s[n] => m = n
  BY <1>4 DEF Injection, IsInjective
<1>. QED BY <1>1, <1>3, <1>7, <1>8 DEF s

(* The only sequence of a single element. *)
LEMMA SeqOfOne ==
  ASSUME NEW x
  PROVE  SetToSeq({x}) = <<x>>
<1>1. IsFiniteSet({x}) /\ Cardinality({x}) = 1
  BY FS_Singleton
<1>2. SetToSeq({x}) \in [1..1 -> {x}]
  BY <1>1, SeqOfSet
<1>. QED BY <1>2

(***************************************************************************)
(* The list of people: notify's copy is of states the pool has had since   *)
(* the list was begun.                                                     *)
(***************************************************************************)
PoolsOK == \E S : pools \in Seq(S) /\ pools # <<>>
ListOK ==
  /\ PoolsOK /\ begun \in 1..Len(pools)
  /\ list = [state |-> list.state, admins |-> list.admins, people |-> list.people]
  /\ list.state \in {"stale", "reading", "good"}
  /\ list.state \in {"reading", "good"} => \E b \in recent : list.admins = AdminsOf(b)
  /\ list.state = "good" => list.people \in recent
Grown == pools' = pools \/ \E x : pools' = Append(pools, x)

(* A directory that grows keeps the pages that were there. *)
LEMMA PoolGrows ==
  ASSUME PoolsOK, Grown
  PROVE  /\ PoolsOK' /\ Len(pools) \in Nat /\ Len(pools') \in Nat
         /\ 1 <= Len(pools) /\ Len(pools) <= Len(pools')
         /\ \A n \in 1..Len(pools) : pools'[n] = pools[n]
<1>1. PICK S : pools \in Seq(S) /\ pools # <<>>
  BY DEF PoolsOK
<1>2. CASE pools' = pools
  BY <1>1, <1>2 DEF PoolsOK
<1>3. ASSUME NEW x, pools' = Append(pools, x)
      PROVE  /\ PoolsOK' /\ Len(pools') = Len(pools) + 1
             /\ \A n \in 1..Len(pools) : pools'[n] = pools[n]
  <2>. DEFINE T == S \union {x}
  <2>1. pools \in Seq(T) /\ x \in T
    BY <1>1
  <2>. HIDE DEF T
  <2>2. Append(pools, x) \in Seq(T) /\ Append(pools, x) # <<>>
    <3>1. Append(pools, x) \in Seq(T) /\ Len(Append(pools, x)) = Len(pools) + 1
      BY <2>1
    <3>2. Len(pools) \in Nat /\ Len(<<>>) = 0
      BY <1>1
    <3>. QED BY <3>1, <3>2
  <2>3. PoolsOK'
    BY <1>3, <2>2 DEF PoolsOK
  <2>. QED BY <1>3, <2>1, <2>3
<1>. QED BY <1>1, <1>2, <1>3 DEF Grown

(* What a listing may have seen since it began only grows while it runs. *)
LEMMA RecentGrows ==
  ASSUME PoolsOK, begun \in 1..Len(pools), Grown, begun' = begun
  PROVE  recent \subseteq recent' /\ begun' \in 1..Len(pools')
<1>1. /\ Len(pools) \in Nat /\ Len(pools') \in Nat /\ Len(pools) <= Len(pools')
      /\ \A n \in 1..Len(pools) : pools'[n] = pools[n]
  BY PoolGrows
<1>2. ASSUME NEW n \in begun..Len(pools)
      PROVE  n \in begun'..Len(pools') /\ pools'[n] = pools[n]
  BY <1>1
<1>. QED BY <1>1, <1>2 DEF recent

(* A step of the directory leaves the listing where it is. *)
LEMMA PagesForm ==
  ASSUME PagesNext
  PROVE  Grown /\ list' = list /\ begun' = begun
<1>. USE DEF Grown, Changes
<1>1. ASSUME NEW u \in Members, OpensProfile(u) \/ OpensEdit(u)
      PROVE  Grown /\ list' = list /\ begun' = begun
  BY <1>1 DEF OpensProfile, OpensEdit, Opens
<1>2. ASSUME NEW u \in Members, SavesProfile(u)
      PROVE  Grown /\ list' = list /\ begun' = begun
  BY <1>2 DEF SavesProfile
<1>3. ASSUME NEW u \in Members, Readdresses(u) \/ Confirms(u)
      PROVE  Grown /\ list' = list /\ begun' = begun
  BY <1>3 DEF Readdresses, Confirms
<1>4. CASE SavesEdit
  BY <1>4 DEF SavesEdit
<1>5. CASE SavesGroups
  BY <1>5 DEF SavesGroups
<1>. QED BY <1>1, <1>2, <1>3, <1>4, <1>5 DEF PagesNext

(* What a step does to the pool and to the list of it.                     *)
ListForm ==
  \/ Grown /\ list' = list /\ begun' = begun
  \/ ListsAdmins \/ ListsUsers \/ Expires
  \/ ListFails /\ UNCHANGED <<pools, begun>>
(* Every step moves the listing in one of the ways of ListForm. *)
LEMMA ListSteps ==
  ASSUME [Next]_vars
  PROVE  ListForm
<1>. USE DEF ListForm
<1>1. CASE UNCHANGED listVars
  BY <1>1 DEF listVars, Grown
<1>2. CASE PagesNext \/ Expires
  BY <1>2, PagesForm
<1>3. CASE NotifyNext
  <2>1. CASE Listing
    BY <2>1 DEF Listing
  <2>2. CASE Hear \/ Persist \/ BatchEnds
    BY <1>1, <2>2 DEF Hear, Persist, BatchEnds
  <2>3. CASE HearFails
    <3>1. pools' = pools /\ begun' = begun /\ (list' = list \/ ListFails)
      BY <2>3 DEF HearFails
    <3>. QED BY <3>1 DEF Grown
  <2>4. CASE HearDies
    BY <2>4 DEF HearDies
  <2>. QED BY <1>3, <2>1, <2>2, <2>3, <2>4 DEF NotifyNext
<1>. QED BY <1>1, <1>2, <1>3 DEF Next, vars

(* Every such move keeps a finished listing one of a directory since it began. *)
LEMMA ListStep ==
  ASSUME ListOK, ListForm
  PROVE  ListOK'
<1>1. PoolsOK /\ begun \in 1..Len(pools) /\ list.state \in {"stale", "reading", "good"}
      /\ list = [state |-> list.state, admins |-> list.admins, people |-> list.people]
  BY DEF ListOK
<1>2. /\ list.state \in {"reading", "good"} => \E b \in recent : list.admins = AdminsOf(b)
      /\ list.state = "good" => list.people \in recent
  BY DEF ListOK
<1>3. CASE Grown /\ list' = list /\ begun' = begun
  <2>1. PoolsOK' /\ recent \subseteq recent' /\ begun' \in 1..Len(pools')
    BY <1>1, <1>3, PoolGrows, RecentGrows
  <2>2. list.state \in {"reading", "good"} => \E b \in recent' : list.admins = AdminsOf(b)
    BY <1>2, <2>1
  <2>. QED BY <1>1, <1>2, <1>3, <2>1, <2>2 DEF ListOK
<1>4. CASE UNCHANGED <<pools, begun>> /\ (ListsUsers \/ Expires \/ ListFails)
  <2>1. PoolsOK' /\ begun' \in 1..Len(pools') /\ recent' = recent
    BY <1>1, <1>4 DEF PoolsOK, recent
  <2>2. CASE ListsUsers
    <3>1. list' = [state |-> "good", admins |-> list.admins, people |-> pool]
      BY <1>1, <2>2 DEF ListsUsers
    <3>2. pool \in recent
      <4>1. Len(pools) \in begun..Len(pools)
        BY <1>1, PoolGrows DEF Grown
      <4>. QED BY <4>1 DEF pool, recent
    <3>3. list.state = "reading"
      BY <2>2 DEF ListsUsers
    <3>. QED BY <1>2, <2>1, <3>1, <3>2, <3>3 DEF ListOK
  <2>3. CASE list' = list
    BY <1>1, <1>2, <2>1, <2>3 DEF ListOK
  <2>4. CASE list' = [list EXCEPT !.state = "stale"]
    <3>1. list' = [state |-> "stale", admins |-> list.admins, people |-> list.people]
      BY <1>1, <2>4
    <3>. QED BY <2>1, <3>1 DEF ListOK
  <2>. QED BY <1>4, <2>2, <2>3, <2>4 DEF ListFails, Expires
<1>5. CASE ListsAdmins
  <2>1. list' = [state |-> "reading", admins |-> AdminsOf(pool), people |-> <<>>]
        /\ begun' = Len(pools) /\ pools' = pools
    BY <1>5 DEF ListsAdmins
  <2>2. Len(pools) \in 1..Len(pools)
    BY <1>1, PoolGrows DEF Grown
  <2>3. pool \in recent'
    BY <2>1, <2>2 DEF pool, recent
  <2>4. PoolsOK'
    BY <1>1, <2>1 DEF PoolsOK
  <2>. QED BY <2>1, <2>2, <2>3, <2>4 DEF ListOK
<1>. QED BY <1>3, <1>4, <1>5 DEF ListForm, ListsUsers, Expires

(***************************************************************************)
(* Types, and what a write of a row does.                                  *)
(***************************************************************************)
Row ==
  [spend : Nat, reqs : SUBSET Requests, unpriced : Nat, last : 0..MaxDay,
   marked : BOOLEAN, regions : [Regions -> Nat], fixes : {{}}, fix : {Nil}, fixDay : {0},
   stamp : Nat, notified : Nat, restored : BOOLEAN]
Image == [item : Items, old : Row, new : Row]
Percent == 0..1000
TypeOK ==
  /\ rows \in [Items -> Row] /\ stream \in Seq(Image) /\ stamps \in Nat /\ faults \in Nat
  /\ heard \in 0..Len(stream) /\ note \in Percent /\ (note > 0 => heard < Len(stream))

(* Percentages are numbers. *)
LEMMA PercentNat == Percent \subseteq Nat
BY DEF Percent

(* A row that is not there is a row.                                       *)
LEMMA NoRowTyped == NoRow \in Row
BY TableAssumption DEF NoRow, Row

(* So is one of those the table starts with.                               *)
LEMMA OldRowTyped ==
  ASSUME NEW i \in DOMAIN OldRows
  PROVE  OldRows[i] \in Row /\ OldRows[i].notified = 0
<1>. DEFINE r == OldRows[i]
<1>1. r \in [spend : Nat, reqs : SUBSET Requests, unpriced : Nat, last : 0..MaxDay,
            marked : BOOLEAN, regions : [Regions -> Nat], fixes : {{}}, fix : {Nil},
            fixDay : {0}, stamp : {0}, notified : {0}, restored : BOOLEAN]
  BY OldRowsAssumption
<1>. HIDE DEF r
<1>2. r \in Row /\ r.notified = 0
  BY <1>1 DEF Row
<1>. QED BY <1>2 DEF r

(* A write of one row sets it and puts its record at the stream's end.     *)
Touched(i, s) ==
  /\ rows' = [rows EXCEPT ![i] = s]
  /\ stream' = Append(stream, [item |-> i, old |-> rows[i], new |-> s])
(* A conditional write touches one row and appends its images to the stream. *)
LEMMA OneWrite ==
  ASSUME TypeOK, NEW i \in Items, NEW s, WriteOne(i, s)
  PROVE  Touched(i, s)
<1>. DEFINE new == [j \in {i} |-> s]
            rec == [item |-> i, old |-> rows[i], new |-> s]
<1>1. DOMAIN new = {i} /\ new[i] = s
  OBVIOUS
<1>2. Write(new)
  BY DEF WriteOne
<1>. HIDE DEF new
<1>3. SetToSeq(DOMAIN new) = <<i>>
  BY <1>1, SeqOfOne
<1>4. Records(new) = <<rec>>
  <2>1. Records(new) = [n \in DOMAIN <<i>> |-> [item |-> <<i>>[n], old |-> rows[<<i>>[n]], new |-> new[<<i>>[n]]]]
    BY <1>3 DEF Records
  <2>2. DOMAIN <<i>> = 1..1 /\ \A n \in 1..1 : <<i>>[n] = i
    OBVIOUS
  <2>3. Records(new) = [n \in 1..1 |-> rec]
    BY <1>1, <2>1, <2>2
  <2>. HIDE DEF rec
  <2>. QED BY <2>3
<1>5. rows' = [j \in Items |-> IF j \in {i} THEN s ELSE rows[j]] /\ stream' = stream \o Records(new)
  BY <1>1, <1>2 DEF Write
<1>6. rows \in [Items -> Row] /\ stream \in Seq(Image)
  BY DEF TypeOK
<1>7. rows' = [rows EXCEPT ![i] = s]
  BY <1>5, <1>6
<1>8. stream' = Append(stream, rec)
  <2>. HIDE DEF rec
  <2>. QED BY <1>4, <1>5, <1>6
<1>. QED BY <1>7, <1>8 DEF Touched

(* And leaves rows and stream typed.                                       *)
LEMMA TouchedTyped ==
  ASSUME TypeOK, NEW i \in Items, NEW s \in Row, Touched(i, s)
  PROVE  /\ rows' \in [Items -> Row] /\ stream' \in Seq(Image) 
         /\ \A j \in Items : rows'[j] = IF j = i THEN s ELSE rows[j]
         /\ Len(stream) \in Nat /\ Len(stream') = Len(stream) + 1
         /\ \A n \in 1..Len(stream) : stream'[n] = stream[n]
         /\ stream'[Len(stream) + 1].item = i /\ stream'[Len(stream) + 1].new = s
<1>. DEFINE rec == [item |-> i, old |-> rows[i], new |-> s]
<1>1. rows \in [Items -> Row] /\ stream \in Seq(Image) /\ rec \in Image
  BY DEF TypeOK, Image
<1>2. rec.item = i /\ rec.new = s /\ stream' = Append(stream, rec)
  BY DEF Touched
<1>. HIDE DEF rec
<1>. QED BY <1>1, <1>2 DEF Touched

(* A request's items are items.                                            *)
LEMMA RequestItems ==
  ASSUME NEW q \in Requests
  PROVE  ItemsOf(q) \subseteq Items
BY DEF Items

(***************************************************************************)
(* The steps, by what they do to the rows: nothing, or a write that adds   *)
(* to the spend or that notes a threshold.                                 *)
(***************************************************************************)
Adds(i, s) ==
  /\ i \in Items /\ s \in Row /\ Touched(i, s)
  /\ s.spend >= rows[i].spend /\ s.notified = rows[i].notified
  /\ UNCHANGED <<faults, heard, note, mails, struck, due, pools, begun>> /\ stamps' \in Nat
(* The table's own steps add to the spend or leave rows and stream alone.  *)
LEMMA TableForm ==
  ASSUME TypeOK, TableNext, UNCHANGED <<notifyVars, listVars>>
  PROVE  \/ UNCHANGED <<rows, stream, stamps, faults, notifyVars, listVars>>
         \/ \E i, s : Adds(i, s)
<1>. USE DEF notifyVars, listVars
<1>0. rows \in [Items -> Row] /\ stamps \in Nat
  BY DEF TypeOK
<1>1. CASE NextDay
  BY <1>1 DEF NextDay
<1>2. ASSUME NEW q \in Requests, NEW i \in ItemsOf(q), MeterWrites(q, i)
      PROVE  \E s : Adds(i, s)
  <2>. DEFINE r == rows[i]
              usd == IF q \in NoPrice THEN 0 ELSE Req[q].usd
              one == IF q \in NoPrice THEN 1 ELSE 0
              g == [r.regions EXCEPT ![Req[q].region] = @ + usd]
              s == [r EXCEPT !.reqs = @ \union {q}, !.last = Req[q].day,
                   !.marked = @ \/ i[1] = Req[q].lens,
                   !.spend = @ + usd, !.regions[Req[q].region] = @ + usd,
                   !.unpriced = @ + one]
              marked == r.marked \/ i[1] = Req[q].lens
              z == [r EXCEPT !.reqs = @ \union {q}, !.last = Req[q].day,
                   !.marked = marked,
                   !.spend = @ + usd, !.regions = g,
                   !.unpriced = @ + one]
  <2>1. i \in Items /\ r \in Row
    BY <1>0, RequestItems
  <2>2. WriteOne(i, s) /\ UNCHANGED <<today, stamps, faults>>
    BY <1>2 DEF MeterWrites
  <2>3. usd \in Nat /\ one \in Nat /\ Req[q].day \in 0..MaxDay /\ Req[q].region \in Regions
    BY RequestsAssumption, TableAssumption
  <2>. HIDE DEF usd, one
  <2>4. s = z
    BY <2>1 DEF Row
  <2>5. g \in [Regions -> Nat]
    BY <2>1, <2>3 DEF Row
  <2>. HIDE DEF g, r, marked
  <2>6. z \in Row /\ z.spend = r.spend + usd /\ z.notified = r.notified /\ r.spend \in Nat
    <3>1. marked \in BOOLEAN
      BY <2>1 DEF marked, Row
    <3>2. /\ r.spend \in Nat /\ r.spend + usd \in Nat /\ r.unpriced + one \in Nat
          /\ r.reqs \union {q} \in SUBSET Requests
      BY <2>1, <2>3 DEF Row
    <3>. QED BY <2>1, <2>3, <2>5, <3>1, <3>2 DEF Row
  <2>. HIDE DEF z
  <2>7. Touched(i, z)
    BY <2>1, <2>2, <2>4, OneWrite
  <2>8. Adds(i, z)
    BY <1>0, <2>1, <2>2, <2>3, <2>6, <2>7 DEF Adds, r
  <2>. QED BY <2>8
<1>3. ASSUME NEW i \in Items, EnforcementStamps(i) \/ StampCleared(i)
      PROVE  \E s : Adds(i, s)
  <2>0. stamps + 1 \in Nat /\ 0 \in Nat
    BY <1>0
  <2>1. PICK n \in Nat : WriteOne(i, [rows[i] EXCEPT !.stamp = n])
    BY <2>0, <1>3 DEF EnforcementStamps, StampCleared
  <2>. DEFINE r == rows[i]
              s == [r EXCEPT !.stamp = n]
  <2>2. r \in Row
    BY <1>0
  <2>3. s \in Row /\ s.spend = r.spend /\ s.notified = r.notified /\ s.spend \in Nat
    BY <2>2 DEF Row
  <2>4. WriteOne(i, s)
    BY <2>1
  <2>5. faults' = faults /\ stamps' \in Nat
    BY <1>0, <1>3 DEF EnforcementStamps, StampCleared
  <2>. HIDE DEF s
  <2>6. Touched(i, s)
    BY <2>4, OneWrite
  <2>7. Adds(i, s)
    BY <2>3, <2>5, <2>6 DEF Adds
  <2>. QED BY <2>7
<1>. QED BY <1>1, <1>2, <1>3 DEF TableNext

(* What notify persists is the threshold it has mailed.                    *)
Noted(i) == [rows[i] EXCEPT !.notified = note]
(* The notified level is only raised, by a write to the row the record is about. *)
LEMMA NotedTyped ==
  ASSUME TypeOK, Persist
  PROVE  LET i == stream[heard + 1].item IN
         /\ i \in Items /\ heard + 1 \in 1..Len(stream) /\ stream[heard + 1] \in Image
         /\ Noted(i) \in Row /\ Noted(i).spend = rows[i].spend /\ Noted(i).notified = note
         /\ Noted(i).reqs = rows[i].reqs
         /\ IF rows[i].notified < note THEN Touched(i, Noted(i)) ELSE rows' = rows /\ stream' = stream
<1>. DEFINE i == stream[heard + 1].item
<1>0. rows \in [Items -> Row] /\ note \in Nat /\ stream \in Seq(Image)
  BY DEF TypeOK, Percent
<1>1. heard + 1 \in 1..Len(stream)
  <2>1. note \in Nat /\ note # 0 /\ Len(stream) \in Nat /\ heard \in 0..Len(stream)
        /\ (note > 0 => heard < Len(stream))
    BY <1>0 DEF TypeOK, Persist
  <2>. QED BY <2>1
<1>2. stream[heard + 1] \in Image
  BY <1>0, <1>1
<1>3. i \in Items
  BY <1>2 DEF Image
<1>4. IF rows[i].notified < note THEN WriteOne(i, Noted(i)) ELSE rows' = rows /\ stream' = stream
  BY DEF Persist, Noted
<1>. HIDE DEF i
<1>5. /\ Noted(i) \in Row /\ Noted(i).spend = rows[i].spend /\ Noted(i).notified = note
      /\ Noted(i).reqs = rows[i].reqs
  BY <1>0, <1>3 DEF Noted, Row
<1>6. rows[i].notified < note => Touched(i, Noted(i))
  BY <1>3, <1>4, OneWrite
<1>. QED BY <1>1, <1>2, <1>3, <1>4, <1>5, <1>6 DEF i

(***************************************************************************)
(* Thresholds.                                                             *)
(***************************************************************************)
Limit(i) == Budget[<<i[1], i[2]>>].limit
Warns(i) == Budget[<<i[1], i[2]>>].warns
Met(i, spend) == {w \in Warns(i) : 100 * spend >= w * Limit(i)}
Top(i, spend) == Max({0} \union Met(i, spend))

(* An eligible budget has a limit and percentages.                         *)
LEMMA EligibleBudget ==
  ASSUME NEW i \in Items, Eligible(i)
  PROVE  Limit(i) \in Nat \ {0} /\ Warns(i) \in SUBSET (1..1000)
<1>. DEFINE b == Budget[<<i[1], i[2]>>]
<1>1. b # Nil /\ b.limit > 0
  BY DEF Eligible
<1>2. b = Nil \/ b \in [limit : Nat, warns : SUBSET (1..1000), enabled : BOOLEAN]
  BY BudgetAssumption
<1>. HIDE DEF b
<1>3. b.limit \in Nat \ {0} /\ b.warns \in SUBSET (1..1000)
  BY <1>1, <1>2
<1>. QED BY <1>3 DEF Limit, Warns, b

(* The highest threshold that a spend has met, which is 0 if it has met    *)
(* none.                                                                   *)
LEMMA TopFacts ==
  ASSUME NEW i \in Items, Eligible(i), NEW s \in Nat
  PROVE  /\ Top(i, s) \in Percent
         /\ Top(i, s) = 0 \/ Top(i, s) \in Met(i, s)
         /\ \A w \in Met(i, s) : w <= Top(i, s)
<1>. DEFINE S == {0} \union Met(i, s)
<1>1. Met(i, s) \in SUBSET (1..1000)
  BY EligibleBudget DEF Met
<1>. DEFINE t == Max(S)
<1>2. UpTo(S, 1000) /\ S # {} /\ 1000 \in Nat
  BY <1>1 DEF UpTo
<1>. HIDE DEF S
<1>3. t \in S /\ \A y \in S : y <= t
  BY <1>2, MaxUpTo
<1>4. Top(i, s) = t
  BY DEF Top, S
<1>. HIDE DEF t
<1>5. t \in Percent
  BY <1>2, <1>3 DEF UpTo, Percent
<1>6. t = 0 \/ t \in Met(i, s)
  BY <1>3 DEF S
<1>7. \A w \in Met(i, s) : w <= t
  BY <1>3 DEF S
<1>. QED BY <1>4, <1>5, <1>6, <1>7

(* A greater spend has met no fewer.                                       *)
LEMMA TopRises ==
  ASSUME NEW i \in Items, Eligible(i), NEW s \in Nat, NEW t \in Nat, s <= t
  PROVE  Top(i, s) <= Top(i, t)
<1>1. Met(i, s) \subseteq Met(i, t)
  <2>1. \A w \in Warns(i) : w * Limit(i) \in Nat
    BY EligibleBudget
  <2>. QED BY <2>1 DEF Met
<1>2. Top(i, s) = 0 \/ Top(i, s) \in Met(i, s)
  BY TopFacts
<1>3. Top(i, t) \in Percent /\ \A w \in Met(i, t) : w <= Top(i, t)
  BY TopFacts
<1>. QED BY <1>1, <1>2, <1>3 DEF Percent

(* A spend of nothing has met none.                                        *)
LEMMA TopOfNothing ==
  ASSUME NEW i \in Items, Eligible(i)
  PROVE  Top(i, 0) = 0
<1>1. Limit(i) \in Nat \ {0} /\ Warns(i) \in SUBSET (1..1000)
  BY EligibleBudget
<1>2. \A w \in 1..1000, l \in Nat \ {0} : ~ (100 * 0 >= w * l)
  OBVIOUS
<1>3. Met(i, 0) = {}
  BY <1>1, <1>2 DEF Met
<1>. QED BY <1>3, TopFacts

(* What notify mails about a record: the highest threshold its image has   *)
(* met, provided that is higher than the one it was last notified of.      *)
LEMMA ThresholdFacts ==
  ASSUME NEW rec \in Image
  PROVE  /\ Threshold(rec) \in Percent
         /\ Threshold(rec) > 0 =>
              /\ ~Silent(rec) /\ ~JustFired(rec) /\ Eligible(rec.item)
              /\ Threshold(rec) = Top(rec.item, rec.new.spend)
              /\ Threshold(rec) > rec.new.notified
         /\ ~Silent(rec) /\ ~JustFired(rec) /\ Threshold(rec) = 0 =>
              Top(rec.item, rec.new.spend) <= rec.new.notified
<1>. DEFINE i == rec.item
            r == rec.new
            M == Met(i, r.spend)
            C == {w \in M : w > r.notified}
<1>1. i \in Items /\ r \in Row /\ r.spend \in Nat /\ r.notified \in Nat
  BY DEF Image, Row
<1>2. CASE Silent(rec) \/ JustFired(rec)
  <2>1. Threshold(rec) = 0
    BY <1>2 DEF Threshold, Fired
  <2>. QED BY <1>2, <2>1 DEF Percent
<1>3. CASE ~Silent(rec) /\ ~JustFired(rec)
  <2>1. Eligible(i)
    BY <1>3 DEF Silent
  <2>2. Threshold(rec) = Max({0} \union C)
    <3>1. C = {w \in Warns(i) : 100 * r.spend >= w * Limit(i) /\ w > r.notified}
      BY DEF Met
    <3>. QED BY <1>3, <3>1 DEF Threshold, Fired, Crossed, Warns, Limit
  <2>3. M \in SUBSET (1..1000)
    BY <1>1, <2>1, EligibleBudget DEF Met
  <2>4. /\ Top(i, r.spend) \in Percent
        /\ Top(i, r.spend) = 0 \/ Top(i, r.spend) \in M
        /\ \A w \in M : w <= Top(i, r.spend)
    BY <1>1, <2>1, TopFacts
  <2>. DEFINE S == {0} \union C
  <2>. DEFINE top == Top(i, r.spend)
  <2>13. top \in Percent /\ (top = 0 \/ top \in M) /\ \A w \in M : w <= top
    BY <2>4
  <2>. HIDE DEF M, top
  <2>12. r.notified \in Nat
    BY <1>1
  <2>16. M \subseteq 1..1000
    BY <2>3
  <2>17. \A x \in S : x \in 0..1000
    BY <2>16
  <2>18. 0 \in S
    OBVIOUS
  <2>. HIDE DEF S
  <2>5. UpTo(S, 1000) /\ S # {} /\ 1000 \in Nat
    BY <2>17, <2>18 DEF UpTo
  <2>6. Max(S) \in S /\ \A y \in S : y <= Max(S)
    BY <2>5, MaxUpTo
  <2>. DEFINE t == Max(S)
  <2>7. Threshold(rec) = t
    BY <2>2 DEF S
  <2>. HIDE DEF t
  <2>8. t \in S /\ \A y \in S : y <= t
    BY <2>6 DEF t
  <2>9. t \in Percent
    BY <2>5, <2>8 DEF Percent, UpTo
  <2>14. \A w \in S : w = 0 \/ (w \in M /\ w > r.notified)
    BY DEF S
  <2>15. \A w \in M : w > r.notified => w \in S
    BY DEF S
  <2>10. t > 0 => t = top /\ t > r.notified
    <3>1. ASSUME t > 0 PROVE t \in M /\ t > r.notified /\ t <= top
      BY <2>8, <2>9, <2>13, <2>14, <3>1 DEF Percent
    <3>2. ASSUME t > 0 PROVE top <= t
      BY <3>1, <3>2, <2>8, <2>9, <2>12, <2>13, <2>15 DEF Percent
    <3>. QED BY <3>1, <3>2, <2>9, <2>13 DEF Percent
  <2>11. t = 0 => top <= r.notified
    <3>1. ASSUME t = 0, top > r.notified PROVE FALSE
      BY <3>1, <2>8, <2>12, <2>13, <2>15 DEF Percent
    <3>. QED BY <3>1, <2>12, <2>13 DEF Percent
  <2>. QED BY <1>3, <2>1, <2>7, <2>9, <2>10, <2>11 DEF top
<1>. QED BY <1>2, <1>3

(***************************************************************************)
(* Whom notify mails is whom the pages show it should.                     *)
(***************************************************************************)
(* While no floor is set, the floor that notify derives from the old       *)
(* toggles is the one the pages show.                                      *)
LEMMA FloorShown ==
  ASSUME NEW a
  PROVE  Floor(a) = ShownFloor(a)
<1>. DEFINE S == {Never} \union {t \in Toggles : t \notin a.off}
            f == LegacyFloor(a.off)
<1>1. f \in S /\ \A y \in S : f <= y
  BY DEF LegacyFloor, Never, Toggles
<1>2. S \subseteq Nat
  BY DEF Never, Toggles
<1>3. Min(S) = f
  <2>. HIDE DEF S, f
  <2>. DEFINE m == Min(S)
  <2>1. m \in S /\ \A y \in S : m <= y
    BY <1>1 DEF Min
  <2>. HIDE DEF m
  <2>2. m <= f /\ f <= m /\ m \in Nat /\ f \in Nat
    BY <1>1, <1>2, <2>1
  <2>3. m = f
    BY <2>2
  <2>. QED BY <2>3 DEF m
<1>. QED BY <1>3 DEF Floor, ShownFloor

About(rec) == IF Silent(rec) THEN {} ELSE IF JustFired(rec) THEN {0} ELSE {Threshold(rec)} \ {0}
(* The mails of a record are those of everyone it concerns in the directories the
   list may come from. *)
LEMMA Heard ==
  ASSUME ListOK, NEW rec \in Image, NeedsList(rec) => list.state = "good", NEW m \in Mails
  PROVE  /\ m \in MailsFor(rec) =>
              /\ m.item = rec.item /\ m.about \in About(rec)
              /\ \E a, b \in recent : Concerns(m, a, b)
         /\ m.item = rec.item /\ m.about \in About(rec) /\ (\A a, b \in recent : Concerns(m, a, b)) =>
              m \in MailsFor(rec)
<1>. DEFINE i == rec.item
            t == Threshold(rec)
<1>1. m = [item |-> m.item, about |-> m.about, to |-> m.to]
  BY DEF Mails
<1>2. t \in Percent
  BY ThresholdFacts
<1>3. CASE ~Silent(rec) /\ JustFired(rec)
  <2>1. list.state = "good" /\ About(rec) = {0}
    BY <1>3 DEF NeedsList, Fired, About
  <2>2. PICK b \in recent : list.admins = AdminsOf(b)
    BY <2>1 DEF ListOK
  <2>3. list.people \in recent
    BY <2>1 DEF ListOK
  <2>. DEFINE to == DenyTo(i, list.admins, list.people)
  <2>4. MailsFor(rec) = [item : {i}, about : {0}, to : to]
    BY <1>3 DEF MailsFor, Fired
  <2>5. m.about = 0 => (Concerns(m, list.people, b) <=> m.to \in DenyTo(m.item, list.admins, list.people))
    BY <2>2 DEF Concerns
  <2>. HIDE DEF to
  <2>6. m \in MailsFor(rec) <=> m.item = i /\ m.about = 0 /\ m.to \in to
    BY <1>1, <2>4
  <2>. QED BY <2>1, <2>2, <2>3, <2>5, <2>6 DEF to
<1>4. CASE ~Silent(rec) /\ ~JustFired(rec) /\ t > 0
  <2>1. list.state = "good" /\ About(rec) = {t}
    BY <1>4, <1>2 DEF NeedsList, About, Percent
  <2>3. list.people \in recent
    BY <2>1 DEF ListOK
  <2>. DEFINE to == WarnTo(i, t, list.people)
  <2>4. MailsFor(rec) = [item : {i}, about : {t}, to : to]
    BY <1>4 DEF MailsFor, Fired
  <2>5. ASSUME m.item = i, m.about = t
        PROVE  Concerns(m, list.people, list.people) <=> m.to \in to
    <3>1. Floor(list.people[m.to]) = ShownFloor(list.people[m.to])
      BY FloorShown
    <3>2. t # 0
      BY <1>4
    <3>. QED BY <2>5, <3>1, <3>2 DEF Concerns, WarnTo
  <2>. HIDE DEF to
  <2>6. m \in MailsFor(rec) <=> m.item = i /\ m.about = t /\ m.to \in to
    BY <1>1, <2>4
  <2>. QED BY <2>1, <2>3, <2>5, <2>6
<1>5. CASE Silent(rec) \/ (~JustFired(rec) /\ ~(t > 0))
  <2>1. t = 0
    <3>1. CASE Silent(rec)
      BY <3>1 DEF Threshold
    <3>2. CASE ~(t > 0)
      <4>1. t \in 0..1000
        BY <1>2 DEF Percent
      <4>. HIDE DEF t
      <4>. QED BY <3>2, <4>1
    <3>. QED BY <1>5, <3>1, <3>2
  <2>2. MailsFor(rec) = {} /\ About(rec) = {}
    BY <1>5, <2>1 DEF MailsFor, Fired, About
  <2>. QED BY <2>2
<1>. QED BY <1>3, <1>4, <1>5

(***************************************************************************)
(* notify's steps, and the types.                                          *)
(***************************************************************************)
(* What is left of the stream when a batch ends.                           *)
LEMMA RestOfStream ==
  ASSUME TypeOK, BatchEnds
  PROVE  /\ stream' \in Seq(Image) /\ heard \in Nat /\ heard <= Len(stream)
         /\ Len(stream) \in Nat /\ Len(stream') = Len(stream) - heard
         /\ \A n \in 1..Len(stream') : n + heard \in 1..Len(stream) /\ stream'[n] = stream[n + heard]
<1>1. stream \in Seq(Image) /\ heard \in 0..Len(stream) /\ Len(stream) \in Nat
  BY DEF TypeOK
<1>2. stream' = SubSeq(stream, heard + 1, Len(stream))
  BY DEF BatchEnds
<1>3. heard \in Nat /\ heard <= Len(stream)
  BY <1>1
<1>4. Len(stream') = Len(stream) - heard
  BY <1>1, <1>2, <1>3
<1>5. \A n \in 1..Len(stream') : n + heard \in 1..Len(stream) /\ stream'[n] = stream[n + heard]
  BY <1>1, <1>2, <1>3, <1>4
<1>6. stream' \in Seq(Image)
  <2>1. \A n \in 1..Len(stream') : stream'[n] \in Image
    BY <1>1, <1>5
  <2>2. stream' = [n \in 1..Len(stream') |-> stream'[n]] /\ Len(stream') \in Nat
    BY SMTT(60), <1>1, <1>2, <1>3, <1>4
  <2>. QED BY <2>1, <2>2
<1>. QED BY <1>1, <1>3, <1>4, <1>5, <1>6

(* Notify reads a record, and mails everybody, or some of them.            *)
Turn(rec, sent) ==
  /\ heard < Len(stream) /\ rec = stream[heard + 1] /\ rec \in Image
  /\ NeedsList(rec) => list.state = "good"
  /\ sent \in SUBSET MailsFor(rec) /\ Sends(sent) /\ Reads(rec)
  /\ UNCHANGED <<rows, stream, stamps, pools, begun>>
Heeds(rec) ==
  /\ Turn(rec, MailsFor(rec)) /\ UNCHANGED <<faults, list>> /\ note = 0
  /\ note' = Threshold(rec) /\ heard' = IF note' > 0 THEN heard ELSE heard + 1
Falters ==
  /\ faults' = faults + 1
  /\ \/ \E rec, sent : Turn(rec, sent) /\ note' = 0 /\ heard' = heard + 1
     \/ /\ UNCHANGED <<mails, struck, due, rows, stream, stamps, pools, begun>>
        /\ note' = 0 /\ (heard' = 0 \/ (heard < Len(stream) /\ heard' = heard + 1))
Waits == UNCHANGED <<rows, stream, stamps, faults, notifyVars>>
(* The next record is one of the stream. *)
LEMMA RecordHere ==
  ASSUME TypeOK, heard < Len(stream)
  PROVE  heard + 1 \in 1..Len(stream) /\ stream[heard + 1] \in Image
<1>1. stream \in Seq(Image) /\ heard \in 0..Len(stream) /\ Len(stream) \in Nat
  BY DEF TypeOK
<1>2. heard + 1 \in 1..Len(stream)
  BY <1>1
<1>. QED BY <1>1, <1>2

(* The forms of a step.                                                    *)
Form == Waits \/ (\E i, s : Adds(i, s)) \/ (\E rec : Heeds(rec)) \/ Falters \/ Persist \/ BatchEnds
(* Every step has one of the shapes of Form. *)
LEMMA Forms ==
  ASSUME TypeOK, [Next]_vars
  PROVE  Form
<1>. USE DEF Form
<1>1. CASE UNCHANGED vars
  BY <1>1 DEF vars, tableVars, Waits
<1>2. CASE TableNext /\ UNCHANGED <<notifyVars, listVars>>
  BY <1>2, TableForm DEF Waits
<1>3. CASE UNCHANGED <<tableVars, notifyVars>>
  BY <1>3 DEF tableVars, Waits
<1>4. CASE Hear
  <2>. DEFINE rec == stream[heard + 1]
  <2>1. rec \in Image /\ heard < Len(stream) /\ note = 0
    BY <1>4, RecordHere DEF Hear
  <2>2. Heeds(rec)
    BY <1>4, <2>1 DEF Hear, Heeds, Turn, tableVars, listVars
  <2>. QED BY <2>2
<1>5. CASE HearFails
  <2>. DEFINE rec == stream[heard + 1]
  <2>1. rec \in Image /\ heard < Len(stream)
    BY <1>5, RecordHere DEF HearFails
  <2>2. faults' = faults + 1 /\ note' = 0 /\ heard' = heard + 1
        /\ UNCHANGED <<rows, stream, stamps, pools, begun>>
    BY <1>5 DEF HearFails
  <2>3. CASE UNCHANGED <<mails, struck, due>>
    BY <2>1, <2>2, <2>3 DEF Falters
  <2>4. CASE ~(note > 0) /\ ~(NeedsList(rec) /\ list.state # "good")
    <3>1. PICK sent \in SUBSET MailsFor(rec) : Sends(sent)
      BY <1>5, <2>4 DEF HearFails
    <3>2. Reads(rec)
      BY <1>5, <2>4 DEF HearFails
    <3>3. Turn(rec, sent)
      BY <2>1, <2>2, <2>4, <3>1, <3>2 DEF Turn
    <3>. QED BY <2>2, <3>3 DEF Falters
  <2>. QED BY <1>5, <2>3, <2>4 DEF HearFails
<1>6. CASE HearDies
  BY <1>6 DEF HearDies, Falters
<1>7. CASE Listing
  BY <1>7 DEF Listing, Waits, tableVars
<1>. QED BY <1>1, <1>2, <1>3, <1>4, <1>5, <1>6, <1>7 DEF Next, NotifyNext

(* Steps keep the types.                                                   *)
LEMMA TypeStep ==
  ASSUME TypeOK, Form
  PROVE  TypeOK'
<1>0. /\ rows \in [Items -> Row] /\ stream \in Seq(Image) /\ stamps \in Nat /\ faults \in Nat
      /\ heard \in 0..Len(stream) /\ note \in Percent /\ (note > 0 => heard < Len(stream))
      /\ Len(stream) \in Nat
  BY DEF TypeOK
<1>1. CASE Waits
  BY <1>0, <1>1 DEF Waits, notifyVars, TypeOK
<1>2. ASSUME NEW i, NEW s, Adds(i, s)
      PROVE  TypeOK'
  <2>1. /\ rows' \in [Items -> Row] /\ stream' \in Seq(Image) /\ Len(stream') = Len(stream) + 1
    BY <1>2, TouchedTyped DEF Adds
  <2>2. stamps' \in Nat /\ faults' = faults /\ heard' = heard /\ note' = note
    BY <1>2 DEF Adds
  <2>. QED BY <1>0, <2>1, <2>2 DEF TypeOK
<1>3. ASSUME NEW rec, Heeds(rec)
      PROVE  TypeOK'
  <2>1. rec \in Image /\ heard < Len(stream) /\ UNCHANGED <<rows, stream, stamps, faults>>
    BY <1>3 DEF Heeds, Turn
  <2>2. note' \in Percent
    BY <1>3, <2>1, ThresholdFacts DEF Heeds
  <2>3. heard' = heard \/ (heard' = heard + 1 /\ ~(note' > 0))
    BY <1>3 DEF Heeds
  <2>. QED BY <1>0, <2>1, <2>2, <2>3 DEF TypeOK
<1>4. CASE Falters
  <2>1. UNCHANGED <<rows, stream, stamps>> /\ faults' = faults + 1 /\ note' = 0
        /\ (heard' = 0 \/ (heard < Len(stream) /\ heard' = heard + 1))
    BY <1>4 DEF Falters, Turn
  <2>2. 0 \in Percent
    BY DEF Percent
  <2>. QED BY <1>0, <2>1, <2>2 DEF TypeOK
<1>5. CASE Persist
  <2>. DEFINE i == stream[heard + 1].item
  <2>1. /\ i \in Items /\ heard + 1 \in 1..Len(stream) /\ Noted(i) \in Row
        /\ IF rows[i].notified < note THEN Touched(i, Noted(i)) ELSE rows' = rows /\ stream' = stream
    BY <1>5, NotedTyped
  <2>2. stamps' = stamps /\ faults' = faults /\ heard' = heard + 1 /\ note' = 0 /\ 0 \in Percent
    BY <1>5 DEF Persist, Percent
  <2>. HIDE DEF i
  <2>3. rows' \in [Items -> Row] /\ stream' \in Seq(Image)
        /\ (Len(stream') = Len(stream) \/ Len(stream') = Len(stream) + 1)
    BY <1>0, <2>1, TouchedTyped
  <2>. QED BY <1>0, <2>1, <2>2, <2>3 DEF TypeOK
<1>6. CASE BatchEnds
  <2>1. stream' \in Seq(Image) /\ heard' = 0 /\ note' = note /\ note = 0
        /\ UNCHANGED <<rows, stamps, faults>> /\ Len(stream') \in Nat
    BY <1>6, RestOfStream DEF BatchEnds
  <2>. QED BY <1>0, <2>1 DEF TypeOK
<1>. QED BY <1>1, <1>2, <1>3, <1>4, <1>5, <1>6 DEF Form

(***************************************************************************)
(* What was mailed, against what notify read.                              *)
(***************************************************************************)
Due == [most : Nat, least : Nat]
MailedOK ==
  /\ mails \in [Mails -> Nat] /\ due \in [Mails -> Due]
  /\ \A m \in Mails :
       /\ mails[m] <= due[m].most
       /\ faults = 0 => mails[m] >= due[m].least

(* A reading of a record adds to both sides.                               *)
LEMMA MailCounts ==
  ASSUME MailedOK, NEW m \in Mails
  PROVE  mails[m] <= due[m].most /\ (faults = 0 => mails[m] >= due[m].least)
BY DEF MailedOK
(* A turn of the notifier without a fault has sent the mails of each record it
   passed. *)
LEMMA TurnStep ==
  ASSUME ListOK, MailedOK, NEW rec, NEW sent, Turn(rec, sent),
         faults' = 0 => faults = 0 /\ sent = MailsFor(rec)
  PROVE  MailedOK'
<1>. DEFINE bit(b) == IF b THEN 1 ELSE 0
            A == About(rec)
            some(m) == \E a, b \in recent : Concerns(m, a, b)
            all(m) == \A a, b \in recent : Concerns(m, a, b)
<1>1. rec \in Image /\ (NeedsList(rec) => list.state = "good") /\ sent \in SUBSET MailsFor(rec)
  BY DEF Turn
<1>2. mails' = [m \in Mails |-> mails[m] + bit(m \in sent)]
  BY DEF Turn, Sends
<1>3. due' = [m \in Mails |-> IF m.item # rec.item \/ m.about \notin A THEN due[m] ELSE
               [most |-> due[m].most + bit(some(m)), least |-> due[m].least + bit(all(m))]]
  BY DEF Turn, Reads, About
<1>4. ASSUME NEW m \in Mails
      PROVE  /\ m \in MailsFor(rec) => m.item = rec.item /\ m.about \in A /\ some(m)
             /\ m.item = rec.item /\ m.about \in A /\ all(m) => m \in MailsFor(rec)
  BY <1>1, Heard
<1>. HIDE DEF A, some, all
<1>5. ASSUME NEW m \in Mails
      PROVE  /\ mails'[m] \in Nat /\ due'[m] \in Due
             /\ mails'[m] <= due'[m].most /\ (faults' = 0 => mails'[m] >= due'[m].least)
  <2>6. mails[m] \in Nat /\ due[m] \in Due
    BY DEF MailedOK
  <2>7. mails[m] <= due[m].most /\ (faults = 0 => mails[m] >= due[m].least)
    BY MailCounts
  <2>1. mails[m] \in Nat /\ due[m] \in Due /\ mails[m] <= due[m].most
        /\ (faults = 0 => mails[m] >= due[m].least)
    BY <2>6, <2>7
  <2>2. due[m].most \in Nat /\ due[m].least \in Nat
    BY <2>1 DEF Due
  <2>3. mails'[m] = mails[m] + bit(m \in sent)
    BY <1>2
  <2>4. CASE m.item # rec.item \/ m.about \notin A
    <3>1. due'[m] = due[m]
      BY <1>3, <2>4
    <3>2. m \notin sent
      BY <1>1, <1>4, <2>4
    <3>. QED BY <2>1, <2>2, <2>3, <3>1, <3>2
  <2>5. CASE m.item = rec.item /\ m.about \in A
    <3>1. due'[m] = [most |-> due[m].most + bit(some(m)), least |-> due[m].least + bit(all(m))]
      BY <1>3, <2>5
    <3>2. due'[m] \in Due /\ due'[m].most = due[m].most + bit(some(m))
          /\ due'[m].least = due[m].least + bit(all(m))
      <4>1. due[m].most + bit(some(m)) \in Nat /\ due[m].least + bit(all(m)) \in Nat
        BY <2>2
      <4>. HIDE DEF bit
      <4>. QED BY <3>1, <4>1 DEF Due
    <3>3. m \in sent => some(m)
      BY <1>1, <1>4
    <3>4. faults' = 0 /\ all(m) => m \in sent
      BY <1>4, <2>5
    <3>. QED BY <2>1, <2>2, <2>3, <3>2, <3>3, <3>4
  <2>. QED BY <2>4, <2>5
<1>6. mails' \in [Mails -> Nat] /\ due' \in [Mails -> Due]
  <2>1. mails' = [m \in Mails |-> mails'[m]] /\ due' = [m \in Mails |-> due'[m]]
    BY <1>2, <1>3
  <2>. QED BY <1>5, <2>1
<1>. QED BY <1>5, <1>6 DEF MailedOK

(* Every step keeps it.                                                    *)
LEMMA MailedStep ==
  ASSUME TypeOK, ListOK, MailedOK, Form
  PROVE  MailedOK'
<1>0. faults \in Nat
  BY DEF TypeOK
<1>1. CASE mails' = mails /\ due' = due /\ (faults' = 0 => faults = 0)
  BY <1>1 DEF MailedOK
<1>2. CASE Waits \/ Persist \/ BatchEnds \/ \E i, s : Adds(i, s)
  <2>1. mails' = mails /\ due' = due /\ faults' = faults
    BY <1>2 DEF Waits, notifyVars, Persist, BatchEnds, Adds
  <2>. QED BY <1>1, <2>1
<1>3. ASSUME NEW rec, Heeds(rec)
      PROVE  MailedOK'
  BY <1>3, TurnStep DEF Heeds
<1>4. CASE Falters
  <2>1. faults' # 0
    BY <1>0, <1>4 DEF Falters
  <2>2. ASSUME NEW rec, NEW sent, Turn(rec, sent)
        PROVE  MailedOK'
    BY <2>1, <2>2, TurnStep
  <2>. QED BY <1>1, <1>4, <2>1, <2>2 DEF Falters
<1>. QED BY <1>2, <1>3, <1>4 DEF Form

(***************************************************************************)
(* The highest threshold is told, or on its way.  While no call failed, a  *)
(* row and every image of it on the stream are notified of a threshold     *)
(* that has been met and told, and a row that grew is told of its highest, *)
(* struck, or has a record ahead that says as much as the row.             *)
(***************************************************************************)
MailTo(i, t, u) == [item |-> i, about |-> t, to |-> u]
Always(m) == \A n \in DOMAIN pools : Concerns(m, pools[n], pools[n])
Reached(i, t) == \A u \in People : Always(MailTo(i, t, u)) => mails[MailTo(i, t, u)] > 0
Told(i, r) ==
  /\ r.notified \in {0} \union Warns(i) /\ r.notified <= Top(i, r.spend)
  /\ r.notified > 0 => Reached(i, r.notified)
RowTold == \A i \in Items : Eligible(i) => Told(i, rows[i])
Current(rec) == rec.new.spend <= rows[rec.item].spend
ImageTold == \A n \in 1..Len(stream) :
  Eligible(stream[n].item) => Told(stream[n].item, stream[n].new) /\ Current(stream[n])
NoteOf(rec) == note = Threshold(rec) /\ Reached(rec.item, note)
NoteTold == note > 0 => NoteOf(stream[heard + 1])
Ahead(i, h) == \E n \in 1..Len(stream) :
  n > h /\ stream[n].item = i /\ stream[n].new.spend = rows[i].spend
Settled(i) == \/ Top(i, rows[i].spend) = 0 \/ Reached(i, Top(i, rows[i].spend))
              \/ i \in struck
Owed == \A i \in Items : Eligible(i) /\ rows[i].reqs # {} => Settled(i) \/ Ahead(i, heard)
TopInv == faults = 0 => RowTold /\ ImageTold /\ NoteTold /\ Owed

(* A threshold of an eligible item is one that mails are about.            *)
LEMMA MailTyped ==
  ASSUME NEW i \in Items, Eligible(i), NEW t \in {0} \union Warns(i), NEW u \in People
  PROVE  MailTo(i, t, u) \in Mails
<1>1. Budget[<<i[1], i[2]>>] # Nil /\ <<i[1], i[2]>> \in DOMAIN Budget
  BY BudgetAssumption DEF Eligible
<1>2. t \in {0} \union Percents
  BY <1>1 DEF Percents, Warns
<1>. QED BY <1>2 DEF Mails, MailTo

(* No mail is taken back, and nothing new can have been so all along.      *)
Keeps == \A i \in Items : Eligible(i) => \A t \in {0} \union Warns(i) : Reached(i, t) => Reached(i, t)'
(* A mail that was sent stays sent. *)
LEMMA ReachedStays ==
  ASSUME ListOK, Grown, \A m \in Mails : mails'[m] >= mails[m],
         mails \in [Mails -> Nat], mails' \in [Mails -> Nat]
  PROVE  Keeps
<1>1. SUFFICES ASSUME NEW i \in Items, Eligible(i), NEW t \in {0} \union Warns(i), Reached(i, t),
                      NEW u \in People, Always(MailTo(i, t, u))'
               PROVE  mails'[MailTo(i, t, u)] > 0
  BY DEF Keeps, Reached
<1>. DEFINE m == MailTo(i, t, u)
<1>2. m \in Mails
  BY <1>1, MailTyped
<1>3. \A n \in DOMAIN pools : n \in DOMAIN pools' /\ pools'[n] = pools[n]
  <2>1. PoolsOK /\ PoolsOK' /\ Len(pools) \in Nat /\ Len(pools') \in Nat /\ Len(pools) <= Len(pools')
        /\ \A n \in 1..Len(pools) : pools'[n] = pools[n]
    BY PoolGrows DEF ListOK
  <2>2. DOMAIN pools = 1..Len(pools) /\ DOMAIN pools' = 1..Len(pools')
    BY <2>1 DEF PoolsOK
  <2>. QED BY <2>1, <2>2
<1>. HIDE DEF m
<1>4. Always(m)' => Always(m)
  BY <1>3 DEF Always, Concerns, ToOps, Mapped, IsLens, DenyTo, Watchers, AdminsOf
<1>5. mails[m] > 0
  BY <1>1, <1>4 DEF Reached, m
<1>6. mails[m] \in Nat /\ mails'[m] \in Nat /\ mails'[m] >= mails[m]
  BY <1>2
<1>. QED BY <1>5, <1>6 DEF m

(* So a row that is told stays so while its spend does not fall.           *)
LEMMA ToldStays ==
  ASSUME Keeps, NEW i \in Items, Eligible(i), NEW r \in Row, Told(i, r),
         NEW s \in Row, s.spend >= r.spend, s.notified = r.notified
  PROVE  Told(i, s)'
<1>1. r.notified \in {0} \union Warns(i) /\ r.notified <= Top(i, r.spend)
      /\ (r.notified > 0 => Reached(i, r.notified))
  BY DEF Told
<1>2. r.spend \in Nat /\ s.spend \in Nat /\ r.notified \in Nat
  BY DEF Row
<1>3. Top(i, r.spend) <= Top(i, s.spend) /\ Top(i, r.spend) \in Percent /\ Top(i, s.spend) \in Percent
  BY <1>2, TopRises, TopFacts
<1>. DEFINE n == r.notified
            a == Top(i, r.spend)
            b == Top(i, s.spend)
<1>4. a \in Nat /\ b \in Nat
  <2>. HIDE DEF a, b
  <2>1. a \in Percent /\ b \in Percent
    BY <1>3 DEF a, b
  <2>. QED BY <2>1, PercentNat
<1>5. n <= a
  BY <1>1
<1>6. a <= b
  BY <1>3
<1>7. n \in Nat /\ s.notified = n
  BY <1>2
<1>. HIDE DEF n, a, b
<1>8. s.notified <= b
  BY <1>4, <1>5, <1>6, <1>7
<1>9. s.notified <= Top(i, s.spend)
  BY <1>8 DEF b
<1>10. s.notified > 0 => Reached(i, s.notified)'
  BY <1>1 DEF Keeps
<1>. QED BY <1>1, <1>9, <1>10 DEF Told

(* Mails are not taken back.                                               *)
LEMMA MailsGrow ==
  ASSUME MailedOK, Form
  PROVE  \A m \in Mails : mails'[m] >= mails[m]
<1>1. \A m \in Mails : mails[m] \in Nat
  BY DEF MailedOK
<1>2. CASE mails' = mails
  BY <1>1, <1>2
<1>3. ASSUME NEW sent, Sends(sent)
      PROVE  \A m \in Mails : mails'[m] >= mails[m]
  BY <1>1, <1>3 DEF Sends
<1>. QED BY <1>2, <1>3 DEF Form, Waits, notifyVars, Adds, Heeds, Turn, Falters, Persist, BatchEnds

(* A threshold that notify heeds is told.                                  *)
LEMMA HeedReaches ==
  ASSUME ListOK, MailedOK, NEW rec, Heeds(rec), Threshold(rec) > 0
  PROVE  Reached(rec.item, Threshold(rec))'
<1>. DEFINE i == rec.item
            t == Threshold(rec)
<1>1. rec \in Image /\ (NeedsList(rec) => list.state = "good") /\ Sends(MailsFor(rec)) /\ pools' = pools
  BY DEF Heeds, Turn
<1>2. i \in Items /\ Eligible(i) /\ ~Silent(rec) /\ ~JustFired(rec) /\ t \in Warns(i) /\ t > 0
  <2>1. i \in Items /\ rec.new.spend \in Nat
    BY <1>1 DEF Image, Row
  <2>2. Eligible(i) /\ ~Silent(rec) /\ ~JustFired(rec) /\ t = Top(i, rec.new.spend)
    BY <1>1, ThresholdFacts
  <2>3. t \in Met(i, rec.new.spend)
    BY <2>1, <2>2, TopFacts
  <2>. QED BY <2>1, <2>2, <2>3 DEF Met
<1>. HIDE DEF i, t
<1>3. SUFFICES ASSUME NEW u \in People, Always(MailTo(i, t, u))'
               PROVE  mails'[MailTo(i, t, u)] > 0
  BY DEF Reached, i, t
<1>. DEFINE m == MailTo(i, t, u)
<1>4. m \in Mails /\ m.item = i /\ m.about = t
  <2>1. m \in Mails
    BY <1>2, MailTyped
  <2>. QED BY <2>1 DEF MailTo
<1>. HIDE DEF m
<1>5. \A n \in DOMAIN pools : Concerns(m, pools[n], pools[n])
  BY <1>1, <1>3 DEF Always, Concerns, ToOps, Mapped, IsLens, DenyTo, Watchers, AdminsOf, m
<1>6. \A a \in recent : Concerns(m, a, a)
  <2>1. PoolsOK /\ begun \in 1..Len(pools)
    BY DEF ListOK
  <2>2. DOMAIN pools = 1..Len(pools) /\ Len(pools) \in Nat
    BY <2>1 DEF PoolsOK
  <2>3. \A n \in begun..Len(pools) : n \in DOMAIN pools
    BY <2>1, <2>2
  <2>. QED BY <1>5, <2>3 DEF recent
<1>7. \A a, b \in recent : Concerns(m, a, b)
  BY <1>2, <1>4, <1>6 DEF Concerns
<1>8. m.about \in About(rec)
  BY <1>2, <1>4 DEF About, t
<1>9. m \in MailsFor(rec)
  BY <1>1, <1>4, <1>7, <1>8, Heard DEF i
<1>10. mails[m] \in Nat /\ mails'[m] = mails[m] + 1
  BY <1>1, <1>4, <1>9 DEF Sends, MailedOK
<1>. QED BY <1>10 DEF m

(* A step that leaves the rows alone, and of the stream no more than drops *)
(* its head, leaves rows and images told.                                  *)
LEMMA ToldKept ==
  ASSUME TypeOK, Keeps, RowTold, ImageTold, rows' = rows,
         \A n \in 1..Len(stream') : \E m \in 1..Len(stream) : stream'[n] = stream[m]
  PROVE  RowTold' /\ ImageTold'
<1>0. rows \in [Items -> Row] /\ stream \in Seq(Image)
  BY DEF TypeOK
<1>1. ASSUME NEW i \in Items, Eligible(i), NEW r \in Row, Told(i, r)
      PROVE  Told(i, r)'
  <2>1. r.spend >= r.spend
    BY DEF Row
  <2>. QED BY <1>1, <2>1, ToldStays
<1>2. RowTold'
  <2>1. SUFFICES ASSUME NEW i \in Items, Eligible(i)
                 PROVE  Told(i, rows[i])'
    BY DEF RowTold
  <2>2. PICK r \in Row : r = rows[i]
    BY <1>0
  <2>3. Told(i, r)
    BY <2>1, <2>2 DEF RowTold
  <2>4. Told(i, r)' /\ rows'[i] = r
    BY <1>1, <2>1, <2>2, <2>3
  <2>. QED BY <2>4 DEF Told
<1>3. ImageTold'
  <2>1. SUFFICES ASSUME NEW n \in 1..Len(stream'), Eligible(stream'[n].item)
                 PROVE  (Told(stream[n].item, stream[n].new) /\ Current(stream[n]))'
    BY DEF ImageTold
  <2>2. PICK m \in 1..Len(stream) : stream'[n] = stream[m]
    OBVIOUS
  <2>3. PICK rec \in Image : rec = stream[m]
    BY <1>0
  <2>4. rec.item \in Items /\ rec.new \in Row /\ Eligible(rec.item)
    BY <2>1, <2>2, <2>3 DEF Image
  <2>5. Told(rec.item, rec.new) /\ Current(rec)
    BY <2>3, <2>4 DEF ImageTold
  <2>6. Told(rec.item, rec.new)'
    BY <1>1, <2>4, <2>5
  <2>7. Current(rec)'
    BY <2>5 DEF Current
  <2>. QED BY <2>2, <2>3, <2>6, <2>7 DEF Told, Current
<1>. QED BY <1>2, <1>3

(* A write of a row that is told of what it is notified of.                *)
LEMMA ToldTouched ==
  ASSUME TypeOK, Keeps, RowTold, ImageTold, NEW i \in Items, NEW s \in Row, Touched(i, s),
         s.spend >= rows[i].spend, Eligible(i) => Told(i, s)'
  PROVE  RowTold' /\ ImageTold'
<1>0. rows \in [Items -> Row] /\ stream \in Seq(Image)
  BY DEF TypeOK
<1>1. /\ rows' \in [Items -> Row] /\ stream' \in Seq(Image) 
      /\ \A j \in Items : rows'[j] = IF j = i THEN s ELSE rows[j]
      /\ Len(stream) \in Nat /\ Len(stream') = Len(stream) + 1
      /\ \A n \in 1..Len(stream) : stream'[n] = stream[n]
      /\ stream'[Len(stream) + 1].item = i /\ stream'[Len(stream) + 1].new = s
  BY TouchedTyped
<1>2. ASSUME NEW j \in Items, Eligible(j), NEW r \in Row, Told(j, r)
      PROVE  Told(j, r)'
  <2>1. r.spend >= r.spend
    BY DEF Row
  <2>. QED BY <1>2, <2>1, ToldStays
<1>3. RowTold'
  <2>1. SUFFICES ASSUME NEW j \in Items, Eligible(j)
                 PROVE  Told(j, rows[j])'
    BY DEF RowTold
  <2>2. CASE j = i
    BY <1>1, <2>1, <2>2 DEF Told
  <2>3. CASE j # i
    <3>2. PICK r \in Row : r = rows[j]
      BY <1>0
    <3>3. Told(j, r)
      BY <2>1, <3>2 DEF RowTold
    <3>4. Told(j, r)' /\ rows'[j] = r
      BY <1>1, <1>2, <2>1, <2>3, <3>2, <3>3
    <3>. QED BY <3>4 DEF Told
  <2>. QED BY <2>2, <2>3
<1>4. ImageTold'
  <2>1. SUFFICES ASSUME NEW n \in 1..Len(stream'), Eligible(stream'[n].item)
                 PROVE  (Told(stream[n].item, stream[n].new) /\ Current(stream[n]))'
    BY DEF ImageTold
  <2>2. CASE n \in 1..Len(stream)
    <3>3. PICK rec \in Image : rec = stream[n]
      BY <1>0, <2>2
    <3>4. rec.item \in Items /\ rec.new \in Row /\ Eligible(rec.item) /\ stream'[n] = rec
      BY <1>1, <2>1, <2>2, <3>3 DEF Image
    <3>5. Told(rec.item, rec.new) /\ Current(rec)
      BY <2>2, <3>3, <3>4 DEF ImageTold
    <3>6. Told(rec.item, rec.new)'
      BY <1>2, <3>4, <3>5
    <3>7. Current(rec)'
      <4>1. rec.new.spend \in Nat /\ rows[rec.item].spend \in Nat /\ s.spend \in Nat
            /\ rec.new.spend <= rows[rec.item].spend
        BY <1>0, <3>4, <3>5 DEF Row, Current
      <4>2. rows'[rec.item] = IF rec.item = i THEN s ELSE rows[rec.item]
        BY <1>1, <3>4
      <4>. QED BY <4>1, <4>2 DEF Current
    <3>. QED BY <3>4, <3>6, <3>7 DEF Told, Current
  <2>3. CASE n = Len(stream) + 1
    <3>1. stream'[n].item = i /\ stream'[n].new = s /\ rows'[i] = s
      BY <1>1, <2>3
    <3>2. s.spend <= s.spend
      BY DEF Row
    <3>3. Told(i, s)'
      BY <2>1, <3>1
    <3>. QED BY <3>1, <3>2, <3>3 DEF Told, Current
  <2>. QED BY <1>1, <2>2, <2>3
<1>. QED BY <1>3, <1>4

(* What has settled stays so while the row's spend does.                   *)
LEMMA SettledStays ==
  ASSUME Keeps, NEW i \in Items, Eligible(i), rows[i] \in Row, rows'[i].spend = rows[i].spend,
         struck \subseteq struck', Settled(i)
  PROVE  Settled(i)'
<1>1. PICK t : t = Top(i, rows[i].spend)
  OBVIOUS
<1>2. t \in {0} \union Warns(i)
  BY <1>1, TopFacts DEF Met, Row
<1>3. Reached(i, t) => Reached(i, t)'
  BY <1>2 DEF Keeps
<1>4. Top(i, rows[i].spend)' = t
  BY <1>1 DEF Top, Met
<1>. QED BY <1>1, <1>3, <1>4 DEF Settled, Reached

(***************************************************************************)
(* The steps keep it.                                                      *)
(***************************************************************************)
Everything == RowTold /\ ImageTold /\ NoteTold /\ Owed

(* A write that adds to the spend leaves a record that says so.            *)
LEMMA AddsStep ==
  ASSUME TypeOK, Keeps, Everything, NEW i, NEW s, Adds(i, s)
  PROVE  Everything'
<1>1. /\ i \in Items /\ s \in Row /\ Touched(i, s)
      /\ s.spend >= rows[i].spend /\ s.notified = rows[i].notified
      /\ heard' = heard /\ note' = note /\ struck' = struck
  BY DEF Adds
<1>2. rows \in [Items -> Row] /\ heard \in 0..Len(stream) /\ (note > 0 => heard < Len(stream))
      /\ note \in Percent
  BY DEF TypeOK
<1>3. /\ rows' \in [Items -> Row] /\ stream' \in Seq(Image)
      /\ \A j \in Items : rows'[j] = IF j = i THEN s ELSE rows[j]
      /\ Len(stream) \in Nat /\ Len(stream') = Len(stream) + 1
      /\ \A n \in 1..Len(stream) : stream'[n] = stream[n]
      /\ stream'[Len(stream) + 1].item = i /\ stream'[Len(stream) + 1].new = s
  BY <1>1, TouchedTyped
<1>4. Eligible(i) => Told(i, s)'
  <2>1. PICK r \in Row : r = rows[i]
    BY <1>1, <1>2
  <2>2. Eligible(i) => Told(i, r)
    BY <1>1, <2>1 DEF Everything, RowTold
  <2>. QED BY <1>1, <2>1, <2>2, ToldStays
<1>5. RowTold' /\ ImageTold'
  BY <1>1, <1>4, ToldTouched DEF Everything
<1>6. NoteTold'
  <2>1. SUFFICES ASSUME note > 0 PROVE NoteOf(stream[heard + 1])'
    BY <1>1 DEF NoteTold
  <2>2. heard + 1 \in 1..Len(stream) /\ stream[heard + 1] \in Image
    BY <1>2, <2>1, RecordHere
  <2>3. PICK rec \in Image : rec = stream[heard + 1]
    BY <2>2
  <2>4. (stream[heard + 1])' = rec
    BY <1>1, <1>3, <2>2, <2>3
  <2>5. note = Threshold(rec) /\ Reached(rec.item, note)
    BY <2>1, <2>3 DEF Everything, NoteTold, NoteOf
  <2>6. Reached(rec.item, Threshold(rec))'
    <3>1. rec.item \in Items /\ rec.new.spend \in Nat /\ Eligible(rec.item)
          /\ Threshold(rec) = Top(rec.item, rec.new.spend)
      BY <2>1, <2>5, ThresholdFacts DEF Image, Row
    <3>2. Threshold(rec) \in {0} \union Warns(rec.item)
      BY <3>1, TopFacts DEF Met
    <3>. QED BY <2>5, <3>1, <3>2 DEF Keeps
  <2>. QED BY <1>1, <2>4, <2>5, <2>6 DEF NoteOf, Reached
<1>7. Owed'
  <2>1. SUFFICES ASSUME NEW j \in Items, Eligible(j), rows'[j].reqs # {}
                 PROVE  Settled(j)' \/ Ahead(j, heard)'
    BY DEF Owed
  <2>2. CASE j = i
    <3>1. Len(stream) + 1 \in 1..Len(stream') /\ Len(stream) + 1 > heard
      BY <1>2, <1>3
    <3>. QED BY <1>1, <1>3, <2>2, <3>1 DEF Ahead
  <2>3. CASE j # i
    <3>1. rows'[j] = rows[j] /\ rows[j] \in Row
      BY <1>2, <1>3, <2>3
    <3>2. Settled(j) \/ Ahead(j, heard)
      BY <2>1, <3>1 DEF Everything, Owed
    <3>3. CASE Settled(j)
      BY <1>1, <2>1, <3>1, <3>3, SettledStays
    <3>4. CASE Ahead(j, heard)
      <4>1. PICK n \in 1..Len(stream) :
              n > heard /\ stream[n].item = j /\ stream[n].new.spend = rows[j].spend
        BY <3>4 DEF Ahead
      <4>2. n \in 1..Len(stream') /\ stream'[n] = stream[n]
        BY <1>3
      <4>. QED BY <1>1, <3>1, <4>1, <4>2 DEF Ahead
    <3>. QED BY <3>2, <3>3, <3>4
  <2>. QED BY <2>2, <2>3
<1>. QED BY <1>5, <1>6, <1>7 DEF Everything

(* A record that is passed without a note owes nothing.                    *)
LEMMA PassedOwesNothing ==
  ASSUME Keeps, NEW rec \in Image, NEW i \in Items, Eligible(i), rec.item = i,
         Told(i, rec.new), Threshold(rec) = 0, ~(~Silent(rec) /\ JustFired(rec))
  PROVE  Top(i, rec.new.spend) = 0 \/ Reached(i, Top(i, rec.new.spend))
<1>. DEFINE r == rec.new
            t == Top(i, r.spend)
<1>1. r \in Row /\ r.spend \in Nat /\ r.notified \in Nat /\ t \in Nat
  <2>1. r \in Row /\ r.spend \in Nat /\ r.notified \in Nat
    BY DEF Image, Row
  <2>2. t \in Percent
    BY <2>1, TopFacts
  <2>. QED BY <2>1, <2>2 DEF Percent
<1>2. CASE Silent(rec)
  <2>1. r.spend = 0
    BY <1>2 DEF Silent, NoRow
  <2>. QED BY <2>1, TopOfNothing
<1>3. CASE ~Silent(rec) /\ ~JustFired(rec)
  <2>1. t <= r.notified
    BY <1>3, ThresholdFacts
  <2>2. r.notified <= t /\ (r.notified > 0 => Reached(i, r.notified))
    BY DEF Told
  <2>. HIDE DEF r, t
  <2>3. t = r.notified
    BY <1>1, <2>1, <2>2
  <2>4. t = 0 \/ r.notified > 0
    BY <1>1, <2>3
  <2>. QED BY <2>2, <2>3, <2>4 DEF t, r
<1>. QED BY <1>2, <1>3

(* After a step that heeds its record, nothing heard is left unmailed. *)
LEMMA HeedsStep ==
  ASSUME TypeOK, ListOK, MailedOK, Keeps, Everything, NEW rec, Heeds(rec)
  PROVE  Everything'
<1>1. /\ rec \in Image /\ heard < Len(stream) /\ rec = stream[heard + 1] /\ Reads(rec)
      /\ rows' = rows /\ stream' = stream /\ note = 0
      /\ note' = Threshold(rec) /\ heard' = (IF note' > 0 THEN heard ELSE heard + 1)
  BY DEF Heeds, Turn
<1>2. rows \in [Items -> Row] /\ heard \in 0..Len(stream) /\ Len(stream) \in Nat
  BY DEF TypeOK
<1>3. RowTold' /\ ImageTold'
  BY <1>1, ToldKept DEF Everything
<1>4. note' \in Nat
  <2>1. Threshold(rec) \in Percent
    BY <1>1, ThresholdFacts
  <2>2. Threshold(rec) \in Nat
    BY <2>1 DEF Percent
  <2>. QED BY <1>1, <2>2
<1>5. NoteTold'
  <2>1. SUFFICES ASSUME note' > 0 PROVE NoteOf(stream[heard + 1])'
    BY DEF NoteTold
  <2>2. (stream[heard + 1])' = rec
    BY <1>1, <2>1
  <2>3. Reached(rec.item, Threshold(rec))'
    BY <1>1, <2>1, HeedReaches
  <2>. QED BY <1>1, <2>2, <2>3 DEF NoteOf, Reached
<1>6. struck \subseteq struck' /\ (~Silent(rec) /\ JustFired(rec) => rec.item \in struck')
  BY <1>1 DEF Reads
<1>7. Owed'
  <2>1. SUFFICES ASSUME NEW j \in Items, Eligible(j), rows'[j].reqs # {}
                 PROVE  Settled(j)' \/ Ahead(j, heard)'
    BY DEF Owed
  <2>2. Settled(j) \/ Ahead(j, heard)
    BY <1>1, <2>1 DEF Everything, Owed
  <2>3. CASE Settled(j)
    BY <1>1, <1>2, <1>6, <2>1, <2>3, SettledStays
  <2>4. CASE Ahead(j, heard)
    <3>1. PICK n \in 1..Len(stream) :
            n > heard /\ stream[n].item = j /\ stream[n].new.spend = rows[j].spend
      BY <2>4 DEF Ahead
    <3>2. CASE n > heard'
      BY <1>1, <3>1, <3>2 DEF Ahead
    <3>3. CASE ~(n > heard')
      <4>1. n = heard + 1 /\ ~(note' > 0)
        BY <1>1, <1>2, <3>1, <3>3
      <4>2. stream[n] = rec /\ Threshold(rec) = 0
        BY <1>1, <1>4, <4>1
      <4>3. rec.item = j /\ rec.new.spend = rows[j].spend
        BY <3>1, <4>2
      <4>4. Told(j, rec.new)
        BY <2>1, <4>2, <4>3 DEF Everything, ImageTold
      <4>5. CASE ~Silent(rec) /\ JustFired(rec)
        BY <1>6, <4>3, <4>5 DEF Settled
      <4>6. CASE ~(~Silent(rec) /\ JustFired(rec))
        <5>1. Top(j, rec.new.spend) = 0 \/ Reached(j, Top(j, rec.new.spend))
          BY <1>1, <2>1, <4>2, <4>3, <4>4, <4>6, PassedOwesNothing
        <5>2. Settled(j)
          BY <4>3, <5>1 DEF Settled
        <5>. QED BY <1>1, <1>2, <1>6, <2>1, <5>2, SettledStays
      <4>. QED BY <4>5, <4>6
    <3>. QED BY <3>2, <3>3
  <2>. QED BY <2>2, <2>3, <2>4
<1>. QED BY <1>3, <1>5, <1>7 DEF Everything

(* What notify persists has been told.                                     *)
LEMMA PersistStep ==
  ASSUME TypeOK, Keeps, Everything, Persist
  PROVE  Everything'
<1>1. PICK rec \in Image : rec = stream[heard + 1]
  BY NotedTyped
<1>17. PICK i : i = stream[heard + 1].item
  OBVIOUS
<1>18. PICK t : t = note
  OBVIOUS
<1>2. /\ i \in Items /\ heard + 1 \in 1..Len(stream)
      /\ Noted(i) \in Row /\ Noted(i).spend = rows[i].spend /\ Noted(i).notified = note
      /\ Noted(i).reqs = rows[i].reqs
      /\ IF rows[i].notified < note THEN Touched(i, Noted(i)) ELSE rows' = rows /\ stream' = stream
  BY <1>17, NotedTyped
<1>3. note # 0 /\ heard' = heard + 1 /\ note' = 0 /\ struck' = struck
  BY DEF Persist
<1>4. /\ rows \in [Items -> Row] /\ stream \in Seq(Image) /\ heard \in 0..Len(stream)
      /\ Len(stream) \in Nat /\ note \in Percent
  BY DEF TypeOK
<1>5. i = rec.item /\ note > 0
  BY <1>1, <1>3, <1>4, <1>17 DEF Percent
<1>6. note = Threshold(rec) /\ Reached(i, t)
  BY <1>1, <1>5, <1>18 DEF Everything, NoteTold, NoteOf
<1>7. rec.new \in Row /\ rec.new.spend \in Nat /\ rows[i].spend \in Nat
  BY <1>2, <1>4 DEF Image, Row
<1>8. Eligible(i) /\ note = Top(i, rec.new.spend)
  BY <1>5, <1>6, ThresholdFacts
<1>9. note \in {0} \union Warns(i)
  BY <1>2, <1>7, <1>8, TopFacts DEF Met
<1>10. rec.new.spend <= rows[i].spend
  BY <1>1, <1>2, <1>5, <1>8 DEF Everything, ImageTold, Current
<1>11. note <= Top(i, rows[i].spend)
  BY <1>2, <1>7, <1>8, <1>10, TopRises
<1>12. PICK s \in Row : s = Noted(i)
  BY <1>2
<1>13. Told(i, s)'
  <2>1. Reached(i, t)'
    BY <1>2, <1>6, <1>8, <1>9, <1>18 DEF Keeps
  <2>2. s.notified = t /\ s.spend = rows[i].spend
    BY <1>2, <1>12, <1>18
  <2>3. t \in {0} \union Warns(i) /\ t <= Top(i, s.spend)
    BY <1>9, <1>11, <1>18, <2>2
  <2>. QED BY <2>1, <2>2, <2>3 DEF Told
<1>14. /\ RowTold' /\ ImageTold'
       /\ \A j \in Items : rows'[j].spend = rows[j].spend /\ rows'[j].reqs = rows[j].reqs
       /\ \A n \in 1..Len(stream) : n \in 1..Len(stream') /\ stream'[n] = stream[n]
  <2>1. CASE rows[i].notified < note
    <3>1. Touched(i, s) /\ s.spend = rows[i].spend /\ s.reqs = rows[i].reqs
      BY <1>2, <1>12, <2>1
    <3>2. s.spend >= rows[i].spend
      BY <1>7, <3>1
    <3>3. RowTold' /\ ImageTold'
      BY <1>2, <1>13, <3>1, <3>2, ToldTouched DEF Everything
    <3>4. /\ \A j \in Items : rows'[j] = IF j = i THEN s ELSE rows[j]
          /\ Len(stream') = Len(stream) + 1
          /\ \A n \in 1..Len(stream) : stream'[n] = stream[n]
      BY <1>2, <3>1, TouchedTyped
    <3>. QED BY <1>4, <3>1, <3>3, <3>4
  <2>2. CASE ~(rows[i].notified < note)
    <3>1. rows' = rows /\ stream' = stream
      BY <1>2, <2>2
    <3>2. RowTold' /\ ImageTold'
      BY <3>1, ToldKept DEF Everything
    <3>. QED BY <3>1, <3>2
  <2>. QED BY <2>1, <2>2
<1>15. NoteTold'
  BY <1>3 DEF NoteTold
<1>16. Owed'
  <2>1. SUFFICES ASSUME NEW j \in Items, Eligible(j), rows'[j].reqs # {}
                 PROVE  Settled(j)' \/ Ahead(j, heard)'
    BY DEF Owed
  <2>0. rows'[j].spend = rows[j].spend /\ rows[j] \in Row
    BY <1>4, <1>14
  <2>2. Settled(j) \/ Ahead(j, heard)
    BY <1>14, <2>1 DEF Everything, Owed
  <2>3. CASE Settled(j)
    BY <1>3, <2>0, <2>1, <2>3, SettledStays
  <2>4. CASE Ahead(j, heard)
    <3>1. PICK n \in 1..Len(stream) :
            n > heard /\ stream[n].item = j /\ stream[n].new.spend = rows[j].spend
      BY <2>4 DEF Ahead
    <3>2. CASE n > heard + 1
      <4>1. n \in 1..Len(stream') /\ stream'[n] = stream[n]
        BY <1>14
      <4>. QED BY <1>3, <2>0, <3>1, <3>2, <4>1 DEF Ahead
    <3>3. CASE ~(n > heard + 1)
      <4>1. n = heard + 1
        BY <1>4, <3>1, <3>3
      <4>2. j = i /\ rec.new.spend = rows[j].spend
        BY <1>1, <1>5, <1>17, <3>1, <4>1
      <4>3. Settled(j)
        BY <1>6, <1>8, <1>18, <4>2 DEF Settled
      <4>. QED BY <1>3, <2>0, <2>1, <4>3, SettledStays
    <3>. QED BY <3>2, <3>3
  <2>. QED BY <2>2, <2>3, <2>4
<1>. QED BY <1>14, <1>15, <1>16 DEF Everything

(* The end of a batch takes away records that have been heard.             *)
LEMMA BatchStep ==
  ASSUME TypeOK, Keeps, Everything, BatchEnds
  PROVE  Everything'
<1>1. rows' = rows /\ struck' = struck /\ heard' = 0 /\ note' = 0
  BY DEF BatchEnds
<1>2. /\ heard \in Nat /\ heard <= Len(stream)
      /\ Len(stream) \in Nat /\ Len(stream') = Len(stream) - heard
      /\ \A n \in 1..Len(stream') : n + heard \in 1..Len(stream) /\ stream'[n] = stream[n + heard]
  BY RestOfStream
<1>3. RowTold' /\ ImageTold'
  BY <1>1, <1>2, ToldKept DEF Everything
<1>4. NoteTold'
  BY <1>1 DEF NoteTold
<1>5. Owed'
  <2>1. SUFFICES ASSUME NEW j \in Items, Eligible(j), rows'[j].reqs # {}
                 PROVE  Settled(j)' \/ Ahead(j, heard)'
    BY DEF Owed
  <2>2. Settled(j) \/ Ahead(j, heard)
    BY <1>1, <2>1 DEF Everything, Owed
  <2>3. CASE Settled(j)
    BY <1>1, <2>1, <2>3, SettledStays DEF TypeOK
  <2>4. CASE Ahead(j, heard)
    <3>1. PICK n \in 1..Len(stream) :
            n > heard /\ stream[n].item = j /\ stream[n].new.spend = rows[j].spend
      BY <2>4 DEF Ahead
    <3>2. n - heard \in 1..Len(stream') /\ (n - heard) + heard = n /\ n - heard > 0
      BY <1>2, <3>1
    <3>3. stream'[n - heard] = stream[n]
      BY <1>2, <3>2
    <3>. QED BY <1>1, <3>1, <3>2, <3>3 DEF Ahead
  <2>. QED BY <2>2, <2>3, <2>4
<1>. QED BY <1>3, <1>4, <1>5 DEF Everything

(* Steps of the pages and of the list are none of rows' and mails'.        *)
LEMMA WaitsStep ==
  ASSUME TypeOK, Keeps, Everything, Waits
  PROVE  Everything'
<1>1. rows' = rows /\ stream' = stream /\ struck' = struck /\ heard' = heard /\ note' = note
      /\ mails' = mails
  BY DEF Waits, notifyVars
<1>2. RowTold' /\ ImageTold'
  BY <1>1, ToldKept DEF Everything
<1>3. NoteTold'
  <2>1. SUFFICES ASSUME note > 0 PROVE NoteOf(stream[heard + 1])'
    BY <1>1 DEF NoteTold
  <2>2. PICK rec \in Image : rec = stream[heard + 1]
    BY <2>1, RecordHere DEF TypeOK
  <2>3. note = Threshold(rec) /\ Reached(rec.item, note)
    BY <2>1, <2>2 DEF Everything, NoteTold, NoteOf
  <2>4. rec.item \in Items /\ rec.new.spend \in Nat /\ Eligible(rec.item)
        /\ Threshold(rec) = Top(rec.item, rec.new.spend)
    BY <2>1, <2>3, ThresholdFacts DEF Image, Row
  <2>5. Threshold(rec) \in {0} \union Warns(rec.item)
    BY <2>4, TopFacts DEF Met
  <2>6. Reached(rec.item, Threshold(rec))'
    BY <2>3, <2>4, <2>5 DEF Keeps
  <2>. QED BY <1>1, <2>2, <2>3, <2>6 DEF NoteOf, Reached
<1>4. Owed'
  <2>1. SUFFICES ASSUME NEW j \in Items, Eligible(j), rows'[j].reqs # {}
                 PROVE  Settled(j)' \/ Ahead(j, heard)'
    BY DEF Owed
  <2>2. Settled(j) \/ Ahead(j, heard)
    BY <1>1, <2>1 DEF Everything, Owed
  <2>3. CASE Settled(j)
    BY <1>1, <2>1, <2>3, SettledStays DEF TypeOK
  <2>4. CASE Ahead(j, heard)
    BY <1>1, <2>4 DEF Ahead
  <2>. QED BY <2>2, <2>3, <2>4
<1>. QED BY <1>2, <1>3, <1>4 DEF Everything

(* So every step keeps it that no call fails in.                           *)
LEMMA TopStep ==
  ASSUME TypeOK, ListOK, MailedOK, Keeps, TopInv, Form
  PROVE  TopInv'
<1>1. SUFFICES ASSUME faults' = 0 PROVE Everything'
  BY DEF TopInv, Everything
<1>2. ~Falters
  BY <1>1 DEF Falters, TypeOK
<1>3. faults' = faults
  BY <1>2 DEF Form, Waits, Adds, Heeds, Persist, BatchEnds
<1>4. Everything
  BY <1>1, <1>3 DEF TopInv, Everything
<1>. QED BY <1>2, <1>4, AddsStep, HeedsStep, PersistStep, BatchStep, WaitsStep DEF Form

(***************************************************************************)
(* The theorems.                                                           *)
(***************************************************************************)
Inv == TypeOK /\ ListOK /\ MailedOK /\ TopInv

(* The inductive invariant holds at first. *)
LEMMA InitInv ==
  ASSUME Init
  PROVE  Inv
<1>. USE DEF Init, TableInit, ListInit, NotifyInit
<1>1. ASSUME NEW i \in Items
      PROVE  rows[i] \in Row /\ rows[i].notified = 0 /\ rows[i].reqs = {}
  <2>1. rows[i] = IF i \in DOMAIN OldRows THEN OldRows[i] ELSE NoRow
    OBVIOUS
  <2>2. CASE i \in DOMAIN OldRows
    BY <2>1, <2>2, OldRowTyped, GrowthAssumption
  <2>3. CASE i \notin DOMAIN OldRows
    <3>1. NoRow.notified = 0 /\ NoRow.reqs = {}
      BY DEF NoRow
    <3>. QED BY <2>1, <2>3, <3>1, NoRowTyped
  <2>. QED BY <2>2, <2>3
<1>2. TypeOK
  <2>1. rows \in [Items -> Row]
    BY <1>1
  <2>2. stream = <<>> /\ <<>> \in Seq(Image) /\ Len(<<>>) = 0
    OBVIOUS
  <2>3. stream \in Seq(Image) /\ heard \in 0..Len(stream)
    BY <2>2
  <2>. QED BY <2>1, <2>3 DEF TypeOK, Percent
<1>3. ListOK
  <2>1. pools \in Seq({FirstPool}) /\ Len(pools) = 1 /\ Len(<<>>) = 0
    OBVIOUS
  <2>2. PoolsOK
    BY <2>1 DEF PoolsOK
  <2>. QED BY <2>1, <2>2 DEF ListOK
<1>4. MailedOK
  BY DEF MailedOK, Due
<1>5. TopInv
  <2>1. ImageTold /\ NoteTold /\ Owed
    BY <1>1 DEF ImageTold, NoteTold, Owed
  <2>2. RowTold
    <3>1. ASSUME NEW i \in Items, Eligible(i)
          PROVE  Told(i, rows[i])
      <4>1. rows[i].notified = 0 /\ rows[i].spend \in Nat
        BY <1>1 DEF Row
      <4>2. Top(i, rows[i].spend) \in Percent
        BY <3>1, <4>1, TopFacts
      <4>. HIDE DEF Init, TableInit
      <4>. QED BY <4>1, <4>2 DEF Told, Percent
    <3>. QED BY <3>1 DEF RowTold
  <2>. QED BY <2>1, <2>2 DEF TopInv
<1>. QED BY <1>2, <1>3, <1>4, <1>5 DEF Inv

(* A step that takes records or not leaves the pool grown.                 *)
LEMMA StepGrows ==
  ASSUME [Next]_vars
  PROVE  Grown
<1>1. ListForm
  BY ListSteps
<1>. QED BY <1>1 DEF ListForm, Grown, ListsAdmins, ListsUsers, Expires

(* Every step keeps the inductive invariant. *)
LEMMA StepInv ==
  ASSUME Inv, [Next]_vars
  PROVE  Inv'
<1>1. TypeOK /\ ListOK /\ MailedOK /\ TopInv
  BY DEF Inv
<1>2. Form
  BY <1>1, Forms
<1>3. TypeOK' /\ ListOK' /\ MailedOK'
  BY <1>1, <1>2, TypeStep, ListSteps, ListStep, MailedStep
<1>4. Keeps
  <2>1. mails \in [Mails -> Nat] /\ mails' \in [Mails -> Nat]
    BY <1>1, <1>3 DEF MailedOK
  <2>. QED BY <1>1, <1>2, <2>1, StepGrows, MailsGrow, ReachedStays
<1>5. TopInv'
  BY <1>1, <1>2, <1>4, TopStep
<1>. QED BY <1>3, <1>5 DEF Inv

(* Rows, stream, mails and the list of people are what their users take    *)
(* them for.                                                               *)
THEOREM TypeCorrect == Spec => []Inv
<1>1. Init => Inv
  BY InitInv
<1>2. Inv /\ [Next]_vars => Inv'
  BY StepInv
<1>. QED BY <1>1, <1>2, PTL DEF Spec

(* An onset of enforcement is mailed at most once to everybody it          *)
(* concerned, and while no call has failed to everybody it concerned all   *)
(* the time (handleSpendRow).                                              *)
THEOREM DenyMailedHolds == Spec => []DenyMailed
<1>1. Inv => DenyMailed
  BY MailCounts DEF Inv, DenyMailed
<1>. QED BY <1>1, TypeCorrect, PTL

(* A threshold is mailed to those who want to hear of it only, and while   *)
(* no call has failed the highest one of a row that grew to all of those,  *)
(* whatever the order in which notify's own writes came back to it.        *)
THEOREM CrossingMailedHolds == Spec => []CrossingMailed
<1>1. ASSUME Inv
      PROVE  CrossingMailed
  <2>1. \A m \in Mails : mails[m] <= due[m].most
    BY <1>1, MailCounts DEF Inv
  <2>2. ASSUME faults = 0, stream = <<>>, NEW i \in Items, Eligible(i), rows[i].reqs # {}
        PROVE  Settled(i)
    <3>1. ~Ahead(i, heard)
      BY <2>2 DEF Ahead
    <3>. QED BY <1>1, <2>2, <3>1 DEF Inv, TopInv, Owed
  <2>3. ASSUME NEW i \in Items, Settled(i)
        PROVE  LET t == Top(i, rows[i].spend) IN
               t > 0 => \A u \in People : Always(MailTo(i, t, u)) => mails[MailTo(i, t, u)] > 0 \/ i \in struck
    BY <2>3 DEF Settled, Reached
  <2>. QED BY <2>1, <2>2, <2>3 DEF CrossingMailed, Top, Met, Warns, Limit, Always, MailTo
<1>. QED BY <1>1, TypeCorrect, PTL

(* lastNotifiedThreshold never falls.                                      *)
THEOREM NotifiedRisesHolds == Spec => NotifiedRises
<1>1. ASSUME Inv, [Next]_vars
      PROVE  \A j \in Items : rows'[j].notified >= rows[j].notified
  <2>1. TypeOK /\ Form
    BY <1>1, Forms DEF Inv
  <2>2. rows \in [Items -> Row] /\ \A j \in Items : rows[j].notified \in Nat
    BY <2>1 DEF TypeOK, Row
  <2>3. CASE rows' = rows
    BY <2>2, <2>3
  <2>4. ASSUME NEW i, NEW s, Adds(i, s)
        PROVE  \A j \in Items : rows'[j].notified >= rows[j].notified
    <3>1. i \in Items /\ s \in Row /\ s.notified = rows[i].notified
          /\ \A j \in Items : rows'[j] = IF j = i THEN s ELSE rows[j]
      BY <2>1, <2>4, TouchedTyped DEF Adds
    <3>. QED BY <2>2, <3>1
  <2>5. CASE Persist
    <3>. DEFINE i == stream[heard + 1].item
    <3>1. /\ i \in Items /\ Noted(i) \in Row /\ Noted(i).notified = note
          /\ IF rows[i].notified < note THEN Touched(i, Noted(i)) ELSE rows' = rows
      BY <2>1, <2>5, NotedTyped
    <3>. HIDE DEF i
    <3>2. CASE rows[i].notified < note
      <4>1. \A j \in Items : rows'[j] = IF j = i THEN Noted(i) ELSE rows[j]
        BY <2>1, <3>1, <3>2, TouchedTyped
      <4>2. note \in Nat
        BY <2>1 DEF TypeOK, Percent
      <4>. QED BY <2>2, <3>1, <3>2, <4>1, <4>2
    <3>. QED BY <2>3, <3>1, <3>2
  <2>6. rows' = rows \/ Persist \/ \E i, s : Adds(i, s)
    BY <2>1 DEF Form, Waits, Heeds, Turn, Falters, BatchEnds
  <2>. QED BY <2>3, <2>4, <2>5, <2>6
<1>2. Inv /\ [Next]_vars => [\A i \in Items : rows'[i].notified >= rows[i].notified]_vars
  BY <1>1
<1>. QED BY <1>2, TypeCorrect, PTL DEF Spec, NotifiedRises
================================================================================
