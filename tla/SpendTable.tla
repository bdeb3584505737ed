------------------------------- MODULE SpendTable -------------------------------
(***************************************************************************)
(* The RunningSpend table as the consumers of its stream see it: rows the  *)
(* meter adds requests to, and the record with both images that every      *)
(* write of a row leaves on the stream.  How a request gets as far as a    *)
(* row is MeterJoin's subject, what enforcement does to a row that of      *)
(* Enforcement; here they are one write each.                              *)
(***************************************************************************)
EXTENDS Integers, Sequences, FiniteSets, FiniteSetsExt, SequencesExt

CONSTANTS
  Requests,
  Req,           \* request -> [p, model, profile, lens, region, day, usd]
  Regions,
  Nil,           \* no profile, no lens, no budget, no source row, nobody
  NoPrice,       \* requests whose model had no price when they were logged
  WindowOf(_),   \* the budget window of <<principal, target>>
  DaysPerMonth, MaxDay,  \* the calendar; MaxDay is a bound
  OldRows,       \* what the table starts with, item -> row
  MaxStamps, MaxFaults   \* bounds

ASSUME TableAssumption ==
  /\ IsFiniteSet(Requests) /\ NoPrice \subseteq Requests /\ IsFiniteSet(Regions)
  /\ DaysPerMonth \in Nat \ {0} /\ MaxDay \in Nat \ {0}
  /\ MaxStamps \in Nat /\ MaxFaults \in Nat

VARIABLES
  today,
  rows,     \* item -> row
  stream,   \* records [item, old, new] the consumer under study has yet
            \* to finish; every consumer has its own copy
  stamps,   \* enforcements so far
  faults    \* failures, kills, rows lost and reconciliations so far: what a
            \* behaviour has of these is bounded together

tableVars == <<today, rows, stream, stamps, faults>>

Month(d)  == (d - 1) \div DaysPerMonth + 1
Period(k, d) == IF WindowOf(k) = "monthly" THEN <<"monthly", Month(d)>>
                ELSE <<WindowOf(k), d>>

(* A request's rows: its model, its profile, and its identity lens.        *)
KeysOf(q) == LET r == Req[q] IN
  {<<r.p, r.model>>} \union {<<r.p, t>> : t \in {r.profile} \ {Nil}}
                     \union {<<s, r.model>> : s \in {r.lens} \ {Nil}}
ItemsOf(q) == {<<k[1], k[2], Period(k, Req[q].day)>> : k \in KeysOf(q)}
Items      == (UNION {ItemsOf(q) : q \in Requests}) \union DOMAIN OldRows

UsdOf  == [q \in Requests |-> Req[q].usd]
Models == {Req[q].model : q \in Requests}
Lenses == {Req[q].lens : q \in Requests} \ {Nil}
IsModel(i) == i[2] \in Models
IsLens(i)  == i[1] \in Lenses

(* marked is identityLens, by which the readers of a row tell a lens row.  *)
NoRow == [spend |-> 0, reqs |-> {}, unpriced |-> 0, last |-> 0,
          marked |-> FALSE, regions |-> [g \in Regions |-> 0],
          fixes |-> {}, fix |-> Nil, fixDay |-> 0,
          stamp |-> 0, notified |-> 0, restored |-> FALSE]

(* Requests have a caller and are of a day of the calendar.  The rows that *)
(* are there at first are typed, and neither enforcement nor notify nor a  *)
(* script has been at them.                                                *)
ASSUME RequestsAssumption ==
  \A q \in Requests : /\ Req[q].p # Nil /\ Req[q].region \in Regions
                      /\ Req[q].day \in 1..MaxDay /\ Req[q].usd \in Nat
ASSUME OldRowsAssumption ==
  \A i \in DOMAIN OldRows : OldRows[i] \in
    [spend : Nat, reqs : SUBSET Requests, unpriced : Nat, last : 0..MaxDay,
     marked : BOOLEAN, regions : [Regions -> Nat], fixes : {{}}, fix : {Nil}, fixDay : {0},
     stamp : {0}, notified : {0}, restored : BOOLEAN]

TableInit ==
  /\ today = 1
  /\ rows = [i \in Items |-> IF i \in DOMAIN OldRows THEN OldRows[i] ELSE NoRow]
  /\ stream = <<>> /\ stamps = 0 /\ faults = 0

(* Every write of rows leaves a record for each.                           *)
Records(new) ==
  LET order == SetToSeq(DOMAIN new)
  IN [n \in DOMAIN order |->
        [item |-> order[n], old |-> rows[order[n]], new |-> new[order[n]]]]
Write(new) ==
  /\ rows' = [i \in Items |-> IF i \in DOMAIN new THEN new[i] ELSE rows[i]]
  /\ stream' = stream \o Records(new)
WriteOne(i, row) == Write([j \in {i} |-> row])

NextDay ==
  /\ today < MaxDay
  /\ today' = today + 1
  /\ UNCHANGED <<rows, stream, stamps, faults>>

(* upsertSpend, the primary model row first.  A request that is on the row *)
(* already fails the condition.                                            *)
Primary(q) == <<Req[q].p, Req[q].model, Period(<<Req[q].p, Req[q].model>>, Req[q].day)>>
MeterWrites(q, i) ==
  LET r == rows[i]
      usd == IF q \in NoPrice THEN 0 ELSE Req[q].usd
  IN
  /\ Req[q].day <= today
  /\ i = Primary(q) \/ q \in rows[Primary(q)].reqs
  /\ q \notin r.reqs
  /\ WriteOne(i, [r EXCEPT !.reqs = @ \union {q}, !.last = Req[q].day,
                   !.marked = @ \/ i[1] = Req[q].lens,
                   !.spend = @ + usd, !.regions[Req[q].region] = @ + usd,
                   !.unpriced = @ + IF q \in NoPrice THEN 1 ELSE 0])
  /\ UNCHANGED <<today, stamps, faults>>

(* Enforcement stamps a row with the policy it attaches; releases and the  *)
(* rollover clear the stamp.  Stamps are numbered, 0 is none.              *)
EnforcementStamps(i) ==
  /\ rows[i].spend > 0 /\ rows[i].stamp = 0 /\ stamps < MaxStamps
  /\ stamps' = stamps + 1
  /\ WriteOne(i, [rows[i] EXCEPT !.stamp = stamps'])
  /\ UNCHANGED <<today, faults>>
StampCleared(i) ==
  /\ rows[i].stamp # 0
  /\ WriteOne(i, [rows[i] EXCEPT !.stamp = 0])
  /\ UNCHANGED <<today, stamps, faults>>

TableNext ==
  \/ NextDay
  \/ \E q \in Requests : \E i \in ItemsOf(q) : MeterWrites(q, i)
  \/ \E i \in Items : EnforcementStamps(i) \/ StampCleared(i)
================================================================================
