--------------------------------- MODULE Notify ---------------------------------
(***************************************************************************)
(* notify: a second consumer of the RunningSpend stream, on an event       *)
(* source mapping of its own, that mails threshold warnings and the onset  *)
(* of enforcement to people.                                               *)
(***************************************************************************)
EXTENDS SpendTable, MailingList

CONSTANTS
  Budget       \* <<principal, target>> -> [limit, warns, enabled] or Nil;
               \* warns: the warn percentages, limit may be 0 (rates only)

(* validateThresholds bounds the percentages.                              *)
ASSUME BudgetAssumption ==
  /\ \A i \in Items : <<i[1], i[2]>> \in DOMAIN Budget
  /\ \A k \in DOMAIN Budget : \/ Budget[k] = Nil
                              \/ Budget[k] \in [limit : Nat, warns : SUBSET (1..1000), enabled : BOOLEAN]

VARIABLES
  heard,      \* records of the stream's head that notify is through with
  note,       \* the threshold it has mailed and not yet persisted, or 0
  mails,      \* what was sent: [item, about, to] -> how often; about is the
              \* threshold, 0 for enforcement
  struck,     \* history: eligible rows on which it read the onset of enforcement
  due         \* history: [most, least], how often notify read what concerns
              \* the person by some, and by every, state that the pool has had
              \* since the list was begun

notifyVars == <<heard, note, mails, struck, due>>

Eligible(i) == LET b == Budget[<<i[1], i[2]>>] IN b # Nil /\ b.enabled /\ b.limit > 0
(* Mutant of Crossed: a spend of exactly the threshold does not count. *)
CrossedBeyond(row, b) ==
  Max({0} \union {w \in b.warns : 100 * row.spend > w * b.limit /\ w > row.notified})
(* highestCrossedWarn, against the image's own lastNotifiedThreshold.      *)
Crossed(row, b) ==
  Max({0} \union {w \in b.warns : 100 * row.spend >= w * b.limit /\ w > row.notified})
JustFired(rec) == rec.new.stamp # 0 /\ rec.old.stamp = 0

(* The three channels, with the admins and people of a list.               *)
ToOps(i, people) ==
  IF Mapped(i[1], people) = {} /\ ~IsLens(i) THEN {Ops} \ {Nobody} ELSE {}
DenyTo(i, admins, people) ==
  {u \in Mapped(i[1], people) : WantsDeny(people[u])}
    \union (IF IsLens(i) THEN {} ELSE Watchers(admins, people)) \union ToOps(i, people)
WarnTo(i, t, people) == {u \in Mapped(i[1], people) : t >= Floor(people[u])} \union ToOps(i, people)

People   == (Members \union {Ops}) \ {Nobody}
Percents == UNION {Budget[k].warns : k \in {j \in DOMAIN Budget : Budget[j] # Nil}}
Mails    == [item : Items, about : {0} \union Percents, to : People]
NotifyInit ==
  /\ heard = 0 /\ note = 0
  /\ mails = [m \in Mails |-> 0] /\ struck = {}
  /\ due = [m \in Mails |-> [most |-> 0, least |-> 0]]

(* Mutant of Fired: a stamp counts at every record that carries it. *)
FiredAlways(rec) == rec.new.stamp # 0
Fired(rec) == JustFired(rec)
(* handleSpendRow: what it mails for a record.  A mail about enforcement   *)
(* takes the place of one about a threshold, which is then not persisted.  *)
Silent(rec) == rec.new = NoRow \/ rec.new.spend = 0 \/ ~Eligible(rec.item)
Threshold(rec) ==
  IF Silent(rec) \/ Fired(rec) THEN 0
  ELSE Crossed(rec.new, Budget[<<rec.item[1], rec.item[2]>>])
MailsFor(rec) ==
  LET i == rec.item
      t == Threshold(rec)
  IN IF ~Silent(rec) /\ Fired(rec)
     THEN [item : {i}, about : {0}, to : DenyTo(i, list.admins, list.people)]
     ELSE IF t > 0 THEN [item : {i}, about : {t}, to : WarnTo(i, t, list.people)] ELSE {}

(* Whom it concerns while the pool is in state a, b when admins are asked  *)
(* for, by what the pages show.                                            *)
Concerns(m, a, b) ==
  IF m.about = 0 THEN m.to \in DenyTo(m.item, AdminsOf(b), a)
  ELSE \/ m.to \in ToOps(m.item, a)
       \/ m.to \in Mapped(m.item[1], a) /\ m.about >= ShownFloor(a[m.to])

Sends(ms) == mails' = [m \in Mails |-> mails[m] + IF m \in ms THEN 1 ELSE 0]
Reads(rec) ==
  LET about == IF Silent(rec) THEN {} ELSE IF JustFired(rec) THEN {0} ELSE {Threshold(rec)} \ {0}
  IN /\ struck' = struck \union (IF about = {0} THEN {rec.item} ELSE {})
     /\ due' = [m \in Mails |->
       IF m.item # rec.item \/ m.about \notin about THEN due[m] ELSE
       [most |-> due[m].most + (IF \E a, b \in recent : Concerns(m, a, b) THEN 1 ELSE 0),
        least |-> due[m].least + (IF \A a, b \in recent : Concerns(m, a, b) THEN 1 ELSE 0)]]
(* The list is looked at, and renewed first when it is stale, only for a   *)
(* record there is a mail about.                                           *)
NeedsList(rec) == ~Silent(rec) /\ (Fired(rec) \/ Threshold(rec) > 0)
Listing ==
  /\ heard < Len(stream) /\ note = 0 /\ NeedsList(stream[heard + 1])
  /\ ListsAdmins \/ ListsUsers
  /\ UNCHANGED <<tableVars, notifyVars>>
Hear ==
  LET rec == stream[heard + 1] IN
  /\ heard < Len(stream) /\ note = 0
  /\ NeedsList(rec) => list.state = "good"
  /\ Sends(MailsFor(rec)) /\ Reads(rec)
  /\ note' = Threshold(rec)
  /\ heard' = IF note' > 0 THEN heard ELSE heard + 1
  /\ UNCHANGED <<tableVars, listVars>>
(* A call fails, for the list, after some of the mails or when there is    *)
(* only the threshold left to persist: the record is passed over.          *)
HearFails ==
  LET rec == stream[heard + 1] IN
  /\ faults + visits < MaxFaults /\ faults' = faults + 1
  /\ heard < Len(stream)
  /\ IF note > 0 THEN UNCHANGED <<mails, struck, due, list>>
     ELSE IF NeedsList(rec) /\ list.state # "good" THEN ListFails /\ UNCHANGED <<mails, struck, due>>
     ELSE /\ \E sent \in SUBSET MailsFor(rec) : Sends(sent)
          /\ Reads(rec) /\ UNCHANGED list
  /\ heard' = heard + 1 /\ note' = 0
  /\ UNCHANGED <<today, rows, stream, stamps, pools, form, visits, begun>>

(* Mutant of Persist: lastNotifiedThreshold is set without the condition. *)
PersistAlways ==
  /\ note # 0
  /\ LET i == stream[heard + 1].item IN WriteOne(i, [rows[i] EXCEPT !.notified = note])
  /\ heard' = heard + 1 /\ note' = 0
  /\ UNCHANGED <<today, stamps, faults, mails, struck, due, listVars>>
Persist ==
  /\ note # 0
  /\ LET i == stream[heard + 1].item IN
     IF rows[i].notified < note
     THEN WriteOne(i, [rows[i] EXCEPT !.notified = note])
     ELSE UNCHANGED <<rows, stream>>
  /\ heard' = heard + 1 /\ note' = 0
  /\ UNCHANGED <<today, stamps, faults, mails, struck, due, listVars>>

(* The batch ends: its records are not delivered again.                    *)
BatchEnds ==
  /\ heard > 0 /\ note = 0
  /\ stream' = SubSeq(stream, heard + 1, Len(stream)) /\ heard' = 0
  /\ UNCHANGED <<today, rows, stamps, faults, note, mails, struck, due, listVars>>
(* The invocation dies, and its batch comes again.                         *)
HearDies ==
  /\ faults + visits < MaxFaults /\ faults' = faults + 1
  /\ heard + note > 0 /\ heard' = 0 /\ note' = 0
  /\ ListFails
  /\ UNCHANGED <<today, rows, stream, stamps, mails, struck, due, pools, form, visits, begun>>

NotifyNext == Listing \/ Hear \/ Persist \/ BatchEnds \/ HearFails \/ HearDies
================================================================================
