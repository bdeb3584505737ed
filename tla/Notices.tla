-------------------------------- MODULE Notices ---------------------------------
(***************************************************************************)
(* The spend table with the writers whose records notify reads, and notify *)
(* itself, whose own writes come back to it as records.                    *)
(***************************************************************************)
EXTENDS Notify

(* The requests of the model are still to come: a row that has one grew    *)
(* under notify's eyes.                                                    *)
ASSUME GrowthAssumption == \A i \in DOMAIN OldRows : OldRows[i].reqs = {}

vars == <<tableVars, notifyVars, listVars>>

Init == TableInit /\ ListInit /\ NotifyInit

(* Only notify looks at the pool, and only for a record there is a mail    *)
(* about: what is edited earlier makes no difference.  Visits of pages and *)
(* failing calls are bounded together.                                     *)
Awaited ==
  /\ heard < Len(stream) /\ note = 0 /\ NeedsList(stream[heard + 1])
  /\ faults + visits' <= MaxFaults
Next ==
  \/ TableNext /\ UNCHANGED <<notifyVars, listVars>>
  \/ NotifyNext
  \/ (PagesNext \/ Expires) /\ Awaited /\ UNCHANGED <<tableVars, notifyVars>>

Spec == Init /\ [][Next]_vars

(* Every onset of enforcement that notify reads on an eligible row is      *)
(* mailed at most once to everybody it concerned at some time since the    *)
(* list was begun, and to nobody else; while no call has failed, it is     *)
(* mailed to everybody it concerned all that time.                         *)
DenyMailed ==
  \A m \in Mails : m.about = 0 =>
    /\ mails[m] <= due[m].most
    /\ faults = 0 => mails[m] >= due[m].least

(* A threshold is mailed to nobody who has not, since the list was begun,  *)
(* been shown to want to hear of it.  While no call has failed and when    *)
(* notify is through with the stream, the highest threshold an eligible    *)
(* row that grew has crossed has been mailed to all who have all along been*)
(* shown to, unless enforcement was mailed instead.                        *)
CrossingMailed ==
  /\ \A m \in Mails : m.about > 0 => mails[m] <= due[m].most
  /\ faults = 0 /\ stream = <<>> => \A i \in Items : Eligible(i) /\ rows[i].reqs # {} =>
       LET b == Budget[<<i[1], i[2]>>]
           t == Max({0} \union {w \in b.warns : 100 * rows[i].spend >= w * b.limit})
       IN t > 0 => \A u \in People :
            LET m == [item |-> i, about |-> t, to |-> u] IN
            (\A n \in DOMAIN pools : Concerns(m, pools[n], pools[n])) => mails[m] > 0 \/ i \in struck

(* lastNotifiedThreshold never falls, in whatever order records come again *)
(* and however stale the image a crossing was read from.                   *)
NotifiedRises ==
  [][\A i \in Items : rows'[i].notified >= rows[i].notified]_vars

================================================================================
