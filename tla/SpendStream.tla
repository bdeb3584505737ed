------------------------------ MODULE SpendStream -------------------------------
(***************************************************************************)
(* The spend table, its ledger and those who reconcile the two with the    *)
(* bill: the meter's and enforcement's writes, the ledger writer, repairs, *)
(* the backfill, the CUR reconciler, and what the pages show of it.        *)
(***************************************************************************)
EXTENDS CurReconciler, SpendViews

vars == <<tableVars, ledgerVars, repairVars, rec>>

Init == TableInit /\ LedgerInit /\ RepairInit /\ CurInit
Next ==
  \/ TableNext /\ UNCHANGED <<ledgerVars, repairVars, rec>>
  \/ LedgerNext /\ UNCHANGED <<repairVars, rec>>
  \/ RepairNext /\ UNCHANGED <<ledgerVars, rec>>
  \/ CurNext /\ UNCHANGED <<ledgerVars, repairVars>>

Spec == Init /\ [][Next]_vars

Intact(i) == i \notin lost
FixedIn(i) == {Plan[n].req : n \in {m \in DOMAIN Plan : Plan[m].id \in rows[i].fixes}}
Paid(i) == {q \in rows[i].reqs : q \notin NoPrice \/ q \in FixedIn(i)}

(* A request listed on a row is charged on it once, by the meter or by a   *)
(* repair, or is counted as unpriced: whatever the order of late logs,     *)
(* redeliveries and overlapping or repeated repair runs.                   *)
ChargedOrOutstanding ==
  \A i \in Items \ DOMAIN OldRows : Intact(i) =>
    /\ rows[i].spend = SumFunctionOnSet(UsdOf, Paid(i))
    /\ rows[i].unpriced = Cardinality(rows[i].reqs \ Paid(i))

(* When the ledger writer is through with the stream, a model row and its  *)
(* ledger lines sum to the same dollars: those of its repairs are there    *)
(* once, from the repair's own object and not from the stream.             *)
PutFor(i) == {n \in PlanLines : Plan[n].id \in rows[i].fixes}
LedgerAgrees ==
  \A i \in Items \ DOMAIN OldRows :
    IsModel(i) /\ ~IsLens(i) /\ Intact(i) /\ stream = <<>> /\ i \notin spoiled
      /\ (\A n \in DOMAIN Plan : Plan[n].id \in rows[i].fixes => n \in PlanLines)
    => rows[i].spend = LedgerUsd(i)
                         + SumFunctionOnSet([n \in DOMAIN Plan |-> Usd(Plan[n])], PutFor(i))

(* A plan that says completed is: every correction is on all the rows of   *)
(* its request and in the ledger, in spite of the runs that died.          *)
CompletedIsDone ==
  completed => \A n \in DOMAIN Plan :
    /\ n \in PlanLines
    /\ \A i \in ToFix(Plan[n]) : Intact(i) => Plan[n].id \in rows[i].fixes

(* Where the bill and the ledger both held everything up to the watermark  *)
(* when they were read, no drift is reported: usage routed through a       *)
(* profile, repairs, and bill lines without a caller included.  All there  *)
(* is, is of callers whom the bill knows by another name than the ledger,  *)
(* as those of SSO roles "will still partially mismatch" (shared/arn.ts),  *)
(* or by an account which their name in the ledger does not say.           *)
LedgerKey(q) == MeterKey(<<Req[q].p, Req[q].model>>)
Misread(q)   == BillName(Req[q].p) # Req[q].p \/ BillAccount(q) # AccountOf(Req[q].p)
NoPhantomDrift ==
  rec.on /\ rec.landed /\ LedgerWhole =>
    \A key \in Drift : \E q \in Due :
      Misread(q) /\ BillKey(q) # LedgerKey(q) /\ key \in {BillKey(q), LedgerKey(q)}

(* Models have a monthly row, no row of a model is older than the ledger,  *)
(* and principals, lenses, models and profiles differ in name.             *)
RowsApart ==
  /\ \A q \in Requests : /\ WindowOf(<<Req[q].p, Req[q].model>>) = "monthly"
                         /\ Req[q].p \notin Lenses
                         /\ Req[q].profile = Nil \/ Req[q].profile \notin Models
  /\ \A i \in DOMAIN OldRows : ~IsModel(i)
(* Where the two can be of the same usage at all: the reconciled month is  *)
(* the current one, as an earlier one would have a bill without an upper   *)
(* bound.                                                                  *)
Comparable == AskedMonths = {} /\ RowsApart
(* No correction puts a request on the row of an identity lens: what it    *)
(* updates does not say identityLens, and a row that it creates would be   *)
(* taken for a principal's.                                                *)
LensesMetered == \A n \in DOMAIN Plan : ~Plan[n].known => Req[Plan[n].req].lens = Nil

(* Every sum of money the pages show counts an invocation once, although   *)
(* up to three rows carry its dollars: the trend, in total, by account and *)
(* as the lines drawn; the dashboard's totals by model, principal, account *)
(* and region, in every administrator's scope and for every account        *)
(* selected; and everybody's own trend.  They are of the invocations whose *)
(* row is on the page that was read: of all where the rows fit in a page,  *)
(* and else of no less than the page has.  And a month that has money can  *)
(* be selected.                                                            *)
OnModelRow(read) ==
  {q \in Requests : \E i \in read : i[1] = Req[q].p /\ IsModel(i) /\ q \in Paid(i)}
Spent(qs) == SumFunctionOnSet(UsdOf, qs)
Is(split, key, its) == \A k \in DOMAIN split : split[k] = Spent({q \in its : key[q] = k})
Theirs(paid, m, scope, selected) ==
  {q \in paid : /\ Month(Req[q].day) = m /\ MayAdminister(scope, Req[q].p)
                /\ selected = Anywhere \/ AccountOf(Req[q].p) = selected}
CountsOnce(its, counted) ==
  /\ Dollars(counted) = Spent(its)
  /\ Is(ByModel(counted), [q \in its |-> Req[q].model], its)
  /\ Is(ByPrincipal(counted), [q \in its |-> Req[q].p], its)
  /\ Is(ByAccount(counted), [q \in its |-> AccountOf(Req[q].p)], its)
  /\ Is(ByRegion(counted), [q \in its |-> Req[q].region], its)
TrendCountsOnce ==
  LET all == 1..Month(MaxDay)
  IN lost = {} =>
    /\ \A scope \in Scopes :
         LET offered == Selectable(Recorded([m \in all |-> AdminRows(InPeriod(m), scope)]))
         IN \A reads \in Readings(all), selected \in {Anywhere} \union Accounts :
              LET lines == Lines(reads, scope, selected)
              IN \A m \in all :
                   LET its == Theirs(OnModelRow(reads[m]), m, scope, selected)
                   IN /\ Drawn(lines, m) = Spent(its)
                      /\ CountsOnce(its, Summed(reads[m], scope, selected))
                      /\ its # {} => m \in offered
    /\ \A read \in Pages(Written), p \in {Req[q].p : q \in Requests}, m \in all :
         MyTrend(p, m, read)
           = Spent({q \in OnModelRow(read) : Req[q].p = p /\ Month(Req[q].day) = m})

(* A backfill replaces no row that is there: not one the meter or a repair *)
(* created after the script had read the ledger.                           *)
BackfillReplacesNothing ==
  [][\A i \in fold : i \notin fold' /\ rows[i] # NoRow => rows'[i] = rows[i]]_vars

================================================================================
