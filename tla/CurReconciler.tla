----------------------------- MODULE CurReconciler ------------------------------
(***************************************************************************)
(* cur-reconciler: the AWS bill (CUR) against the ledger, both up to a     *)
(* watermark.                                                              *)
(***************************************************************************)
EXTENDS LedgerWriter, SpendRepairs, Principals

CONSTANTS
  Watermark,      \* days the comparison stays behind
  BillName(_),    \* principal -> the caller's name in the bill, canonicalised
  BillAccount(_), \* request -> the account it is billed to
  Anonymous,      \* requests that may be billed without a caller identity
  Unresolved,     \* requests whose resource is not a foundation model
  AskedMonths     \* months an operator asks for (event.period)

ASSUME ReconcilerAssumption ==
  Watermark \in Nat /\ Anonymous \subseteq Requests /\ Unresolved \subseteq Requests

VARIABLE rec   \* the reconciliation under way, if any

NoRun == [on |-> FALSE, month |-> 0, mark |-> 0, bill |-> {}, anon |-> {}, landed |-> FALSE]
CurInit == rec = NoRun

(* A run starts with the bill, which the export has brought up to some day *)
(* d, anon without a caller; bill_billing_period_start_date has a lower    *)
(* bound only.  landed is history, for the properties: the bill held all   *)
(* of the month's requests up to the watermark, each on a known model.     *)
InMonth(m, mark) == {q \in Requests : Month(Req[q].day) = m /\ Req[q].day < mark}
Billed(cur, m, mark) == {q \in cur : Month(Req[q].day) >= m /\ Req[q].day < mark}
Reconcile(m, d, anon) ==
  LET mark == today - Watermark
      cur == {q \in Requests : Req[q].day <= d}
  IN /\ ~rec.on /\ faults < MaxFaults
     /\ m = Month(today) \/ (m \in AskedMonths /\ m < Month(today))
     /\ rec' = [on |-> TRUE, month |-> m, mark |-> mark,
                bill |-> Billed(cur, m, mark), anon |-> anon,
                landed |-> InMonth(m, mark) \subseteq cur \ Unresolved]
     /\ faults' = faults + 1
     /\ UNCHANGED <<today, rows, stream, stamps>>
Due == InMonth(rec.month, rec.mark)

(* The ledger between the two: model targets of the period, by principal   *)
(* and model, each line as of its effective day.                           *)
(* Mutant of Counted: profile targets are summed as well. *)
CountedTwice(i) == i[3] = <<"monthly", rec.month>>
Counted(i) == IsModel(i) /\ i[3] = <<"monthly", rec.month>>
PlanLines == {n \in DOMAIN Plan : Plan[n].id \in objects}
Inside(d) == d < rec.mark
UsageTotal(i) == SumFunctionOnSet(ledger[i].usd, {d \in 1..MaxDay : Inside(d)})
LedgerTotal(p, t) ==
    SumFunctionOnSet([i \in Items |-> UsageTotal(i)],
       {i \in Items : i[1] = p /\ i[2] = t /\ Counted(i)})
  + SumFunctionOnSet([n \in DOMAIN Plan |-> Usd(Plan[n])],
       {n \in PlanLines : LET q == Plan[n].req IN
            /\ Counted(Primary(q)) /\ Inside(Req[q].day)
            /\ Req[q].p = p /\ Req[q].model = t})
Metered == {<<i[1], i[2]>> : i \in {j \in Items : Counted(j)}}

LedgerWhole ==
  /\ stream = <<>>
  /\ \A q \in Due : \A i \in ItemsOf(q) : q \in rows[i].reqs /\ i \notin spoiled \union lost
  /\ \A q \in Due : q \in NoPrice => \E n \in PlanLines : Plan[n].req = q
  /\ \A n \in DOMAIN Plan : \A i \in Items : Plan[n].id \in rows[i].fixes => n \in PlanLines
(* reconciliationTotals.  Models that have a line without a caller are     *)
(* compared as a whole in the account that has it, everything else by      *)
(* principal.  The ledger has the account that a principal's name says.    *)
Pooled == {<<BillAccount(q), Req[q].model>> : q \in (rec.bill \intersect rec.anon) \ Unresolved}
BillKey(q) ==
  LET line == <<BillAccount(q), Req[q].model>>
  IN IF q \notin Unresolved /\ line \in Pooled THEN <<"model", line>>
     ELSE IF q \in rec.anon THEN <<"unattributed", BillAccount(q)>>
     ELSE <<"principal", BillName(Req[q].p)>>
MeterKey(k) ==
  LET line == <<AccountOf(k[1]), k[2]>>
  IN IF line \in Pooled THEN <<"model", line>> ELSE <<"principal", k[1]>>
BillTotal(key)  == SumFunctionOnSet(UsdOf, {q \in rec.bill : BillKey(q) = key})
MeterTotal(key) == SumFunctionOnSet([k \in Metered |-> LedgerTotal(k[1], k[2])],
                                    {k \in Metered : MeterKey(k) = key})
(* The rows of the report whose totals differ; the ledger is read last.    *)
Drift == {key \in {MeterKey(k) : k \in {j \in Metered : LedgerTotal(j[1], j[2]) # 0}} :
            BillTotal(key) # MeterTotal(key)}
(* The report is written, or a query fails and there is none.              *)
Report ==
  /\ rec.on /\ rec' = NoRun
  /\ UNCHANGED tableVars

CurNext ==
  \/ \E m \in 1..Month(today), d \in 0..today, anon \in SUBSET Anonymous :
       Reconcile(m, d, anon)
  \/ Report
================================================================================
