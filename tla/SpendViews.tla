------------------------------- MODULE SpendViews -------------------------------
(***************************************************************************)
(* What the web application shows of the spend table: the spend API's      *)
(* routes, the administrators' dashboard and everybody's own page.  An     *)
(* invocation is on up to three rows; each of these has to decide which of *)
(* them it adds up.                                                        *)
(***************************************************************************)
EXTENDS SpendTable, Principals

CONSTANTS
  Anywhere,       \* an administrator's scope, or selected account: all
  MinMonths,      \* how many months a period selector offers at least
  PageRows        \* rows in a page of the table, of 1 MB

ASSUME ViewAssumption ==
  /\ MinMonths \in Nat \ {0} /\ PageRows \in Nat \ {0}
  /\ Anywhere # Unknown /\ Unknown \notin Regions

Accounts == {AccountOf(i[1]) : i \in Items} \ {Unknown}
Scopes   == {Anywhere} \union (SUBSET Accounts \ {{}})

Dollars(shown) == SumFunctionOnSet([i \in shown |-> rows[i].spend], shown)
(* Dollars of some rows by the key each has.                               *)
Split(key) ==
  [k \in Range(key) |-> Dollars({i \in DOMAIN key : key[i] = k})]
Part(split, k) == IF k \in DOMAIN split THEN split[k] ELSE 0

(***************************************************************************)
(* What a route reads.  The ones that list spend send one query of         *)
(* byPeriod, or one scan of the table, and use the page that answers it:   *)
(* they do not follow LastEvaluatedKey, so that of more rows than a page   *)
(* has the rest is missing.                                                *)
(***************************************************************************)
Written     == {i \in Items : rows[i] # NoRow}
InPeriod(m) == {i \in Written : i[3] = <<"monthly", m>>}
Pages(found) ==
  IF Cardinality(found) <= PageRows THEN {found}
  ELSE {page \in SUBSET found : Cardinality(page) = PageRows}
(* One page of each of some months.                                        *)
Readings(months) ==
  LET pages == [m \in months |-> Pages(InPeriod(m))]
  IN {reads \in [months -> UNION {pages[m] : m \in months}] :
        \A m \in months : reads[m] \in pages[m]}
(* accountFromPrincipal has no account for a principal that is no ARN, and *)
(* no scope but everything includes that.                                  *)
MayAdminister(scope, p) == scope = Anywhere \/ AccountOf(p) \in scope
AdminRows(read, scope) == {i \in read : MayAdminister(scope, i[1])}
MyRows(p, m, read) == {i \in read : i[1] = p /\ i[3] = <<"monthly", m>>}

(* Months that have data, and those the selector offers: back to the first *)
(* of them, gaps included, and MinMonths in any case.  The periods routes  *)
(* read page after page.                                                   *)
Recorded(found) == {m \in DOMAIN found : found[m] # {}}
Selectable(recorded) ==
  LET back == Max({MinMonths} \union {Month(today) - Min(recorded) + 1 : m \in recorded})
  IN {m \in 1..Month(today) : m > Month(today) - back}

(***************************************************************************)
(* GET /admin/spend/trend, and the lines the dashboard draws from it.      *)
(***************************************************************************)
(* Mutant of TrendRows: lens rows are summed as well. *)
TrendRowsAll(read, scope) == {i \in AdminRows(read, scope) : IsModel(i)}
TrendRows(read, scope) == {i \in AdminRows(read, scope) : IsModel(i) /\ ~rows[i].marked}
Trend(read, scope) == Dollars(TrendRows(read, scope))
TrendByAccount(read, scope) == Split([i \in TrendRows(read, scope) |-> AccountOf(i[1])])
(* One line for each account that has any dollars in the months shown;     *)
(* or one for the total, or for the account that is selected.              *)
Lines(reads, scope, selected) ==
  LET months == DOMAIN reads
      seen   == UNION {DOMAIN TrendByAccount(reads[m], scope) : m \in months}
  IN IF selected # Anywhere
     THEN [a \in {selected} |-> [m \in months |-> Part(TrendByAccount(reads[m], scope), a)]]
     ELSE IF Cardinality(seen) <= 1
     THEN [a \in {Anywhere} |-> [m \in months |-> Trend(reads[m], scope)]]
     ELSE [a \in seen |-> [m \in months |-> Part(TrendByAccount(reads[m], scope), a)]]
Drawn(lines, m) == SumFunctionOnSet([a \in DOMAIN lines |-> lines[a][m]], DOMAIN lines)

(***************************************************************************)
(* The dashboard: totals of the rows that are no lens rows, of the account *)
(* selected, and for models; a row without regional dollars is put down as *)
(* unattributed.                                                           *)
(***************************************************************************)
Shown(read, scope, selected) ==
  {i \in AdminRows(read, scope) : selected = Anywhere \/ AccountOf(i[1]) = selected}
Summed(read, scope, selected) ==
  {i \in Shown(read, scope, selected) : ~rows[i].marked /\ IsModel(i)}
ByModel(counted)     == Split([i \in counted |-> i[2]])
ByPrincipal(counted) == Split([i \in counted |-> i[1]])
ByAccount(counted)   == Split([i \in counted |-> AccountOf(i[1])])
Attributed(i) == SumFunctionOnSet(rows[i].regions, Regions)
ByRegion(counted) ==
  [g \in Regions \union {Unknown} |->
     IF g = Unknown THEN Dollars({i \in counted : Attributed(i) = 0})
     ELSE SumFunctionOnSet([i \in counted |-> rows[i].regions[g]], counted)]
(* My spend, this month's and the trend: one's principal's rows, none of   *)
(* which is a lens row.                                                    *)
MySummed(p, m, read) == {i \in MyRows(p, m, read) : IsModel(i)}
MyTrend(p, m, read)  == Dollars(MySummed(p, m, read))
================================================================================
