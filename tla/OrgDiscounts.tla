----------------------------- MODULE OrgDiscounts ------------------------------
(***************************************************************************)
(* Negotiated discounts of the Pricing table: the discount routes of the   *)
(* pricing API author them per account, organizational unit or             *)
(* organization; org-discount-resolver, hourly and after every write,      *)
(* materialises the winning rate of each account as effectivePct on the    *)
(* account's own row; the meter reads that row, and keeps what it read.    *)
(* Invocations of the resolver may overlap, fail on a row, or be refused   *)
(* by AWS Organizations.                                                   *)
(***************************************************************************)
EXTENDS Integers, Sequences, SequencesExt, Overlay

CONSTANTS
  Linked, OrgUnits, \* linked accounts, organizational units (the root is one)
  Org,              \* the organization's own scope
  Paths,            \* root-first paths of units an account can be at
  Percents,         \* percentages the operators author; 0 excludes an account
  Jobs,             \* invocations of the resolver under way at a time
  Absent,           \* attribute or row that is not there
  MaxChanges,       \* bound on the operators' writes and the moves of accounts
  MaxFailures       \* bound on failed calls

ASSUME DiscountAssumption ==
  /\ Percents \subseteq 0..100
  /\ Org \notin OrgUnits \union Linked
  /\ Absent \notin Percents
  /\ MaxChanges \in Nat /\ MaxFailures \in Nat

VARIABLES
  policy,     \* discountPct of the rows of units and of the organization
  row,        \* each account's row: [authored, effective]
  place,      \* the path of each account, Absent outside the organization
  job,        \* each invocation: what it loaded and has still to write
  cache,      \* the meter's cached percentage of each account
  overtaken,  \* accounts edited while some invocation had loaded the policies
  changes, failures

discountVars == <<policy, row, place, job, cache, overtaken, changes, failures>>

NoDiscount == [authored |-> Absent, effective |-> Absent]
Resting == [pc |-> "idle"]

DiscountInit ==
  /\ policy = [s \in OrgUnits \union {Org} |-> Absent]
  /\ row = [a \in Linked |-> NoDiscount]
  /\ place \in [Linked -> Paths]
  /\ job = [x \in Jobs |-> Resting]
  /\ cache = [a \in Linked |-> Absent]
  /\ overtaken = {} /\ changes = 0 /\ failures = 0

(***************************************************************************)
(* Precedence: the account, then the nearest unit, then the organization.  *)
(***************************************************************************)
Positive(pct) == IF pct = 0 THEN Absent ELSE pct

Winning(mine, path, theirs) ==
  LET set == SelectSeq(path, LAMBDA u : theirs[u] # Absent)
  IN IF mine # Absent THEN Positive(mine)
     ELSE IF set # <<>> THEN theirs[Last(set)] ELSE theirs[Org]

(* effectiveDiscountFromRow *)
Rate(r) ==
  IF r.effective \notin {Absent, 0} THEN r.effective
  ELSE IF r.authored = Absent THEN 0 ELSE r.authored

(***************************************************************************)
(* The discount routes.                                                    *)
(***************************************************************************)
Changes == changes < MaxChanges /\ changes' = changes + 1
Overtakes(a) ==
  overtaken' = IF \E x \in Jobs : job[x].pc # "idle"
               THEN overtaken \union {a} ELSE overtaken

(* Mutant of Authored: the row is updated, not replaced. *)
AuthoredInPlace(a, pct) == [row EXCEPT ![a].authored = pct]
Authored(a, pct) == [row EXCEPT ![a] = [NoDiscount EXCEPT !.authored = pct]]

PostAccount(a, pct) ==
  /\ Changes /\ row' = Authored(a, pct) /\ Overtakes(a)
  /\ UNCHANGED <<policy, place, job, cache, failures>>
DeleteAccount(a) ==
  /\ row[a].authored # Absent
  /\ Changes /\ row' = [row EXCEPT ![a] = NoDiscount] /\ Overtakes(a)
  /\ UNCHANGED <<policy, place, job, cache, failures>>
PostScope(s, pct) ==
  /\ Changes /\ policy' = [policy EXCEPT ![s] = Positive(pct)]
  /\ UNCHANGED <<row, place, job, cache, overtaken, failures>>
DeleteScope(s) ==
  /\ policy[s] # Absent
  /\ Changes /\ policy' = [policy EXCEPT ![s] = Absent]
  /\ UNCHANGED <<row, place, job, cache, overtaken, failures>>

(* AWS Organizations: an account moves, leaves or comes back. *)
Relocates(a, path) ==
  /\ path # place[a]
  /\ Changes /\ place' = [place EXCEPT ![a] = path]
  /\ UNCHANGED <<policy, row, job, cache, overtaken, failures>>

(***************************************************************************)
(* org-discount-resolver.                                                  *)
(***************************************************************************)
Materialised == {a \in Linked : row[a].effective # Absent}

(* Mutant of Stale: rows an earlier run materialised are left alone. *)
StaleKept(a, sets, had) == FALSE
Stale(a, sets, had) == a \in had /\ a \notin sets

Loads(x) ==
  /\ job[x].pc = "idle"
  /\ LET hierarchical == \E s \in OrgUnits \union {Org} : policy[s] # Absent
         had == Materialised
     IN job' = [job EXCEPT ![x] =
          IF hierarchical
          THEN [pc |-> "walk", mine |-> [a \in Linked |-> row[a].authored],
                theirs |-> policy, had |-> had]
          ELSE IF had = {} THEN Resting
          ELSE [pc |-> "write", sets |-> << >>,
                clears |-> {a \in Linked : Stale(a, {}, had)}]]
  /\ UNCHANGED <<policy, row, place, cache, overtaken, changes, failures>>

Walks(x) ==
  /\ job[x].pc = "walk"
  /\ LET due == [a \in {b \in Linked : place[b] # Absent} |->
                   Winning(job[x].mine[a], place[a], job[x].theirs)]
         sets == {a \in DOMAIN due : due[a] # Absent}
     IN job' = [job EXCEPT ![x] =
          [pc |-> "write", sets |-> [a \in sets |-> due[a]],
           clears |-> {a \in Linked : Stale(a, sets, job[x].had)}]]
  /\ UNCHANGED <<policy, row, place, cache, overtaken, changes, failures>>
Degrades(x) ==
  /\ job[x].pc = "walk" /\ failures < MaxFailures
  /\ job' = [job EXCEPT ![x] = Resting] /\ failures' = failures + 1
  /\ UNCHANGED <<policy, row, place, cache, overtaken, changes>>

(* Winning rates first, one row after another, then the stale ones. *)
Rest(x, sets, clears) ==
  job' = [job EXCEPT ![x] =
            IF DOMAIN sets = {} /\ clears = {} THEN Resting
            ELSE [pc |-> "write", sets |-> sets, clears |-> clears]]
Materialises(x, a) ==
  /\ job[x].pc = "write" /\ a \in DOMAIN job[x].sets
  /\ Rest(x, Without(job[x].sets, {a}), job[x].clears)
  /\ \/ row' = [row EXCEPT ![a].effective = job[x].sets[a]] /\ UNCHANGED failures
     \/ failures < MaxFailures /\ failures' = failures + 1 /\ UNCHANGED row
  /\ UNCHANGED <<policy, place, cache, overtaken, changes>>
Clears(x, a) ==
  /\ job[x].pc = "write" /\ DOMAIN job[x].sets = {} /\ a \in job[x].clears
  /\ Rest(x, job[x].sets, job[x].clears \ {a})
  /\ \/ row' = [row EXCEPT ![a].effective = Absent] /\ UNCHANGED failures
     \/ failures < MaxFailures /\ failures' = failures + 1 /\ UNCHANGED row
  /\ UNCHANGED <<policy, place, cache, overtaken, changes>>
(* The rest of an invocation that found nothing to write. *)
Ends(x) ==
  /\ job[x].pc = "write" /\ DOMAIN job[x].sets = {} /\ job[x].clears = {}
  /\ job' = [job EXCEPT ![x] = Resting]
  /\ UNCHANGED <<policy, row, place, cache, overtaken, changes, failures>>

(***************************************************************************)
(* The meter: a read that fails is kept as no discount.                    *)
(***************************************************************************)
MeterLooksUp(a) ==
  /\ cache[a] = Absent
  /\ \/ cache' = [cache EXCEPT ![a] = Rate(row[a])] /\ UNCHANGED failures
     \/ /\ failures < MaxFailures /\ failures' = failures + 1
        /\ cache' = [cache EXCEPT ![a] = 0]
  /\ UNCHANGED <<policy, row, place, job, overtaken, changes>>
CacheExpires(a) ==
  /\ cache[a] # Absent /\ cache' = [cache EXCEPT ![a] = Absent]
  /\ UNCHANGED <<policy, row, place, job, overtaken, changes, failures>>

Resolver(x) ==
  \/ Loads(x) \/ Walks(x) \/ Degrades(x) \/ Ends(x)
  \/ \E a \in Linked : Materialises(x, a) \/ Clears(x, a)
Operator ==
  \/ \E a \in Linked, pct \in Percents : PostAccount(a, pct)
  \/ \E a \in Linked : DeleteAccount(a)
  \/ \E s \in OrgUnits \union {Org}, pct \in Percents : PostScope(s, pct)
  \/ \E s \in OrgUnits \union {Org} : DeleteScope(s)
DiscountNext ==
  \/ Operator
  \/ \E x \in Jobs : Resolver(x)
  \/ \E a \in Linked :
       \/ MeterLooksUp(a) \/ CacheExpires(a)
       \/ \E path \in Paths \union {Absent} : Relocates(a, path)

(* The schedule starts a run every hour whatever became of the last one,   *)
(* runs end, and a cached percentage expires.                              *)
Fairness ==
  /\ \A x \in Jobs : WF_discountVars(Resolver(x))
  /\ \A a \in Linked : WF_discountVars(CacheExpires(a)) /\ WF_discountVars(MeterLooksUp(a))
DiscountSpec == DiscountInit /\ [][DiscountNext]_discountVars /\ Fairness

(***************************************************************************)
(* Properties.                                                             *)
(***************************************************************************)
Due(a) ==
  IF place[a] = Absent \/ \A s \in OrgUnits \union {Org} : policy[s] = Absent
  THEN IF row[a].authored = Absent THEN 0 ELSE row[a].authored
  ELSE LET d == Winning(row[a].authored, place[a], policy)
       IN IF d = Absent THEN 0 ELSE d

(* What an operator authors for an account, an exclusion included, is its  *)
(* rate at once and stays it, whatever is authored above the account and   *)
(* however often the resolver runs, fails or overlaps, unless the edit     *)
(* overtook an invocation that had already read the policies.              *)
AuthoredHolds ==
  \A a \in Linked \ overtaken :
    row[a].authored # Absent => Rate(row[a]) = row[a].authored

(* Once operators and the organization leave things alone, the rate the    *)
(* meter charges by is the most specific one, on every account, those that *)
(* moved or left the organization included, despite overlapping or failed  *)
(* runs before: the hourly run repairs what they left.                     *)
DiscountsSettle ==
  <>[](\A a \in Linked : Rate(row[a]) = Due(a) /\ cache[a] \in {Absent, Due(a)})
================================================================================
