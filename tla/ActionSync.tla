------------------------------- MODULE ActionSync -------------------------------
(***************************************************************************)
(* budgets-action-sync: every record of the Budgets stream is mirrored to  *)
(* a native AWS budget and an IAM budget action on a bbg-deny-cur-*        *)
(* policy.  The handler catches what a record throws and counts it, so the *)
(* record is not delivered again.                                          *)
(***************************************************************************)
EXTENDS BudgetsApi

CONSTANT MaxMonth   \* bound: policy names end in the month, 1..MaxMonth

VARIABLES
  month,
  native,     \* AWS Budgets: key -> limit of its budget, or NoRow
  actions,    \* AWS Budgets: key -> months of the policies its actions apply
  curPolicy   \* bbg-deny-cur-* policies that exist, <<key, month>>

syncVars == <<month, native, actions, curPolicy>>

SyncInit ==
  /\ month = 1
  /\ native = [k \in Keys |-> NoRow]
  /\ actions = [k \in Keys |-> {}]
  /\ curPolicy = {}

(* What the mirror is for: enabled, limited rows.                          *)
Mirrors(row) ==
  row # NoRow /\ ~IsUnlimited(row) /\ FieldOf(row, "enabled", FALSE)
ASSUME NotMirrored ==
  \A rows \in StartBudgets : DOMAIN rows = Keys /\ \A k \in Keys : ~Mirrors(rows[k])
ActionDue(k, row) == Blocks(row) /\ k[1] \in Attachable

(* CreateBudget refuses an amount that is not a number.                    *)
Amount(row) == "limit" \in DOMAIN row
(* Mutant of UpsertBudget: a budget that exists is not updated. *)
CreateBudgetOnly(k, row) ==
  native' = IF native[k] = NoRow THEN [native EXCEPT ![k] = row.limit] ELSE native
UpsertBudget(k, row) == native' = [native EXCEPT ![k] = row.limit]
(* The policy is made before the principal turns out not to be attachable. *)
EnsurePolicy(k, row) ==
  curPolicy' = IF Blocks(row) THEN curPolicy \union {<<k, month>>} ELSE curPolicy
UpsertAction(k, row) ==
  actions' = IF ActionDue(k, row)
             THEN [actions EXCEPT ![k] = @ \union {month}] ELSE actions

SyncUpsert(k, row) ==
  /\ Amount(row)
  /\ UpsertBudget(k, row) /\ EnsurePolicy(k, row) /\ UpsertAction(k, row)
  /\ UNCHANGED <<month, faults>>
(* Mutant of SyncRemove: the actions of the budget are left. *)
RemoveBudgetOnly(k) ==
  /\ native' = [native EXCEPT ![k] = NoRow]
  /\ UNCHANGED <<month, actions, curPolicy, faults>>
SyncRemove(k) ==
  /\ native' = [native EXCEPT ![k] = NoRow]
  /\ actions' = [actions EXCEPT ![k] = {}]
  /\ UNCHANGED <<month, curPolicy, faults>>
(* A call fails: the calls before it have had their effect.                *)
SyncFails(k, row) ==
  /\ UNCHANGED month
  /\ \/ /\ Mirrors(row) /\ ~Amount(row)
        /\ UNCHANGED <<native, actions, curPolicy, faults>>
     \/ /\ faults < MaxFaults /\ faults' = faults + 1
        /\ \/ UNCHANGED <<native, actions, curPolicy>>
           \/ /\ Mirrors(row) /\ Amount(row)
              /\ UpsertBudget(k, row)
              /\ UNCHANGED actions
              /\ \/ UNCHANGED curPolicy \/ EnsurePolicy(k, row)
           \/ /\ ~Mirrors(row)
              /\ \E left \in SUBSET actions[k] : actions' = [actions EXCEPT ![k] = left]
              /\ UNCHANGED <<native, curPolicy>>

Sync ==
  /\ stream # <<>>
  /\ LET k == Head(stream).key
         row == Head(stream).row
     IN \/ Mirrors(row) /\ SyncUpsert(k, row)
        \/ ~Mirrors(row) /\ SyncRemove(k)
        \/ SyncFails(k, row)
  /\ stream' = Tail(stream)
  /\ UNCHANGED <<budget, defaults, call, pageVars, meterVars, ops>>

(* Policy names turn over with the month; no record is written for it.     *)
NextMonth ==
  /\ month < MaxMonth /\ Op
  /\ month' = month + 1
  /\ UNCHANGED <<tableVars, defaults, call, pageVars, meterVars, faults,
                 native, actions, curPolicy>>
================================================================================
