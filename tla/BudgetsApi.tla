------------------------------- MODULE BudgetsApi -------------------------------
(***************************************************************************)
(* The writers of the Budgets table: administrators behind the budgets API *)
(* and its pages, manifests applied from the page or the script, and the   *)
(* meter, which materialises default budgets.  A call to DynamoDB is a     *)
(* step; a handler that reads before it writes keeps what it read.         *)
(***************************************************************************)
EXTENDS BudgetRows

CONSTANTS
  Admins,
  ScopeOf,        \* bbg:scope of each; the wildcard scope, and no other,
                  \* holds principals of which no account is known
  Bodies,         \* request bodies of API callers
  Edits,          \* what an administrator changes in the edit form
  Manifests,      \* records [budgets, delete, defaults]
  DefaultBodies,  \* bodies of PUT /admin/defaults
  StartBudgets,   \* what the table starts with: rows not mirrored natively,
  StartDefaults,  \* and the sentinel
  MaxOps,         \* bound: requests, meter lookups, manifests, months
  MaxFaults,      \* bound: failing calls and killed applies
  MaxLag          \* bound: records the stream's consumer is behind

ASSUME AdminsAssumption ==
  /\ ScopeOf \in [Admins -> SUBSET (Accounts \union {NoAccount})]
  /\ MaxOps \in Nat /\ MaxFaults \in Nat /\ MaxLag \in Nat \ {0}

ASSUME BodiesAssumption ==
  /\ \A b \in Bodies \union Edits : Typed(b, BodyValue)
  /\ \A b \in DefaultBodies :
       Typed(b, BodyValue) /\ DOMAIN b \subseteq {"limit", "enabled", "rpm"}
  /\ \A m \in Manifests :
       /\ DOMAIN m.budgets \subseteq Keys /\ m.delete \subseteq Keys
       /\ \A k \in DOMAIN m.budgets : EntryTyped(m.budgets[k])
       /\ m.defaults # NoRow => DefaultsTyped(m.defaults)

ASSUME StartAssumption ==
  /\ \A d \in StartDefaults :
       d # NoRow => DefaultsTyped(d) /\ {"limit", "enabled"} \subseteq DOMAIN d
  /\ \A rows \in StartBudgets : \A k \in Keys :
       rows[k] # NoRow => Typed(rows[k], Value) /\ "enabled" \in DOMAIN rows[k]

VARIABLES
  budget,      \* Keys -> items of the Budgets table, or NoRow
  defaults,    \* the sentinel row, or NoRow
  stream,      \* the table's stream: images of non-sentinel rows, in order
  call,        \* the request each administrator has in flight, or Idle
  job,         \* the manifest being applied, or Idle
  editor,      \* the manifest in the Manifest page's editor, or Idle
  lookup,      \* the meter's budget lookup in flight, or Idle
  cached,      \* the meter's defaultsCache
  ops, faults

tableVars == <<budget, stream>>
pageVars  == <<job, editor>>
meterVars == <<lookup, cached>>
counts    == <<ops, faults>>
apiVars   == <<tableVars, defaults, call, pageVars, meterVars, counts>>

Idle == [op |-> "idle"]
ApiInit ==
  /\ budget \in StartBudgets
  /\ defaults \in StartDefaults
  /\ stream = <<>>
  /\ call = [a \in Admins |-> Idle]
  /\ job = Idle /\ editor = Idle /\ lookup = Idle
  /\ cached = defaults
  /\ ops = 0 /\ faults = 0

(* Write an item, or NoRow to delete it; a delete of nothing emits no      *)
(* record.                                                                 *)
Write(k, row) ==
  /\ Len(stream) < MaxLag
  /\ budget' = [budget EXCEPT ![k] = row]
  /\ stream' = IF row = budget[k] THEN stream
               ELSE Append(stream, [key |-> k, row |-> row])
(* A writer other than a manifest run: the run in flight, and the diff it  *)
(* took, are about another table from now on.                              *)
Disturb == job' = IF job = Idle THEN Idle ELSE [job EXCEPT !.alone = FALSE]

(* scopeGuardResult: fails closed for a principal without an account.      *)
InScope(a, k) == AccountOf[k[1]] \in ScopeOf[a]
SuperAdmin(a) == NoAccount \in ScopeOf[a]

Op == ops < MaxOps /\ ops' = ops + 1
Start(a) == call[a] = Idle /\ Op
Finish(a) == call' = [call EXCEPT ![a] = Idle]

(***************************************************************************)
(* POST /admin/budgets, DELETE /admin/budget: one write each.              *)
(***************************************************************************)
Create(a, k, b) ==
  /\ Start(a) /\ InScope(a, k) /\ PostAccepted(k, b)
  /\ Write(k, PostRow(b))
  /\ Disturb
  /\ UNCHANGED <<defaults, call, editor, meterVars, faults>>

Delete(a, k) ==
  /\ Start(a) /\ InScope(a, k)
  /\ Write(k, NoRow)
  /\ Disturb
  /\ UNCHANGED <<defaults, call, editor, meterVars, faults>>

(***************************************************************************)
(* PUT /admin/budget: read, then write the whole item from the read.  An   *)
(* administrator on the page first opens the form on a listed row.         *)
(***************************************************************************)
OpenForm(a, k) ==
  /\ Start(a) /\ InScope(a, k)
  /\ budget[k] # NoRow /\ "limit" \in DOMAIN budget[k]  \* toFixed of a limit
  /\ call' = [call EXCEPT ![a] = [op |-> "form", key |-> k, row |-> budget[k]]]
  /\ UNCHANGED <<tableVars, defaults, pageVars, meterVars, faults>>

PutRead(a, k, b) ==
  /\ InScope(a, k) /\ BodyAccepted(b)
  /\ budget[k] # NoRow
  /\ PutAccepted(k, budget[k], b)
  /\ call' = [call EXCEPT ![a] =
                [op |-> "put", key |-> k, body |-> b, seen |-> budget[k]]]
  /\ UNCHANGED <<tableVars, defaults, pageVars, meterVars, faults>>
Put(a, k, b)   == Start(a) /\ PutRead(a, k, b)
Save(a, edit)  ==
  /\ call[a].op = "form"
  /\ PutRead(a, call[a].key, FormBody(call[a].row, edit))
  /\ UNCHANGED ops
(* Cancel, or a body the API answers 400 or 404 to.                        *)
Close(a) ==
  /\ call[a].op = "form"
  /\ Finish(a)
  /\ UNCHANGED <<tableVars, defaults, pageVars, meterVars, counts>>

PutWrite(a) ==
  /\ call[a].op = "put"
  /\ Write(call[a].key, PutRow(call[a].seen, call[a].body))
  /\ Finish(a) /\ Disturb
  /\ UNCHANGED <<defaults, editor, meterVars, counts>>

(***************************************************************************)
(* POST /admin/budget/toggle: read enabled, then SET its opposite.  SET    *)
(* creates an item that is not there.                                      *)
(***************************************************************************)
ToggleRead(a, k) ==
  /\ Start(a) /\ InScope(a, k)
  /\ budget[k] # NoRow
  /\ call' = [call EXCEPT ![a] =
                [op |-> "toggle", key |-> k, next |-> ~budget[k].enabled]]
  /\ UNCHANGED <<tableVars, defaults, pageVars, meterVars, faults>>

ToggleWrite(a) ==
  LET k == call[a].key IN
  /\ call[a].op = "toggle"
  /\ Write(k, IF budget[k] = NoRow THEN [enabled |-> call[a].next]
              ELSE Over([enabled |-> call[a].next], budget[k]))
  /\ Finish(a) /\ Disturb
  /\ UNCHANGED <<defaults, editor, meterVars, counts>>

(***************************************************************************)
(* PUT /admin/defaults.  Its Get and Put are one step: the sentinel has no *)
(* other writer than super-admins, and nothing here depends on their race. *)
(***************************************************************************)
SetDefaults(a, b) ==
  /\ Start(a) /\ SuperAdmin(a)
  /\ defaults' = DefaultsPut(IF defaults = NoRow THEN NoDefaults ELSE defaults, b)
  /\ Disturb
  /\ UNCHANGED <<tableVars, call, editor, meterVars, faults>>

(* DELETE /admin/budget does not refuse the sentinel's key.                *)
DropDefaults(a) ==
  /\ Start(a) /\ SuperAdmin(a)
  /\ defaults' = NoRow
  /\ Disturb
  /\ UNCHANGED <<tableVars, call, editor, meterVars, faults>>

(***************************************************************************)
(* POST /admin/budgets:apply, from the Manifest page or apply-budgets.ts:  *)
(* a dry run computes the diff it shows; the apply scans again, then       *)
(* writes the changed entries, the removals and the sentinel one by one.   *)
(***************************************************************************)
Listed(m)    == DOMAIN m.budgets
Unchanged(m) == {k \in Listed(m) : budget[k] # NoRow /\ SameBudget(m.budgets[k], budget[k])}
Removed(m)   == {k \in m.delete : budget[k] # NoRow}
NoChanges(m) ==
  /\ Unchanged(m) = Listed(m) /\ Removed(m) = {}
  /\ m.defaults # NoRow => ~DefaultsChanged(defaults, m.defaults)

(* The page loads the current state into its editor.                       *)
Export ==
  /\ editor = Idle /\ job = Idle /\ Op
  /\ editor' = [op |-> "edit", m |->
       [budgets |-> [k \in {j \in Keys : budget[j] # NoRow} |-> Exported(budget[k])],
        delete |-> {},
        defaults |-> Only(IF defaults = NoRow THEN NoDefaults ELSE defaults,
                          {"enabled", "limit"})]]
  /\ UNCHANGED <<tableVars, defaults, call, job, meterVars, faults>>
Author(m) ==
  /\ editor = Idle /\ job = Idle /\ Op
  /\ \A k \in Listed(m) : EntryAccepted(m.budgets[k])
  /\ editor' = [op |-> "edit", m |-> m]
  /\ UNCHANGED <<tableVars, defaults, call, job, meterVars, faults>>

(* Dry run, look at the diff, confirm.  Nothing to apply ends the script.  *)
Confirm ==
  /\ editor # Idle /\ job = Idle /\ ~NoChanges(editor.m)
  /\ job' = [op |-> "confirm", alone |-> TRUE]
  /\ UNCHANGED <<tableVars, defaults, call, editor, meterVars, counts>>
Discard ==
  /\ editor # Idle /\ job.op \in {"idle", "confirm"}
  /\ editor' = Idle /\ job' = Idle
  /\ UNCHANGED <<tableVars, defaults, call, meterVars, counts>>

ApplyScan ==
  LET m == editor.m IN
  /\ job.op = "confirm"
  /\ job' = [op |-> "apply", alone |-> TRUE,
             puts |-> Listed(m) \ Unchanged(m), dels |-> Removed(m),
             defs |-> m.defaults # NoRow /\ DefaultsChanged(defaults, m.defaults),
             cur |-> defaults]
  /\ UNCHANGED <<tableVars, defaults, call, editor, meterVars, counts>>

ApplyPut ==
  /\ job.op = "apply"
  /\ \E k \in job.puts :
       /\ Write(k, EntryRow(editor.m.budgets[k]))
       /\ job' = [job EXCEPT !.puts = @ \ {k}]
  /\ UNCHANGED <<defaults, call, editor, meterVars, counts>>
ApplyDelete ==
  /\ job.op = "apply" /\ job.puts = {}
  /\ \E k \in job.dels :
       /\ Write(k, NoRow)
       /\ job' = [job EXCEPT !.dels = @ \ {k}]
  /\ UNCHANGED <<defaults, call, editor, meterVars, counts>>
ApplyDefaults ==
  /\ job.op = "apply" /\ job.puts = {} /\ job.dels = {} /\ job.defs
  /\ defaults' = DefaultsPut(IF job.cur = NoRow THEN NoDefaults ELSE job.cur,
                             editor.m.defaults)
  /\ job' = [job EXCEPT !.defs = FALSE]
  /\ UNCHANGED <<tableVars, call, editor, meterVars, counts>>
ApplyEnd ==
  /\ job.op = "apply" /\ job.puts = {} /\ job.dels = {} /\ ~job.defs
  /\ job' = [op |-> "done", alone |-> job.alone]
  /\ UNCHANGED <<tableVars, defaults, call, editor, meterVars, counts>>
Leave ==
  /\ job.op = "done"
  /\ job' = Idle /\ editor' = Idle
  /\ UNCHANGED <<tableVars, defaults, call, meterVars, counts>>
(* A write fails or the Lambda times out half way: what was written stays, *)
(* the editor keeps the manifest and the operator may run it again.        *)
ApplyDies ==
  /\ job.op = "apply" /\ faults < MaxFaults
  /\ faults' = faults + 1
  /\ job' = Idle
  /\ UNCHANGED <<tableVars, defaults, call, editor, meterVars, ops>>

(***************************************************************************)
(* The meter: exact row, then wildcard row, then the default budget.  A    *)
(* failed read counts as a missing row.                                    *)
(***************************************************************************)
Covered(k)  == WildKey(k) \in Keys /\ budget[WildKey(k)] # NoRow
LookedUp(k) == [op |-> "default", key |-> k, wild |-> Covered(k)]
(* Mutant of MeterLookup: no fallback to the wildcard row. *)
LookupExact(k) ==
  /\ lookup = Idle /\ Op
  /\ k[2] # Wild
  /\ budget[k] = NoRow
  /\ lookup' = LookedUp(k)
  /\ UNCHANGED <<tableVars, defaults, call, pageVars, cached, faults>>
MeterLookup(k) ==
  /\ lookup = Idle /\ Op
  /\ k[2] # Wild
  /\ budget[k] = NoRow /\ ~Covered(k)
  /\ lookup' = LookedUp(k)
  /\ UNCHANGED <<tableVars, defaults, call, pageVars, cached, faults>>
MeterMisreads(k) ==
  /\ lookup = Idle /\ Op /\ faults < MaxFaults
  /\ k[2] # Wild
  /\ budget[k] # NoRow \/ Covered(k)
  /\ faults' = faults + 1
  /\ lookup' = LookedUp(k)
  /\ UNCHANGED <<tableVars, defaults, call, pageVars, cached>>
(* fetchDefaults: the cache serves until it expires; a failed read caches  *)
(* no defaults.                                                            *)
CacheDefaults ==
  /\ lookup # Idle
  /\ \/ cached # defaults /\ cached' = defaults /\ UNCHANGED faults
     \/ /\ cached # NoRow /\ faults < MaxFaults
        /\ cached' = NoRow /\ faults' = faults + 1
  /\ UNCHANGED <<tableVars, defaults, call, pageVars, lookup, ops>>
(* Mutant of MeterDefault: the Put is unconditional. *)
DefaultAnyway ==
  /\ lookup # Idle
  /\ LET d == cached IN
     IF d # NoRow /\ d.enabled /\ d.limit > 0
     THEN Write(lookup.key, DefaultRow(d)) /\ Disturb
     ELSE UNCHANGED <<tableVars, job>>
  /\ lookup' = Idle
  /\ UNCHANGED <<defaults, call, editor, cached, counts>>
MeterDefault ==
  /\ lookup # Idle
  /\ LET d == cached IN
     IF /\ d # NoRow /\ d.enabled /\ d.limit > 0
        /\ budget[lookup.key] = NoRow            \* attribute_not_exists
     THEN Write(lookup.key, DefaultRow(d)) /\ Disturb
     ELSE UNCHANGED <<tableVars, job>>
  /\ lookup' = Idle
  /\ UNCHANGED <<defaults, call, editor, cached, counts>>

Administers(a) ==
  \/ \E k \in Keys : \/ Delete(a, k) \/ OpenForm(a, k) \/ ToggleRead(a, k)
                     \/ \E b \in Bodies : Create(a, k, b) \/ Put(a, k, b)
  \/ \E edit \in Edits : Save(a, edit)
  \/ Close(a) \/ PutWrite(a) \/ ToggleWrite(a)
  \/ DropDefaults(a) \/ \E b \in DefaultBodies : SetDefaults(a, b)
Manifest ==
  \/ Export \/ (\E m \in Manifests : Author(m)) \/ Confirm \/ Discard
  \/ ApplyScan \/ ApplyPut \/ ApplyDelete \/ ApplyDefaults \/ ApplyEnd
  \/ Leave \/ ApplyDies
Meter ==
  \/ \E k \in Keys : MeterLookup(k) \/ MeterMisreads(k)
  \/ CacheDefaults \/ MeterDefault
ApiNext == (\E a \in Admins : Administers(a)) \/ Manifest \/ Meter
================================================================================
