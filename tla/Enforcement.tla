------------------------------ MODULE Enforcement ------------------------------
(***************************************************************************)
(* The deny life cycle: the enforcement stream consumer that creates,      *)
(* records and attaches bbg-deny-* policies, and the two ways a deny is    *)
(* removed again, the period-rollover Lambda and the budgets API's release *)
(* route.  Every call to DynamoDB or IAM is a step of its own, so every    *)
(* await of the source is a point where the others may run.                *)
(*                                                                         *)
(* One consumer per principal: all rows of a principal share a partition   *)
(* key, hence a stream shard, and a shard is consumed in order by one      *)
(* invocation at a time.                                                   *)
(***************************************************************************)
EXTENDS Integers, Sequences, FiniteSets

CONSTANTS
  Principals,     \* attachable or federated principals that own spend rows
  Targets,        \* concrete targets, model#<id> or profile#<arn>
  Wilds,          \* wildcard budget targets, model#* and profile#*
  WildOf,         \* the wildcard each concrete target falls under
  AttachKind,     \* per principal: "attach", "condition" (gated only by the
                  \* policy's Condition) or "none" (not enforceable)
  BudgetValues,   \* budgets an administrator may store
  StartBudgets,   \* contents the Budgets table may start with
  Removers,       \* concurrent release / rollover invocations
  Serialized,     \* TRUE: operators never let two removals of one deny overlap
  NoPolicy, NoRow, NoBudget,
  (* Bounds of the model. *)
  MaxPeriod,      \* periods are 1..MaxPeriod
  MaxSpend,       \* metered units per row
  MaxLate,        \* periods an invocation log may arrive late
  BatchSize,      \* records per consumer invocation
  RetryAttempts,  \* redeliveries of a failed batch before it is dropped
  MaxUse          \* how often: admin edits of a budget or the kill switch,
                  \* manual removals, faults (AWS calls that fail after
                  \* their retries), crashes (invocations killed half way)

Periods       == 1..MaxPeriod
Rows          == [principal : Principals, target : Targets, period : Periods]
BudgetTargets == Targets \union Wilds
BudgetKeys    == Principals \X BudgetTargets
Budgets       == [enabled : BOOLEAN, unlimited : BOOLEAN, rated : BOOLEAN,
                  blocks : BOOLEAN, blockAt : Nat]
(* A policy name is a hash of (principal, budget target, period): two rows *)
(* enforced by one wildcard budget in one period share a policy.           *)
Policies      == [principal : Principals, target : BudgetTargets,
                  period : Periods]
Images        == [row : Rows, spend : Nat, stamped : BOOLEAN]
Counts        == [admin : Nat, manual : Nat, faults : Nat, crashes : Nat]

ASSUME TargetsAssumption ==
  /\ WildOf \in [Targets -> Wilds]
  /\ AttachKind \in [Principals -> {"attach", "condition", "none"}]
  /\ BudgetValues \subseteq Budgets
  /\ StartBudgets \subseteq [BudgetKeys -> BudgetValues \union {NoBudget}]
ASSUME NullAssumption ==
  /\ NoPolicy \notin Policies
  /\ NoRow \notin Rows
  /\ NoBudget \notin Budgets
ASSUME BoundsAssumption ==
  /\ MaxPeriod \in Nat \ {0}
  /\ MaxSpend \in Nat
  /\ MaxLate \in Nat
  /\ BatchSize \in Nat \ {0}
  /\ RetryAttempts \in Nat
  /\ MaxUse \in Counts
  /\ Serialized \in BOOLEAN

VARIABLES
  now,        \* the open period
  due,        \* closed periods whose scheduled rollover has not fired yet
  spend,      \* RunningSpend.spendUsd, 0 for a row not written yet
  stamp,      \* RunningSpend.enforcementPolicyArn
  stream,     \* RunningSpend's stream, one shard per principal
  budget,     \* the Budgets table
  paused,     \* ENFORCEMENT_PAUSED of the deployed consumer
  policies,   \* customer-managed deny policies that exist in IAM
  attached,   \* those attached to their principal's user or role
  enf,        \* the consumer of each shard
  rem,        \* the release / rollover invocations
  alarmed,    \* rows whose current stamp raised EnforcementAttachStuck
  used        \* operations taken from each bound

table     == <<spend, stamp, stream>>
iam       == <<policies, attached>>
calendar  == <<now, due>>
vars      == <<calendar, table, budget, paused, iam, enf, rem, alarmed, used>>

EnfPc == {"idle", "create", "get", "stamp", "attach"}
RemPc == {"idle", "next", "list", "detach", "delete", "clear"}
ConsumerStates ==
  [pc : EnfPc, cursor : Nat, retries : Nat, off : BOOLEAN,
   row : Rows \union {NoRow}, pol : Policies \union {NoPolicy}]
RemoverStates ==
  [pc : RemPc, mode : {"release", "rollover"}, todo : SUBSET (Rows \X Policies),
   row : Rows \union {NoRow}, pol : Policies \union {NoPolicy}]

(* off: the kill switch as the invocation was started with it.             *)
Consumer(c, k, o) ==
  [pc |-> "idle", cursor |-> c, retries |-> k, off |-> o,
   row |-> NoRow, pol |-> NoPolicy]
Resting == [pc |-> "idle", mode |-> "release", todo |-> {},
            row |-> NoRow, pol |-> NoPolicy]

ImagesOf(p) == {im \in Images : im.row.principal = p}

TypeOK ==
  /\ now \in Periods
  /\ due \subseteq Periods
  /\ spend \in [Rows -> Nat]
  /\ stamp \in [Rows -> Policies \union {NoPolicy}]
  /\ DOMAIN stream = Principals
  /\ \A p \in Principals : stream[p] \in Seq(ImagesOf(p))
  /\ budget \in [BudgetKeys -> Budgets \union {NoBudget}]
  /\ paused \in BOOLEAN
  /\ policies \subseteq Policies
  /\ attached \subseteq Policies
  /\ enf \in [Principals -> ConsumerStates]
  /\ rem \in [Removers -> RemoverStates]
  /\ alarmed \subseteq Rows
  /\ used \in Counts

Init ==
  /\ now = 1
  /\ due = {}
  /\ spend = [r \in Rows |-> 0]
  /\ stamp = [r \in Rows |-> NoPolicy]
  /\ stream = [p \in Principals |-> <<>>]
  /\ budget \in StartBudgets
  /\ paused = FALSE
  /\ policies = {}
  /\ attached = {}
  /\ enf = [p \in Principals |-> Consumer(0, 0, FALSE)]
  /\ rem = [x \in Removers |-> Resting]
  /\ alarmed = {}
  /\ used = [admin |-> 0, manual |-> 0, faults |-> 0, crashes |-> 0]

(***************************************************************************)
(* The spend row.  Every write to it appends its new image to the stream,  *)
(* the stamping and the clearing of enforcementPolicyArn included.         *)
(***************************************************************************)
Publish(r, s, st) ==
  stream' = [stream EXCEPT ![r.principal] =
    Append(@, [row |-> r, spend |-> s, stamped |-> st # NoPolicy])]

Use(f) == used[f] < MaxUse[f] /\ used' = [used EXCEPT ![f] = @ + 1]

(* upsertSpend: the period is the event's, so a late log writes a closed   *)
(* period's row.                                                           *)
MeterWrite(r) ==
  /\ r.period \in now - MaxLate .. now
  /\ spend[r] < MaxSpend
  /\ spend' = [spend EXCEPT ![r] = @ + 1]
  /\ Publish(r, spend[r] + 1, stamp[r])
  /\ UNCHANGED <<calendar, stamp, budget, paused, iam, enf, rem, alarmed, used>>

(* The calendar crosses a window boundary; EventBridge owes a rollover.    *)
Tick ==
  /\ now < MaxPeriod
  /\ now' = now + 1
  /\ due' = due \union {now}
  /\ UNCHANGED <<table, budget, paused, iam, enf, rem, alarmed, used>>

(* An administrator stores or deletes a budget, or redeploys the consumer  *)
(* with the kill switch flipped.                                           *)
AdminBudget(k, b) ==
  /\ Use("admin")
  /\ budget[k] # b
  /\ budget' = [budget EXCEPT ![k] = b]
  /\ UNCHANGED <<calendar, table, paused, iam, enf, rem, alarmed>>

(* An invocation under way keeps the environment it was started with.      *)
AtRest(p) == enf[p].pc = "idle" /\ enf[p].cursor = 0
AdminPause ==
  /\ Use("admin")
  /\ paused' = ~paused
  /\ enf' = [p \in Principals |->
               IF AtRest(p) THEN [enf[p] EXCEPT !.off = ~paused] ELSE enf[p]]
  /\ UNCHANGED <<calendar, table, budget, iam, rem, alarmed>>

(***************************************************************************)
(* The enforcement consumer.                                               *)
(***************************************************************************)
Pending(p)  == enf[p].cursor < Len(stream[p]) /\ enf[p].cursor < BatchSize
Record(p)   == stream[p][enf[p].cursor + 1]
Advanced(p) == Consumer(enf[p].cursor + 1, enf[p].retries, enf[p].off)
Goto(p, pc) == enf' = [enf EXCEPT ![p].pc = pc]
(* The handler's catch: an error abandons the record, never the batch.     *)
Finish(p)   == enf' = [enf EXCEPT ![p] = Advanced(p)]

(* Mutant of Breaches: the limit itself no longer blocks. *)
BreachesAbove(b, im, rate) ==
  /\ b # NoBudget
  /\ b.enabled
  /\ ~b.unlimited
  /\ (b.rated /\ rate) \/ (b.blocks /\ im.spend > b.blockAt)

(* rated /\ rate: the rpm/tpm sums are over the limit when they are read.  *)
Breaches(b, im, rate) ==
  /\ b # NoBudget
  /\ b.enabled
  /\ ~b.unlimited
  /\ (b.rated /\ rate) \/ (b.blocks /\ im.spend >= b.blockAt)

(* The budgets a record breaches; an exact budget that does not block lets *)
(* the wildcard decide.                                                    *)
Deciding(im, rx, rw) ==
  LET p == im.row.principal
      t == im.row.target
  IN  IF Breaches(budget[<<p, t>>], im, rx) THEN {t}
      ELSE {w \in {WildOf[t]} : Breaches(budget[<<p, w>>], im, rw)}

(* Mutant of Enforceable: the kill switch is not read. *)
EnforceableWhilePaused(im) ==
  /\ ~im.stamped
  /\ AttachKind[im.row.principal] # "none"

Enforceable(im) ==
  /\ ~im.stamped
  /\ ~enf[im.row.principal].off
  /\ AttachKind[im.row.principal] # "none"

DenyPolicy(r, t) ==
  [principal |-> r.principal, target |-> t, period |-> r.period]

EnforceSkip(p) ==
  /\ enf[p].pc = "idle" /\ Pending(p)
  /\ \E rx, rw \in BOOLEAN :
       Enforceable(Record(p)) => Deciding(Record(p), rx, rw) = {}
  /\ Finish(p)
  /\ UNCHANGED <<calendar, table, budget, paused, iam, rem, alarmed, used>>

EnforceDecide(p) ==
  /\ enf[p].pc = "idle" /\ Pending(p)
  /\ Enforceable(Record(p))
  /\ \E rx, rw \in BOOLEAN : \E t \in Deciding(Record(p), rx, rw) :
       enf' = [enf EXCEPT ![p].pc = "create", ![p].row = Record(p).row,
                          ![p].pol = DenyPolicy(Record(p).row, t)]
  /\ UNCHANGED <<calendar, table, budget, paused, iam, rem, alarmed, used>>

(* Mutant of EnforceCreate: a new policy is attached before it is stamped. *)
CreateThenAttach(p) ==
  /\ enf[p].pc = "create"
  /\ policies' = policies \union {enf[p].pol}
  /\ Goto(p, IF enf[p].pol \in policies THEN "get" ELSE "attach")
  /\ UNCHANGED <<calendar, table, budget, paused, attached, rem, alarmed, used>>

(* ensurePolicy: CreatePolicy, or GetPolicy after EntityAlreadyExists.     *)
EnforceCreate(p) ==
  /\ enf[p].pc = "create"
  /\ policies' = policies \union {enf[p].pol}
  /\ Goto(p, IF enf[p].pol \in policies THEN "get" ELSE "stamp")
  /\ UNCHANGED <<calendar, table, budget, paused, attached, rem, alarmed, used>>

EnforceGet(p) ==
  /\ enf[p].pc = "get"
  /\ IF enf[p].pol \in policies THEN Goto(p, "stamp") ELSE Finish(p)
  /\ UNCHANGED <<calendar, table, budget, paused, iam, rem, alarmed, used>>

StampRow(p) ==
  /\ stamp[enf[p].row] = NoPolicy
  /\ stamp' = [stamp EXCEPT ![enf[p].row] = enf[p].pol]
  /\ Publish(enf[p].row, spend[enf[p].row], enf[p].pol)
  /\ alarmed' = alarmed \ {enf[p].row}
  /\ UNCHANGED spend

EnforceStamp(p) ==
  /\ enf[p].pc = "stamp"
  /\ \/ StampRow(p) /\ Goto(p, "attach")
     \/ stamp[enf[p].row] # NoPolicy /\ Finish(p) /\ UNCHANGED <<table, alarmed>>
  /\ UNCHANGED <<calendar, budget, paused, iam, rem, used>>

(* The write lands but its answer is lost; the SDK's own retry then fails  *)
(* the set-once condition and the attach is skipped.                       *)
EnforceStampLost(p) ==
  /\ enf[p].pc = "stamp"
  /\ Use("faults")
  /\ StampRow(p)
  /\ Finish(p)
  /\ UNCHANGED <<calendar, budget, paused, iam, rem>>

(* attachPolicyWithRetry.  Without a user or role behind the principal the *)
(* call is skipped.                                                        *)
EnforceAttach(p) ==
  /\ enf[p].pc = "attach"
  /\ \/ AttachKind[p] # "attach" /\ UNCHANGED attached
     \/ /\ AttachKind[p] = "attach"
        /\ enf[p].pol \in policies
        /\ attached' = attached \union {enf[p].pol}
  /\ Finish(p)
  /\ UNCHANGED <<calendar, table, budget, paused, policies, rem, alarmed, used>>

(* Mutant of EnforceAttachStuck: the exhausted retries raise no alarm. *)
AttachSwallowed(p) ==
  /\ enf[p].pc = "attach"
  /\ AttachKind[p] = "attach"
  /\ enf[p].pol \notin policies
  /\ Finish(p)
  /\ UNCHANGED <<calendar, table, budget, paused, iam, rem, alarmed, used>>

(* The policy is gone: all attempts fail and the alarm is raised.          *)
EnforceAttachStuck(p) ==
  /\ enf[p].pc = "attach"
  /\ AttachKind[p] = "attach"
  /\ enf[p].pol \notin policies
  /\ alarmed' = alarmed \union {enf[p].row}
  /\ Finish(p)
  /\ UNCHANGED <<calendar, table, budget, paused, iam, rem, used>>

(* Any call of the record's processing fails after its retries.            *)
EnforceFault(p) ==
  /\ enf[p].pc # "idle" \/ Pending(p)
  /\ Use("faults")
  /\ alarmed' = IF enf[p].pc = "attach" /\ AttachKind[p] = "attach"
                THEN alarmed \union {enf[p].row} ELSE alarmed
  /\ Finish(p)
  /\ UNCHANGED <<calendar, table, budget, paused, iam, rem>>

(* The handler returns: the event source mapping moves past the batch.     *)
EnforceCheckpoint(p) ==
  /\ enf[p].pc = "idle" /\ enf[p].cursor > 0
  /\ stream' = [stream EXCEPT ![p] =
                  SubSeq(@, enf[p].cursor + 1, Len(@))]
  /\ enf' = [enf EXCEPT ![p] = Consumer(0, 0, paused)]
  /\ UNCHANGED <<calendar, spend, stamp, budget, paused, iam, rem, alarmed, used>>

(* The invocation dies (timeout, out of memory): the batch is delivered    *)
(* again from its start, and dropped once retryAttempts are used up.       *)
EnforceCrash(p) ==
  /\ enf[p].pc # "idle" \/ enf[p].cursor > 0
  /\ Use("crashes")
  /\ IF enf[p].retries < RetryAttempts
     THEN /\ enf' = [enf EXCEPT ![p] = Consumer(0, enf[p].retries + 1, paused)]
          /\ UNCHANGED stream
     ELSE /\ enf' = [enf EXCEPT ![p] = Consumer(0, 0, paused)]
          /\ stream' = [stream EXCEPT ![p] =
                          SubSeq(@, enf[p].cursor + 2, Len(@))]
  /\ UNCHANGED <<calendar, spend, stamp, budget, paused, iam, rem, alarmed>>

(***************************************************************************)
(* Removing a deny: POST /admin/budget/release and period-rollover.        *)
(***************************************************************************)
Claims(x) == rem[x].todo \union
             (IF rem[x].pol = NoPolicy THEN {} ELSE {<<rem[x].row, rem[x].pol>>})
Free(x, S) == Serialized => \A y \in Removers \ {x} :
                              {c[2] : c \in Claims(y)} \intersect S = {}

Stamped(d) == {<<r, stamp[r]>> : r \in {q \in Rows : q.period = d
                                                      /\ stamp[q] # NoPolicy}}

(* The route's Scan takes any one stamped row of the principal and target, *)
(* of whatever period.                                                     *)
ReleaseStart(x, r) ==
  /\ rem[x].pc = "idle"
  /\ stamp[r] # NoPolicy
  /\ Free(x, {stamp[r]})
  /\ Use("manual")
  /\ rem' = [rem EXCEPT ![x] = [pc |-> "list", mode |-> "release", todo |-> {},
                                row |-> r, pol |-> stamp[r]]]
  /\ UNCHANGED <<calendar, table, budget, paused, iam, enf, alarmed>>

(* The byPeriod Query's snapshot of the rows that carry a stamp.           *)
RolloverSnapshot(x, d) ==
  /\ rem[x].pc = "idle"
  /\ Free(x, {c[2] : c \in Stamped(d)})
  /\ rem' = [rem EXCEPT ![x] = [Resting EXCEPT !.pc = "next",
                                !.mode = "rollover", !.todo = Stamped(d)]]
  /\ UNCHANGED <<now, table, budget, paused, iam, enf, alarmed>>

ScheduledRollover(x, d) ==
  /\ d \in due
  /\ due' = due \ {d}
  /\ RolloverSnapshot(x, d)
  /\ UNCHANGED used

ManualRollover(x, d) ==
  /\ d <= now
  /\ Stamped(d) # {}
  /\ Use("manual")
  /\ RolloverSnapshot(x, d)
  /\ UNCHANGED due

(* Mutant of RolloverNext: the page is never advanced. *)
RolloverRepeats(x) ==
  /\ rem[x].pc = "next"
  /\ \/ \E c \in rem[x].todo :
          rem' = [rem EXCEPT ![x].pc = "list", ![x].row = c[1], ![x].pol = c[2]]
     \/ rem[x].todo = {} /\ rem' = [rem EXCEPT ![x] = Resting]
  /\ UNCHANGED <<calendar, table, budget, paused, iam, enf, alarmed, used>>

RolloverNext(x) ==
  /\ rem[x].pc = "next"
  /\ \/ \E c \in rem[x].todo :
          rem' = [rem EXCEPT ![x].pc = "list", ![x].todo = @ \ {c},
                             ![x].row = c[1], ![x].pol = c[2]]
     \/ rem[x].todo = {} /\ rem' = [rem EXCEPT ![x] = Resting]
  /\ UNCHANGED <<calendar, table, budget, paused, iam, enf, alarmed, used>>

RemGoto(x, pc) == rem' = [rem EXCEPT ![x].pc = pc]
(* Give up on this row, its stamp kept: release answers 500, rollover      *)
(* counts a failure and goes on with the next row.                         *)
GiveUp(x) ==
  rem' = [rem EXCEPT ![x] =
            IF @.mode = "release" THEN Resting
            ELSE [@ EXCEPT !.pc = "next", !.row = NoRow, !.pol = NoPolicy]]

RemoveList(x) ==
  /\ rem[x].pc = "list"
  /\ \/ rem[x].pol \notin policies /\ GiveUp(x)          \* NoSuchEntity
     \/ rem[x].pol \in attached /\ RemGoto(x, "detach")
     \/ rem[x].pol \in policies \ attached /\ RemGoto(x, "delete")
  /\ UNCHANGED <<calendar, table, budget, paused, iam, enf, alarmed, used>>

RemoveDetach(x) ==
  /\ rem[x].pc = "detach"
  /\ IF rem[x].pol \in attached THEN RemGoto(x, "delete") ELSE GiveUp(x)
  /\ attached' = attached \ {rem[x].pol}
  /\ UNCHANGED <<calendar, table, budget, paused, policies, enf, alarmed, used>>

(* Mutant of RemoveDelete: a refused deletion still clears the stamp. *)
DeleteThenClear(x) ==
  /\ rem[x].pc = "delete"
  /\ policies' = IF rem[x].pol \in attached THEN policies
                 ELSE policies \ {rem[x].pol}
  /\ RemGoto(x, "clear")
  /\ UNCHANGED <<calendar, table, budget, paused, attached, enf, alarmed, used>>

(* IAM refuses to delete a policy that is attached (DeleteConflict).       *)
RemoveDelete(x) ==
  /\ rem[x].pc = "delete"
  /\ \/ /\ rem[x].pol \in policies \ attached
        /\ policies' = policies \ {rem[x].pol}
        /\ RemGoto(x, "clear")
     \/ /\ rem[x].pol \notin policies \ attached
        /\ GiveUp(x)
        /\ UNCHANGED policies
  /\ UNCHANGED <<calendar, table, budget, paused, attached, enf, alarmed, used>>

(* REMOVE enforcementPolicyArn on condition that it is still this ARN.     *)
RemoveClear(x) ==
  /\ rem[x].pc = "clear"
  /\ IF stamp[rem[x].row] = rem[x].pol
     THEN /\ stamp' = [stamp EXCEPT ![rem[x].row] = NoPolicy]
          /\ Publish(rem[x].row, spend[rem[x].row], NoPolicy)
          /\ UNCHANGED spend
     ELSE UNCHANGED table
  /\ GiveUp(x)
  /\ UNCHANGED <<calendar, budget, paused, iam, enf, alarmed, used>>

(* A call fails for good.  At the final update both paths throw: rollover  *)
(* then abandons the rest of its snapshot.                                 *)
RemoveFault(x) ==
  /\ rem[x].pc \in {"list", "detach", "delete", "clear"}
  /\ Use("faults")
  /\ IF rem[x].pc = "clear" THEN rem' = [rem EXCEPT ![x] = Resting]
                            ELSE GiveUp(x)
  /\ UNCHANGED <<calendar, table, budget, paused, iam, enf, alarmed>>

RemoveCrash(x) ==
  /\ rem[x].pc # "idle"
  /\ Use("crashes")
  /\ rem' = [rem EXCEPT ![x] = Resting]
  /\ UNCHANGED <<calendar, table, budget, paused, iam, enf, alarmed>>

-------------------------------------------------------------------------------
EnforcerStep(p) ==
  \/ EnforceSkip(p) \/ EnforceDecide(p) \/ EnforceCreate(p) \/ EnforceGet(p)
  \/ EnforceStamp(p) \/ EnforceAttach(p) \/ EnforceAttachStuck(p)
  \/ EnforceCheckpoint(p)
RemoverStep(x) ==
  \/ RolloverNext(x) \/ RemoveList(x) \/ RemoveDetach(x) \/ RemoveDelete(x)
  \/ RemoveClear(x)

Next ==
  \/ Tick \/ AdminPause
  \/ \E r \in Rows : MeterWrite(r)
  \/ \E k \in BudgetKeys, b \in BudgetValues \union {NoBudget} : AdminBudget(k, b)
  \/ \E p \in Principals : EnforcerStep(p)
  \/ \E p \in Principals : EnforceStampLost(p) \/ EnforceFault(p) \/ EnforceCrash(p)
  \/ \E x \in Removers, r \in Rows : ReleaseStart(x, r)
  \/ \E x \in Removers, d \in Periods : ScheduledRollover(x, d) \/ ManualRollover(x, d)
  \/ \E x \in Removers : RemoverStep(x) \/ RemoveFault(x) \/ RemoveCrash(x)

Spec == Init /\ [][Next]_vars

(* The event source mapping keeps polling, an invocation runs to its end,  *)
(* time passes and EventBridge fires each scheduled rollover.              *)
Fairness ==
  /\ \A p \in Principals : WF_vars(EnforcerStep(p))
  /\ \A x \in Removers : WF_vars(RemoverStep(x))
  /\ WF_vars(Tick)
  /\ WF_vars(\E x \in Removers, d \in Periods : ScheduledRollover(x, d))
FairSpec == Spec /\ Fairness

-------------------------------------------------------------------------------
(***************************************************************************)
(* Properties.                                                             *)
(***************************************************************************)

(* A deny that IAM enforces is recorded on some spend row, which is the    *)
(* only place rollover and release look for it: clearing a stamp never     *)
(* loses "the only record of a still-attached deny"                        *)
(* (period-rollover/index.ts:186-188).                                     *)
NoOrphanDeny ==
  \A pol \in attached : \E r \in Rows : stamp[r] = pol

(* The same promise step by step: every behaviour of the detailed system   *)
(* is one of DenyRecord, a deny being recorded while some row carries it.  *)
Recorded == {stamp[r] : r \in Rows} \ {NoPolicy}
Abstract == INSTANCE DenyRecord WITH
              Denies <- Policies, denied <- attached, recorded <- Recorded
ImplementsDenyRecord == Abstract!Spec

(* The release runbook (alarms/enforcement-applied-rate.md, steps 1 and 2) *)
(* pauses enforcement and then releases: once no invocation started before *)
(* the switch is left, no deny appears and none that was released comes    *)
(* back, until the switch is turned off again.                             *)
PauseReached == paused /\ \A p \in Principals : enf[p].pc = "idle" /\ enf[p].off
PausedImposesNothing ==
  [][PauseReached /\ paused' => PauseReached' /\ attached' \subseteq attached]_vars

(* Nothing in flight: every stream drained, every invocation at rest.      *)
Settled ==
  /\ \A p \in Principals : stream[p] = <<>> /\ enf[p].pc = "idle"
  /\ \A x \in Removers : rem[x].pc = "idle"

(* Once things settle, a row that says "enforced" of an attachable         *)
(* principal is backed by an attached policy, or EnforcementAttachStuck    *)
(* was raised for it: a false "Enforced" state (enforcement/index.ts:411-  *)
(* 415) is never silent, unless a removal died half way.                   *)
NoSilentInertStamp ==
  Settled /\ used.crashes = 0 => \A r \in Rows \ alarmed :
    stamp[r] # NoPolicy /\ AttachKind[r.principal] = "attach"
      => stamp[r] \in attached

(* The budgets that limit a row by what code and documents agree on: a     *)
(* block limit of more than nothing ("limitUsd > 0", api/budgets/index.ts: *)
(* 446), the row's own, or the wildcard's where no unlimited budget of its *)
(* own opts the row out (docs/declarative-budgets.md:49).  What the code   *)
(* does with the two cases left out is in the model.                       *)
Limiting(b)  == b # NoBudget /\ b.enabled /\ ~b.unlimited /\ b.blocks /\ b.blockAt > 0
OptedOut(r)  == budget[<<r.principal, r.target>>] # NoBudget
                /\ budget[<<r.principal, r.target>>].unlimited
LimitsOf(r)  ==
  {t \in {r.target, WildOf[r.target]} :
     Limiting(budget[<<r.principal, t>>]) /\ (t = r.target \/ ~OptedOut(r))}

(* Once things settle, no row has reached a limit in force without being   *)
(* enforced, also when invocations died on the way: one lost or            *)
(* mis-ordered record would do.                                            *)
BreachedIsStamped ==
  Settled /\ ~paused =>
    \A r \in {q \in Rows : AttachKind[q.principal] # "none"} :
      (\E t \in LimitsOf(r) : spend[r] >= budget[<<r.principal, t>>].blockAt)
        => stamp[r] # NoPolicy

(* The consumer sees the stream events of its own stamps, and removals     *)
(* feed it more; that feedback dies out.                                   *)
FeedbackEnds == <>[]Settled

(***************************************************************************)
(* The inductive invariant behind NoOrphanDeny, for Serialized removals.   *)
(***************************************************************************)
(* IAM only attaches policies that exist, and deletes only detached ones.  *)
AttachedExist == attached \subseteq policies

(* A consumer works on its own principal's row and policy.                 *)
OwnWork ==
  \A p \in Principals : enf[p].pc # "idle" =>
    /\ enf[p].row \in Rows /\ enf[p].row.principal = p
    /\ enf[p].pol \in Policies /\ enf[p].pol.principal = p

(* A remover off "idle" and "next" holds a row and a policy.               *)
Holding ==
  \A x \in Removers :
    /\ rem[x].pc \in {"idle", "next"} => rem[x].row = NoRow /\ rem[x].pol = NoPolicy
    /\ rem[x].pc \notin {"idle", "next"} =>
         rem[x].row \in Rows /\ rem[x].pol \in Policies
    /\ rem[x].pc = "idle" => rem[x].todo = {}

(* What a remover still has to clear is still stamped ...                  *)
ClaimsStamped == \A x \in Removers : \A c \in Claims(x) : stamp[c[1]] = c[2]

(* ... and is claimed by it alone, and the current row once.               *)
ClaimsDisjoint ==
  /\ \A x, y \in Removers : \A c \in Claims(x), e \in Claims(y) :
       c[2] = e[2] => x = y
  /\ \A x \in Removers : rem[x].pc \notin {"idle", "next"} =>
       <<rem[x].row, rem[x].pol>> \notin rem[x].todo

(* About to attach a policy that exists: this row still records it.        *)
AttachRecorded ==
  \A p \in Principals : enf[p].pc = "attach" /\ enf[p].pol \in policies
    => stamp[enf[p].row] = enf[p].pol

(* About to clear a row: its deny is gone, or was since re-imposed through *)
(* another row that shares the policy.                                     *)
ClearSafe ==
  \A x \in Removers : rem[x].pc = "clear" =>
    /\ rem[x].pol \in attached =>
         \E r \in Rows \ {rem[x].row} : stamp[r] = rem[x].pol
    /\ \A p \in Principals : enf[p].pc = "attach" /\ enf[p].row = rem[x].row
         => enf[p].pol \notin policies

(* Typing needs to know what consumers and removers hold.                  *)
TypeInv == TypeOK /\ OwnWork /\ Holding

IInv ==
  /\ TypeInv
  /\ AttachedExist
  /\ ClaimsStamped
  /\ ClaimsDisjoint
  /\ AttachRecorded
  /\ ClearSafe
  /\ NoOrphanDeny

(***************************************************************************)
(* When a deny that settles is as the row says.                            *)
(***************************************************************************)
(* An enforced row's policy is its own: no wildcard budget that may ever   *)
(* be stored covers two targets of a principal.  Where one does, the       *)
(* rows share a policy, and removing the deny of one leaves the stamp of   *)
(* the other on an inert policy.                                           *)
Storable(p, w) == MaxUse.admin > 0 \/ \E b \in StartBudgets : b[<<p, w>>] # NoBudget
WildcardsApart ==
  /\ Targets \intersect Wilds = {}
  /\ \A p \in Principals, t, u \in Targets :
       t # u /\ WildOf[t] = WildOf[u] => ~Storable(p, WildOf[t])

(* No call to AWS fails for good ...                                       *)
NoFaults == MaxUse.faults = 0

(* ... nothing is edited, and no batch is lost to its retries.             *)
Undisturbed == NoFaults /\ MaxUse.admin = 0 /\ MaxUse.crashes <= RetryAttempts
================================================================================
