# A verification development for the Bedrock spend-budget guardrails

The system meters Amazon Bedrock invocations per principal, keeps running spend
per budget period in DynamoDB, and denies a principal further use by attaching an
IAM policy once a budget is exhausted.  Nothing in it runs in one place: a dozen
Lambda functions share a few tables and IAM, each await is a point where the
others may run, and every Lambda may die half way and be run again.  This
directory models those interleavings in TLA+, checks them with TLC, and proves
the central properties with TLAPS.

All paths below are relative to the repository root.

## 1. The system and its parts

| Part | State it keeps | Operations | Interacts through |
|---|---|---|---|
| log forwarder `lambda/src/cwl-forwarder` | none | forwards Bedrock invocation logs to the event bus | meter, identity cache |
| **meter** `lambda/src/meter` | `RunningSpend`, `PendingMeter`, rate buckets; caches of budgets, defaults, prices, discounts | join a log with its identity, add its cost to up to three rows, park it when the identity is not known yet, drain parked logs, materialise default budgets | `RunningSpend` stream, `Budgets`, `Pricing` |
| **identity cache** `lambda/src/identity-cache` | `IdentityCache`, `PrincipalsSeen`, `AgentSessions` | record who made a request (from CloudTrail), announce it to parked logs | `identity-arrived` events |
| **enforcement** `lambda/src/enforcement` | `RunningSpend.enforcementPolicyArn`, IAM policies and attachments | per stream record: test budgets, create the deny policy, stamp the row, attach | `RunningSpend` stream (also its own writes), IAM |
| **period rollover** `lambda/src/period-rollover` | none (removes the above) | per stamped row of the closed period: list, detach, delete, clear the stamp | EventBridge Scheduler, IAM, `RunningSpend` |
| **release route** in `lambda/src/api/budgets` | none (removes the above) | the same, for one row an administrator names | as above |
| **budgets API** `lambda/src/api/budgets`, manifest `lambda/src/shared/manifest.ts`, `scripts/apply-budgets.ts`, pages | `Budgets`, its sentinel row of defaults | create, edit, toggle, delete, set defaults, export and apply a manifest | read by meter and enforcement, `Budgets` stream |
| **AWS Budgets action sync** `lambda/src/budgets-action-sync` | AWS Budgets, `bbg-deny-cur-*` policies | mirrors each record of the `Budgets` stream | `Budgets` stream |
| **ledger writer** `lambda/src/ledger-writer`, backfill script | JSON lines in S3 | one line per changed row of a batch; rebuild rows from lines | `RunningSpend` stream |
| **spend corrections** `lambda/src/shared/spend-corrections.ts`, `scripts/apply-spend-repairs.ts` | rows, ledger objects, `completed.json` | apply a reviewed plan, once | `RunningSpend`, S3 |
| **CUR reconciler** `lambda/src/cur-reconciler` | a report | compare the bill with the ledger | Athena |
| **spend API and pages** `lambda/src/api/spend`, dashboard, my budget | none | sum rows by month, model, principal, account, region | `RunningSpend` |
| **notify** `lambda/src/notify`, profile and users pages | `lastNotifiedThreshold`, a five-minute list of people | mail enforcement and threshold crossings | `RunningSpend` stream (also its own writes), Cognito |
| **org discount resolver** `lambda/src/org-discount-resolver`, discount routes | `Pricing` rows of accounts, units, organization | author a discount, materialise the winning one | Organizations, meter |
| **pricing refresher** `lambda/src/pricing-refresher`, overrides | `Pricing` rows of models | choose rates from offer files, index and reviewed card; override a model | meter |
| **enrolment** `lambda/src/api/enrollment`, its page, `infra/lib`, pipeline | one SSM parameter shared by the stages, StackSets | choose accounts, units or the whole organization; bootstrap, synthesise, deploy | Organizations, CloudFormation |
| **users API, activity** `lambda/src/api/users`, `api/identities`, `shared/activity.ts` | Cognito users and groups, `PrincipalActivity` | create, regroup, disable, readdress, delete; page through the feed | Cognito, DynamoDB |
| **readiness** `lambda/python/readiness` and its page | jobs in S3, a history per execution environment | start, audit, sweep, compare, poll | S3, STS, Lambda |
| gateway, sign-in triggers, inference profiles, reports, audit, regions, agent sessions | single items or none | request/response | none of the above |

`PROJECT.json` lists every part with what is modelled of it; the bold ones are.

### What makes each part correct, and what is hard about it

* **Enforcement and removal.**  A row over its limit ends up denied; a deny that
  IAM enforces is always recorded on a row, because the stamp is the only place
  rollover and release look; a stamp without a deny is never silent.  Hard: the
  consumer and up to several removers work on the same policy and row through
  separate calls to two services; the policy name is a hash, so a re-imposed deny
  is indistinguishable from the one just removed; several rows can share one
  policy; invocations die and are delivered again; the consumer reads its own
  writes back from the stream.
* **Metering.**  A request is billed at most once to a row, and is billed at all
  even when its identity arrives late.  Hard: log and identity race; both
  handlers are retried; the drain deletes what it failed to commit.
* **Budgets and their mirror.**  A manifest takes hold, defaults never replace or
  shadow a budget, the mirror ends where the table does.  Hard: reads before
  writes in the form, the toggle, the meter and the manifest's diff; an apply is
  row by row and may die.
* **Ledger, repairs, reconciliation, pages.**  Each dollar once, in every sum
  made of rows that repeat it.  Hard: three rows per request, stream images,
  repairs that write rows and ledger separately and die between, late logs of
  requests that were already repaired.
* **Notifications.**  Each onset of a deny to exactly those it concerns, each
  crossing to those who asked for it.  Hard: stale images, a list renewed in two
  calls while its people change, pages that save what they loaded long ago.
* **Prices and discounts.**  The most specific discount, the best SKU, and what
  an operator entered always wins.  Hard: overlapping runs, edits during a run,
  SKUs in any order, truncated runs.
* **Enrolment.**  What an operator last applied comes to be deployed, and an
  account has one owner.  Hard: two stages share a parameter that has several
  shapes; bootstrap, synthesis and deployment read it at different times.
* **Users, activity, readiness.**  No event lost or on the wrong timeline, no
  user stripped of groups by a half-done request, a page that ends its wait and
  a comparison with the right predecessor.

## 2. Plan

Modelled and checked: the deny life cycle (`DenyRecord`, `Enforcement`); the join
of log and identity (`Billing`, `MeterJoin`); the control plane of budgets
(`BudgetRows`, `BudgetsApi`, `ActionSync`, `ControlPlane`); what hangs on the spend
table (`SpendTable`, `Principals`, `LedgerWriter`, `SpendRepairs`, `CurReconciler`,
`SpendViews`, `SpendStream`, `MailingList`, `Notify`, `Notices`); discounts and prices
(`OrgDiscounts`, `PriceList`, `PriceRefresh`); enrolment, accounts, readiness
(`Enrollment`, `ActivityFeed`, `Accounts`, `Readiness`).

Proved: the 34 properties of states and steps that the runs check, each for any
instance (section 5).  The six liveness properties stay with TLC.

What could be added, in this order:

1. A composition of metering and enforcement through the stream, with the meter's
   several rows of a request as several records.
2. `Period` and `RateWindow` as pure modules against reference definitions: the
   boundaries of weeks, five-hour buckets and sliding windows.
3. The toggle of a budget that is overtaken by a delete (the one hazard no
   property covers), once what the consumers of the `Budgets` stream make of a row
   without a limit is modelled.

Every module is written to be proved about: parameters are CONSTANTS with named
assumptions, one action per operation, and no RECURSIVE operator.

## 3. The modules

### DenyRecord

What the deny life cycle promises, in four actions on two sets: a deny is
recorded, imposed only when recorded, lifted, and forgotten only when not imposed.

### Enforcement

State, and what it stands for in the code:

| Variable | Code |
|---|---|
| `now`, `due` | the open period; EventBridge schedules that have come due (`infra/lib/enforcement-stack.ts:170-225`) |
| `spend`, `stamp` | `RunningSpend.spendUsd` and `.enforcementPolicyArn` per (principal, target, period) |
| `stream` | the table's stream.  One shard per principal: the partition key is the principal, and a shard is consumed in order by one invocation at a time |
| `budget` | the `Budgets` table; keys are exact targets or the wildcards `model#*`, `profile#*` |
| `paused` | `ENFORCEMENT_PAUSED`; `enf[p].off` is the value the running invocation started with |
| `policies`, `attached` | customer-managed `bbg-deny-*` policies in IAM and their attachments |
| `enf[p]` | the consumer invocation of a shard: place in the batch, deliveries used, and the call it will make next |
| `rem[x]` | a release or rollover invocation: snapshot still to do, current row and policy, next call |
| `alarmed` | rows for which `EnforcementAttachStuck` was emitted since their stamp |
| `used` | operations taken from each bound |

One call to DynamoDB or IAM is one step.  The consumer's record is
`EnforceSkip`, or `EnforceDecide` then `EnforceCreate` (`EnforceGet` when the
policy exists), `EnforceStamp`, `EnforceAttach` (or `EnforceAttachStuck`);
`EnforceCheckpoint` is the handler's return, `EnforceCrash` an invocation that
dies and is delivered again or, after `RetryAttempts`, dropped, `EnforceFault` a
call that fails for good and is caught per record.  A removal is `ReleaseStart`
or a `RolloverSnapshot` followed by `RolloverNext`, and then `RemoveList`,
`RemoveDetach`, `RemoveDelete`, `RemoveClear` for both; an error is `GiveUp`.

Abstractions, and why they are harmless here:

* A policy is what its name hashes: principal, budget target, period.
* Reading the exact and the wildcard budget and the rate sums is one step with
  the decision.  The sums are a nondeterministic answer, read independently for
  each budget.
* The pages of rollover's query are one snapshot; a smaller snapshot is a manual
  rollover that failed on the rest.
* Attach retries are one step: they only wait for the policy to appear.
* `bisectBatchOnError` is not spelled out: a batch that keeps killing its
  consumer loses the record it died on.  It loses no fewer in the model than in
  the code.
* AWS retries of a rollover that threw are manual rollovers in the model.
* Administrators edit a budget in one step (the API's own races are in `BudgetsApi`).

`Serialized` is an assumption on operators: no two removals of one deny overlap.
The code does not enforce it.  The properties below that need it say so, and the
divergences below tell what happens without it.  `NoFaults`, `Undisturbed` and
`WildcardsApart` are hypotheses on the constants under which two of the theorems
hold (section 5); none is assumed in a run.

### MCEnforcement

The instances: budgets of every kind the API stores (blocking at 0, 1, 2,
rate-limited, unlimited, alert-only, disabled), initial tables, and how often
each bounded operation may happen.

### Billing

What metering promises of a bill: a set of (request, row) charges and a total per
row.  A charge is allowed only where the request has no row for that line yet
(model, inference profile, SSO user, source identity), and a view only after the
model line.

### MeterJoin

| Variable | Code |
|---|---|
| `mail`, `sent`, `dlq` | deliveries under way, everything that may be delivered again, the metering dead-letter queue (`infra/lib/metering-stack.ts:96`, `:247-276`, `:359-414`) |
| `identity`, `pending` | the `IdentityCache` and `PendingMeter` tables; who a request's identity is, is a constant of the request (`CtOwner`, `LensOf`) |
| `spend`, `processed` | `RunningSpend.spendUsd` and `.processedRequestIds` per (principal, target, window) |
| `bucket` | `RateCounters.requestCount`, one minute |
| `budget`, `cached` | the window and rate limits the meter reads of a budget, and what containers still believe of it (`budgetMetaCache`, five minutes) |
| `lastSeen` | `PrincipalsSeen.lastSeen` |
| `meter[w]`, `tracer[x]` | invocations of the meter and the identity cache: the message and the call they will make next |
| `used` | operations taken from each bound |

The meter's invocation is `MeterSkip` (a zeroed stream record), or `MeterTake`
followed, for a log, by `MeterIdentify` and then `MeterPark` or the commit; for an
announced identity, by `MeterFetch`, `MeterLookup`, the commit and `MeterDelete`.
The commit is one `MeterCharge` (or `MeterCharged` when the row has the request,
`MeterRefused` when the item is full) per row in the order of
`commitJoinedSpend`, with `MeterCount` after a row whose budget is rate-limited.
`MeterFault` is a call that throws inside one of the two catches, `MeterCrash` an
invocation that dies, times out or throws outside them, and is retried.  The
identity cache is `TracerTake`, `TracerNote`, `TracerSee`, `TracerLook` and
`TracerEmit`.  The code's two crucial windows are between `MeterIdentify` and
`MeterPark`, and between `TracerNote` and `TracerLook`.

Abstractions:

* All requests use one model and one profile, the same open period of each window
  and the same minute: they meet in the same rows.  Each costs 1; a zeroed
  stream record would cost 0.
* A batch of logs is one delivery per log.  A batch that dies after some of its
  logs redelivers those too: that is `Redeliver` in the model.
* Reading a budget is one step with the update it is read for, answering with the
  table or with anything a container may still hold.  A read that fails leaves
  the default window behind, as the failed read of both keys does.  Default
  budgets are not materialised.
* A request's CloudTrail event is delivered where the rule lists its eventName.
* The drain script announces one request at a time, and only while no announcement
  of it is under way; that guard bounds the instance.

`SingleChoice`, `Undisturbed`, `LensesFromTrail` and `RatedByModel` are hypotheses
of theorems on the constants (section 5).

### MCMeterJoin

The instances: who is behind the requests, which budgets are rate-limited, and how
often each bounded operation may happen.  Meters are interchangeable, and declared
symmetric where a run checks safety only.

### BudgetRows, BudgetsApi, ActionSync, ControlPlane

`BudgetRows` has one item of the `Budgets` table, what each client sends for it
and what each writer makes of it: items, request bodies and manifest entries are
partial functions of fields, so that a field the code leaves `undefined` is not
there.  `BudgetsApi` has the writers, `ActionSync` the mirror, and `ControlPlane`
puts them together.

| Variable | Code |
|---|---|
| `budget`, `defaults`, `stream` | the `Budgets` table, its sentinel row (`shared/defaults.ts`), and the images on its stream |
| `call[a]` | the open form, or the request that has read and not yet written, of each administrator |
| `editor`, `job` | the manifest in the page's editor; the one being applied, with the diff it took |
| `lookup`, `cached` | the meter between its look at the table and its put of a default; its cache of the sentinel |
| `native`, `actions`, `curPolicy`, `month` | budgets and actions in AWS Budgets, the policies made for them, the month in the policies' names |
| `ops`, `faults` | requests and failures so far |

A `PUT` of the code reads and then writes back (`PutRead`, `PutWrite`), and so
does a toggle (`ToggleRead`, `ToggleWrite`); `Create`, `Delete`, `SetDefaults`,
`DropDefaults` are one call.  A manifest is exported or authored (`Export`,
`Author`), confirmed against a dry run (`Confirm`, `Discard`), and applied:
`ApplyScan`, then `ApplyPut` and `ApplyDelete` row by row, `ApplyDefaults`,
`ApplyEnd`; `ApplyDies` anywhere and `Leave` are the crash and the closed page.
`Sync` takes the next record, makes its calls, or fails at one of them.

Abstractions: `limit` is any integer, since a `POST` refuses only 0; `th` and
`cond` are values that tell budgets apart; `rpm` stands for the three rate fields,
which every writer treats alike; a window is left out, since nothing here depends
on it.

### SpendTable

The `RunningSpend` table as the consumers of its stream see it: `rows` with the
requests they list, dollars, dollars by region, unpriced count, corrections,
stamp, `lastNotifiedThreshold` and the identity-lens marker; `stream`, a record
with both images per write.  The meter's commit is `MeterWrites` row by row, the
model row first (how a request gets there is `MeterJoin`'s subject), enforcement
and removal one write each.  `today` is a day, a month `DaysPerMonth` days.

### Principals, LedgerWriter, SpendRepairs, CurReconciler, SpendViews, SpendStream

`Principals` has what a principal's name says of the account it is of: an ARN's, or
`Unknown` (`accountForDisplay` of the ledger writer and of the spend API).
`LedgerWriter`: `LedgerBatch` turns records into lines, `LedgerAgain` repeats a
batch, `LedgerGivesUp` drops one; `RowDisappears`, `BackfillReads` and
`BackfillPut` are the loss of a row and its recovery from the ledger.
`SpendRepairs`: an operator's run of the plan is `RepairStarts`, `RepairChecks`,
`RepairWrites` (the transaction), `RepairPuts` (the ledger object) and
`RepairCompletes`, with `RepairDies` anywhere; runs may overlap.  A plan is run
once the usage it corrects has been (`Historical`).
`CurReconciler`: `Reconcile` reads a bill that lags behind the calls, `Report`
compares it with the ledger as it is by then.  The bill has a caller's name as
`canonicalizeCurPrincipal` leaves it (`BillName`) and the account it is billed
to (`BillAccount`); of some callers (`Anonymous`) a line may have no name at all.  A
model that has such a line in an account is compared as a whole in that account
(`Pooled`, keyed by account and model as in `totals.ts`), everything else by caller;
the ledger's side of it goes by the account that the principal's name says.
`LedgerWhole` says when the two can
be expected to agree: no due request's row is lost or spoiled, since a row that
is lost and metered again is in the ledger twice.  `SpendViews` has no state: which
rows the spend API's routes, the dashboard and everybody's own page add up, by
month, model, principal, account and region, in an administrator's scope and for
a selected account.  A route that lists spend uses one page of what its query or
scan finds (`Pages`, of `PageRows` rows: any rows, since their order is DynamoDB's);
those that list periods read every page.  `SpendStream` composes them over one table.

Abstractions: a batch of several records is several batches of one; a request
belongs to the day of its log, which the meter and the ledger carry along.

### MailingList, Notify, Notices

| Variable | Code |
|---|---|
| `pools` | what the Cognito pool is, last, after what it has been since the list was begun |
| `form`, `visits` | the profile page of each user and the administrators' edit modal, with the attributes they loaded; pages opened so far |
| `list`, `begun` | notify's five-minute copy: administrators first, users then; the pool it was begun with |
| `heard`, `note` | records of the batch already handled; the threshold still to be persisted for the next |
| `mails`, `due`, `struck` | history: mails by row, subject and person; how many were due to whom; rows whose enforcement was read |

`Listing` fetches the list for a record there is a mail about, `Hear` decides and
mails, `Persist` sets `lastNotifiedThreshold` under its condition, `HearFails`
and `HearDies` are a failed call, after which the record is passed over, and a
batch delivered again.  The pages are `OpensProfile`, `SavesProfile`,
`Readdresses`, `Confirms`, `OpensEdit`, `SavesEdit`, `SavesGroups`: each saves
what it loaded earlier along with what was changed.

Pages and failures are taken where notify is about to look at the pool; earlier
ones make no difference to it.  No two users are mapped to one principal.

### Overlay

`Over(f, g)` is the spread of one object after another: `f` wherever it says
something, `g` elsewhere; `Only`, `Without` and `At` restrict and make functions.
They are the TLC module's `@@` and `:>` in a form the provers can expand.

### OrgDiscounts

| Variable | Code |
|---|---|
| `policy` | `discountPct` of the `Pricing` rows of units and of the organization |
| `row` | an account's row: what is authored on it, and `effectivePct` |
| `place` | the account's path in the Organization, or that it is outside |
| `job[x]` | an invocation of the resolver between what it loaded and what it still has to write |
| `cache` | the meter's copy of an account's percentage |
| `overtaken` | history: accounts edited while an invocation had already read the policies |

`Loads`, `Walks` (or `Degrades`), `Materialises`, `Clears`, `Ends` are the
resolver; `PostAccount`, `DeleteAccount`, `PostScope`, `DeleteScope` the routes;
`MeterLooksUp`, `CacheExpires` the meter; `Relocates` moves an account.  `Winning`
is the precedence of the account, the nearest unit and the organization.

### PriceList, PriceRefresh

`PriceList` is pure: SKUs in an order claim dimensions of a model's rates
(`Claims`, `Rank`; `Holders` says who holds one after each SKU, `Winner` who does
in the end): of tokens (`TokenKinds`) no batch, ultrafast or unreviewed long-context
SKU, of images, seconds and searches any; the reviewed card fills what is open, `CatalogRow` and `OverrideRow`
are what is written, `RatesFor` what the meter charges by; a model without a row
has `NoRow`.
`PriceRefresh` runs it: `Starts`, `Resolves` or `ResolvesByName` and `Writes` per
model, `Reports`, and `OutOfTime` or `Dies`; editors read early and save late
(`OpensEditor`, `SaveReads`, `SaveWrites`, `Deletes`); SKUs are published and
withdrawn meanwhile.  A SKU comes with its parts: how a usage type is parsed into
them is left out.

### Enrollment

`config` is the SSM parameter, each key absent (`NoEntry`), flat or a map of
stages; `page[p]` and
`call[p]` an open page and its request between read, put and the start of the
pipeline; `pipeline` the execution, which bootstraps, synthesises and deploys at
different times; `deployed` the StackSets of each stage and the home bus's
policy; `org` the Organization.  `stuck` says why a put is not in force: a
release failed or was not started.  An execution deploys the stages in their `Turn`
and may end after any of them (`StagesDone`).  What an instance of a StackSet creates
has the same names in every set of every stage, so where two have an instance in one
region of an account, CloudFormation refuses a stack: between two sets of the new
release always (`Contested`), between an old and a new one if the one comes before
the other has gone (`Overlapping`).  `Deploys` fails where that is more than a
StackSet tolerates, and must be able to where it is less; `collided` remembers the
accounts.  `sent` is what the operators last had accepted, `asked` what the deployed
sets were made for.  `MeteredIn` and `Deniable` derive where an
account's calls are metered and whether a deny can be attached there, from the
resources of the member stacks.

### ActivityFeed, Accounts

`Accounts` has users with groups and addresses, requests of administrators that
make one Cognito call at a time (`ChangesGroup`, `LooksUp`, `Removes`) and then
record an event (`Records`), and `RequestDies`.  `ActivityFeed` has the operator
who walks the day buckets of the central feed under a page limit and a cap on
queries (`OpensFeed`, `Queries`, `LoadsMore`), while rows are added.

### Readiness

`page`, `poll`: what the page shows and its polls in flight; `store`: a job's
object in S3; `event`: the deliveries of a job's asynchronous event; `worker[e]`:
the audit an execution environment runs, with the accounts still to do, running,
audited and skipped; `history[e]`: the run history in its `/tmp`.  `Starts`
writes the marker and invokes, in `StartOrder`; a worker `Begins`, audits
accounts in a pool (`TakesAccount`, `PassesOver`, `FinishesAccount`,
`AuditRaises`, before or after the run was recorded), `Completes`, `Persists`,
`Returns`, or `Dies`.  A sweep that fails does so outside the pool (`OutsidePool`):
the executor waits for the audits it has begun.

### The proof modules

`EnforcementProofs`, `MeterJoinProofs`, `ControlPlaneProofs`, `SpendStreamProofs`,
`NoticesProofs`, `AccountsProofs` and `ReadinessProofs` hold the theorems of one
component each, with the invariants they need, and `SettingsProofs` those of the
three components that keep what operators set: prices, discounts, enrolment.
Sums over finite sets (that they exist, do not depend on the order, grow and
shrink with the set, can be regrouped by a key), maxima of finite sets and
sequences of the members of a set are lemmas where they are first needed.
Induction in them is through the least number of a set: a statement about every
number or every subset is shown by refuting the least counterexample, so no
induction rule over an operator is needed.

### The MC modules

`MCControlPlane`, `MCSpendStream`, `MCNotices`, `MCOrgDiscounts`,
`MCPriceRefresh`, `MCEnrollment`, `MCAccounts` and `MCReadiness` hold the
instances: requests, plans, budgets, manifests, people, SKUs, the starting
contents of tables and of the shared parameter.

## 4. What is checked

| Run | Instance | Shows |
|---|---|---|
| `enforcement_safety` | 1 principal, 1 target and a wildcard, 2 periods, spend 1, late metering, 1 remover, one each of: edit or kill switch, manual removal, failed call, killed invocation | `NoOrphanDeny`; refinement of `DenyRecord`; `PausedImposesNothing`: once the pause has reached every consumer nothing new is attached |
| `enforcement_settled` | any kind of exact budget against a wildcard budget, 2 removers, spend up to 2, 1 crash, fair | `BreachedIsStamped` (of limits above 0, and of wildcard limits whose row has no unlimited budget of its own: see the divergences), `NoSilentInertStamp` once nothing is in flight; `FeedbackEnds`: the consumer's feedback through its own stream dies out |
| `meter_join` | 2 requests in one model row, one through a profile and with both lenses, the other streamed and named by its log; 2 meters, a crash or a duplicate, 1 retry, fair | `ImplementsBilling`; `NoSilentLoss` and `AllLinesBilled` once nothing is under way; `BucketNotAhead`; `LateIdentityBills` |
| `meter_rough` | 2 requests, rows with room for one, 2 windows; any 2 of: edit, fault, crash, duplicate, expiry | `BilledInFull`: a row's dollars are the full price of each request it lists, once |
| `control_plane` | 2 principals, exact and wildcard keys, 2 administrators of different scope, 2 manifests, defaults, 2 months; 3 requests, 1 fault, stream lag of 1 | `MirrorConverges`, `MirrorCatchesUp`: AWS Budgets ends where the table does; `ManifestTakesHold`: a manifest left alone is what the table says, also one run again; `DefaultReplacesNothing`, `DefaultRespectsWildcard` |
| `spend_ledger` | 3 requests of one month, which closes: through a profile, unpriced with a lens, unpriced on a legacy row of a caller without an ARN, whom the bill names and bills otherwise; bill lines of the last two with or without a caller; pages of 4 rows, of which a month has 5; a plan of 2 corrections; 1 of: failed or repeated batch, lost row, killed repair, reconciliation; a stream of up to 4 records | `ChargedOrOutstanding`, `LedgerAgrees`, `CompletedIsDone`, `NoPhantomDrift` (the only drift is at callers whose name or account differs between bill and ledger), `TrendCountsOnce` (every sum of the pages counts an invocation once, of those whose row was on the page read), `BackfillReplacesNothing` |
| `notices` | 1 request on a role row and its lens, an older row half spent, 2 people, a fallback mailbox, 1 stamp; 2 changes of the pool; 1 failure or page visit | `DenyMailed`, `CrossingMailed`, `NotifiedRises` |
| `discounts` | 1 account under a root and a unit, 2 overlapping runs of the resolver, 3 edits or moves, 1 fault, fair | `AuthoredHolds`: what is authored for an account holds at once; `DiscountsSettle`: rates settle on the most specific one |
| `price_list` | 2 models, 2 regions, 10 SKUs of 2 services in two orders, for tokens and images, a batch of each; a reviewed card, 2 edits, 1 publication, 1 fault | `OverrideStands`, `RatesAreBest`, `ReportsCoverLive` |
| `enrollment` | 2 stages with a page each, a home, a member and an external account, 1 unit, flat and mapped keys, a flat list that both stages cannot have; 2 applies, 1 trouble, fair | `LastFormStands`; `OneOwner`: one StackSet of a stage, or the account's and its unit's, and only what the stage's operator chose; `EnrolmentLands`: in every account in which no two sets met |
| `accounts` | 2 administrators, 2 ids, 2 addresses, 2 groups; 2 requests, 1 fault; pages of one row, two queries, two days | `OneTimeline`, `NeverStripped`, `WindowServed` |
| `readiness` | 2 jobs, a sweep of 3 accounts by 2 threads or an audit of one, 1 environment, 2 deliveries, 2 faults, fair | `PageSettles`, `SweepAccounts`, `ComparedWithLatest` |

Properties of states in which nothing is under way are stated with the reason for
which they may be off (a stage that is stuck, a failed call, an edit that
overtook a run): those are the ways in which the code does not keep them.

### Bounds

`MaxSpend`, `MaxPeriod`, `MaxLate`, `BatchSize`, `RetryAttempts`, `AsyncRetries`,
`RowCapacity`, `MaxUse`, `MaxTotal`, `MaxOps`, `MaxLag`, `MaxMonth`, `MaxDay`,
`MaxStamps`, `MaxFaults`, `MaxFailures`, `MaxEdits`, `MaxChanges`, `MaxPublished`,
`MaxApplies`, `MaxTroubles`, `MaxRequests` and `MaxDays` bound the instances and
nothing else, and `PageRows` stands for a megabyte; the proofs hold for every value.

* Enforcement.  Principals share no row, policy, shard or consumer (`OwnWork`),
  only the removers, and two removers on one row contend more than two principals
  do.  Two units of spend pass a limit and go beyond it, so records with an old
  image exist; a batch of two has a record before and after the one at which a
  crash strikes.  `RetryAttempts` is 3 in the deployment; one redelivery and one
  crash have a batch delivered twice, and its drop after the last redelivery is
  left to the proofs, whose `NoOrphan` and `Implements` have no such bound.
* `MeterJoin`.  Two requests are the fewest that share a row, two meters the
  fewest that race for one request; one identity cache is enough where it only
  races with the meters.  Lambda retries twice and the model once; an event that
  fails so often that it is put on the dead-letter queue is left to the proofs,
  which have no such bound.  `MaxTotal` bounds what goes wrong in a behaviour
  over all kinds.  A row that fits one request stands for one that fits ten
  thousand.
* `ControlPlane`.  Three requests let an administrator read, another delete and
  the first write; one record of lag puts a later state behind an image.
* `SpendStream`.  `MaxFaults` is shared by everything that goes wrong and by
  reconciliations: one of them in a behaviour.  Two days are a month: the second is
  enough for a bill of the first to be due, and at the third the month is closed,
  which its rows must be before they disappear.  `Lagging`, a CONSTRAINT of the run,
  keeps the ledger writer at most four records behind, more than the rows of any
  one request; the theorems have no such bound.  A page of four rows leaves out
  one of the five that the month can have, any of them.
* `Notices`.  Visits of pages and failures share `MaxFaults`; the list is renewed
  at any time while the pool has changed; `Offered` holds the floor "never", the
  others are in the starting pool.
* `Enrollment`.  `Overlap` is FALSE: two requests do not read the parameter
  before either writes (see the divergences).  Two applies are one for each stage
  or a correction of one.
* `Readiness`.  One environment is where a retried sweep meets its own history;
  two faults kill a worker and lose an answer.  One poll is in flight at a time, so
  the stale poll of the divergences is not reached.
* `OrgDiscounts`, `PriceRefresh`, `Accounts`.  Two overlapping runs or requests,
  and an edit and a failure between any two of their steps.

Deadlock is not checked: a bounded instance stops when its operations are used
up, and so does an idle deployment.

### Fairness

`Enforcement`: the event source mapping keeps polling and an invocation runs to
its end (weak fairness of each consumer and remover), time passes and EventBridge
fires a due rollover.  `MeterJoin`: weak fairness of each meter and each identity
cache says that Lambda delivers what was sent and runs what it started; the drain
script carries none, since it is run by hand.  `ControlPlane`: weak fairness of
`Sync`, the event source mapping of the Budgets stream.  `OrgDiscounts`: the
hourly schedule starts a run whatever became of the last one, runs end, cached
rates expire.  `Enrollment`: a request that was accepted and a release that was
started go on, the release to an end of any kind: that it succeeds is not assumed.  `Readiness`: the page's interval polls and its requests are
answered, Lambda delivers queued events.  Administrators, metering, faults,
crashes and expiries carry none anywhere.

### Divergences

Places where the code does not do what the repository says of it, or what a
reader would expect, met while translating it.  The models contain them unless
noted, and the properties of the runs are stated so as to hold beside them.
Paths are relative to `lambda/src`, except those that begin with `docs`, `web`,
`infra` or `scripts`.

Denies and removal:

* Two removals of one deny that overlap with a re-enforcement clear the stamp of
  the new deny, since the ARN is the same (`api/budgets/index.ts:729`); `Serialized`
  assumes that this does not happen.
* Clearing the stamp of a closed row is a stream record; the consumer finds the
  row over its limit and denies again (`enforcement/index.ts:545`), while
  `docs/runbooks/period-rollover.md:5` and 123-125 say that the rollover deletes
  the rows; it keeps them.
* A release deletes a wildcard budget's deny policy for every row it blocked, and
  clears one stamp: `api/budgets/index.ts:711` against its comment at 653-654.
  The others keep a stamp that nothing enforces, and enforcement skips stamped
  rows (`enforcement/index.ts:375`).
* A consumer killed between stamp and attach leaves such a stamp too: the
  redelivery fails the set-once condition (`enforcement/index.ts:478`), while the
  comment at 163-165 says that there is no redelivery and
  `docs/runbooks/alarms/enforcement-attach-stuck.md:5` that an alarm is raised.
* A rollover killed between delete and clear cannot be redriven: listing the
  missing policy fails (`period-rollover/index.ts:108`), and
  `docs/runbooks/period-rollover.md:122-124` calls it a no-op.
* An unlimited exact budget falls through to the wildcard budget
  (`enforcement/index.ts:344`), and `docs/declarative-budgets.md:49` says that it
  opts out.  `BreachedIsStamped` asks for no stamp there, nor at a limit of 0.
* A limit of 0 denies at the first unit (`enforcement/index.ts:372`), and
  `api/budgets/index.ts:438-439` calls such a budget a no-op; the manifest
  accepts it (`shared/manifest.ts:195`).
* A breached row is looked at when it is next written: after a budget is lowered
  or the kill switch released, nothing is denied until then.

Metering:

* When the identity is written and looked for between the meter's look-up and its
  parking, both rows are there and nobody joins them until the drain script is
  run (`meter/index.ts:790`).
* A parked log is deleted although its commit failed (`meter/index.ts:955`); an
  update that no longer fits the item is dropped without retry (`:487`).
* A log billed to the principal it names is billed again, to another principal,
  when it is delivered again after its identity arrived under another key
  (`meter/index.ts:783`); and again in a new window after the budget's window was
  edited (`:351`), where the rate bucket counts it again.
  `docs/runbooks/meter.md:22` says that double-billing of a request "should be
  impossible", and `:119` that a replay is a no-op.
* A request billed to the principal its log names gets no lens rows.
* `issuerPrincipal` is set at every write (`meter/index.ts:380-384`, "set-once").
* A request through an inference profile counts twice against its principal's rate
  limit where both budgets have one (`meter/index.ts:502`); the comment at
  497-501 takes the principal's row to be one.  The bucket is written when the
  row's own budget has a rate (`:502`), not when any of the principal's has
  (`docs/architecture.md:71`).
* CloudTrail events handled out of order set `lastSeen` back
  (`identity-cache/index.ts:150`); the comment at 141 says it advances.
* The last five-hour bucket of a day begins at 20:00, and its `nextPeriodStart` is
  01:00 of the next day (`shared/period.ts:100-102`).  Not modelled.

Budgets and their mirror:

* `docs/parallel-enforcement.md:45` says that both channels stamp
  `enforcementPolicyArn`; the action sync never does, so no rollover or release
  finds its policies.
* A budget changed to alert only keeps its old action
  (`budgets-action-sync/index.ts:173-180`); an existing policy keeps its old
  document; a new month's policy is made at the next write of the budget.
* The manifest's diff ignores `action` (`shared/manifest.ts`): an entry without
  thresholds is written as alert, while an unchanged row keeps denying.  Defaults
  without `enabled` never diff clean.
* Partial `PUT` bodies can combine `unlimited` with a rate or thresholds that
  block; `DELETE` and the toggle accept the sentinel's key; a toggle overtaken by
  a delete writes a row without a limit (`api/budgets/index.ts:633`).
* A wildcard budget does not override a default row that is already there.
* `docs/declarative-budgets.md:97` says that the page is filled with the current
  state; `web/src/pages/AdminManifest.tsx:62-90` leaves out rates and conditions,
  so applying it unedited removes them.

Ledger, repairs, reconciliation and pages:

* The bill query has no upper bound (`cur-reconciler/index.ts:115`), while
  `docs/runbooks/cur-reconciler.md:163` and 165 say a closed month's scan is
  bounded to that month.  Rows of weekly, daily and five-hour budgets are left
  out of the ledger's side; the first days of a month compare nothing, and its
  last days are never compared by the scheduled run.
* The backfill takes the latest cumulative attributes of a line
  (`scripts/backfill-running-spend-from-ledger.ts:13-15`), which
  `ledger-writer/index.ts:125-157` writes as nested deltas: rebuilt rows hold no
  dollars (`docs/runbooks/dr.md:18` relies on it).  Its insert becomes a ledger
  line again, and a restored row lists no requests, so redelivered ones are
  billed again.
* A correction that creates an identity-lens row, as
  `docs/pricing-accuracy.md:40` asks for, leaves it without its marker
  (`shared/spend-corrections.ts`), so trend and dashboard count its dollars twice
  until the meter writes the row; the instance's correction of a request that is
  not on its rows has no lens, and `LensesMetered` says so for any.  With a lens
  TLC finds `TrendCountsOnce` violated: repair a request nobody metered, and
  `GET /admin/spend/trend` has its dollars under the caller and under the lens.
* A retried batch makes new objects; reports bucket lines by when they were
  written, not by their effective day (`ledger-writer/index.ts:161-166`).
* The routes that list spend use the first page of a query or scan and do not follow
  `LastEvaluatedKey` (`api/spend/index.ts:116-123`, 208-215, 259-265, 287-293), so
  that of more than a megabyte of rows the rest is missing from their sums; the
  routes that list periods do follow it (142-162, 172-193).
* The report shows drift at callers whose name or account differs between the two
  sides although the totals agree: SSO roles, as `shared/arn.ts:130-137` says, roles
  with a path (the assumed-role ARN of the bill has none), and callers without an
  ARN, whose account the ledger does not know (`ledger-writer/index.ts:74-77`) and
  whose lines without a caller are pooled under another account
  (`cur-reconciler/totals.ts:16-22`).
* A row with dollars and no regions that later gains regional ones makes the
  regions' chart smaller than the total
  (`web/src/pages/SpendDashboard.tsx:263-275`); enforcement on a profile row is
  shown at the principal only if a model row came before it (241-246).  Neither
  is in the instance.
* `web/src/pages/Reports.tsx:136-200`: changing the preset while a query runs
  leaves `running` set, and rows of the old preset get the new one's columns.
  Not modelled.

Mails:

* notify decides on the record's image and persists under a condition on the row
  (`notify/index.ts:586`), so a batch delivered again mails a crossing twice;
  `docs/runbooks/notify.md:5` says "(atomic CAS) so retries don't re-send".
* Only exact budgets with a limit are looked at, so a deny by a wildcard budget or
  by a budget that has only a rate is never mailed (362-363), although the code
  below them words mails for rates (425-459).
* A profile page saves every attribute it loaded
  (`web/src/pages/Profile.tsx:178-180`: "we only persist when the user has touched
  the toggle"), so an old page overwrites an administrator's edit; the
  administrators' modal makes derived floors explicit; a floor the pages do not
  offer is shown as another than notify uses (the pool of the instance has none).
* A changed address is unverified and its user gets no mail; the code can only be
  entered on the page that asked for it.
* Of two users mapped to one principal the last listed gets the mails.  Not
  modelled.

Prices and discounts:

* A run of the resolver that had read the policies writes an inherited rate onto an
  account that an operator excludes meanwhile
  (`org-discount-resolver/index.ts:77`), where `meter/index.ts:587-589` says that
  there is no path to it; the next run repairs it.
* `docs/runbooks/pricing-refresher.md:158` says that the refresher overwrites the
  override of a model that comes to have a price, which "is now authoritative", and
  `docs/runbooks/api.md:183` that "the API value wins".  The condition of
  `writePricingRow` (`pricing-refresher/index.ts:937`) refuses the write, as
  `docs/runbooks/pricing-refresher.md:153`, `docs/pricing-nuances.md:47` and
  `docs/runbooks/alarms/pricing-gap-count.md:31` say it does; `OverrideStands` is
  stated after these.
* A region whose offer file failed loses its rate; an override keeps the rates of
  global routing and of long contexts; an edited form pins the rates nobody
  edited; models refreshed by name never count as gaps; clearing an account's
  discount that was deleted meanwhile makes an empty row.

Enrolment:

* The Enrollment page has rows of the Organization's accounts only
  (`web/src/pages/Enrollment.tsx:161`), so an apply drops external accounts, and
  the exclusions of a whole-organization choice.
* A release that enrols something of the Organization lets the home bus accept the
  Organization only (`infra/lib/stages/app-stage.ts:315-331`): external accounts'
  events are refused, while `docs/multi-account-multi-region.md:472` says that the
  external path is unaffected.
* Two requests that read the parameter before either writes lose one write (not
  checked: `Overlap`).  A request while the Organization is unreadable puts its
  accounts on the external list, and the next synthesis throws for both stages.
* "A given member account must only be enrolled by ONE stage"
  (`infra/lib/operator-config.ts:97`, `infra/lib/stages/app-stage.ts:49-53`), and
  nothing sees to it: both stages' operators may choose an account, and a flat list
  is for both stages.  An account picked both by itself and with its unit is in two
  StackSets too.  CloudFormation refuses the second stack
  (`infra/lib/member-stackset-stack.ts:129-132`, 230-234); the release then fails, or
  leaves the account as it was within a StackSet's tolerance.
* A release that could not see the Organization drops the sets that need it with a
  warning, and succeeds (`infra/lib/member-stackset-stack.ts:985-989`).
* The flat list of home regions is shared by both stages; an enrolment that leaves
  out the home region gets no enforcement role
  (`docs/multi-account-multi-region.md:177`).

Accounts, activity, readiness:

* A page whose group listing failed shows a user without groups, and saving it
  removes them all; two overlapping `PUT groups` leave a mix though both answer
  with their target; a creation that fails half way leaves a user without groups
  or event, and its retry gets 409.
* A request by address records under another user's id, or the address, after a
  concurrent deletion or change (`api/users/index.ts:286-355`).
* A request of the feed that reaches its cap of queries just at the window's floor
  returns no cursor (`api/identities/index.ts:233`): rows are left out, where the
  comment at 156 says "never silently truncates".
* Not modelled: a poll of an earlier check that is still in flight can stop the new check's
  interval and show the old result (`web/src/pages/Readiness.tsx:72-92`); a job
  Lambda gave up stays RUNNING; an assumed role whose identity cannot be asked
  for fails the whole sweep (`lambda/python/readiness/core/auth.py:134` against
  105-107); a repeated sweep is compared with its own dead attempt; a retry may
  overwrite SUCCEEDED with FAILED.

## 5. What is proved

Every theorem holds for any instance: any sets of principals, targets, people,
requests and invocations and any bounds, within the named ASSUMEs of the modules.
A theorem that needs more says so as a hypothesis, an operator on the constants
with a name; the instance of the run that checks the property satisfies it.

### Enforcement

* `TypeCorrect`: `Spec => []TypeOK`.  Typing alone is not inductive: what a
  consumer or remover does next uses the row and policy it holds, so the
  invariant is `TypeInv` (with `OwnWork` and `Holding`).
* `Inductive`, `NoOrphan`: assuming `Serialized`, `Spec => []IInv` and hence
  `Spec => []NoOrphanDeny`.
* `Implements`: assuming `Serialized`, `Spec => ImplementsDenyRecord`.
* `NoInertStamp`: assuming `Serialized`, `NoFaults` and `WildcardsApart`,
  `Spec => []NoSilentInertStamp`.
* `BreachStamped`: assuming `Serialized`, `Undisturbed` and `WildcardsApart`,
  `Spec => []BreachedIsStamped`.
* `PauseHolds`: `Spec => PausedImposesNothing`, without hypotheses.

The argument for `NoOrphanDeny`.  Two steps could break it: attaching a policy no
row records, and clearing the last row that records an attached policy.  The
first is excluded by `AttachRecorded`: a consumer about to attach a policy that
exists still has its row stamped.  The second by `ClearSafe`: when a remover is
about to clear, its policy was deleted, hence detached; if it is attached again,
that was through another row; and a consumer still about to attach for the row to
be cleared will find no policy.  Deleting establishes `ClearSafe` because IAM
refuses to delete an attached policy and because a row has one stamp, so an
attach in flight for that row is for the policy just deleted (`DeleteSafe`).
Creating a policy cannot revive that attach, since only the shard's own consumer
creates policies of its principal, and it is at its create (`CreateSafe`,
`OwnWork`).  Stamping cannot, since it needs an unstamped row and a claimed row is
stamped (`StampSafe`, `ClaimsStamped`).  Another remover cannot interfere because
claims are disjoint by policy (`ClaimsDisjoint`): this is where `Serialized` is
used, and only here.

`NoSilentInertStamp` is about settled states; the invariant that gives it,
`AllBacked`, is about all: a stamped row has an attached policy, or its consumer
is about to attach it, or a remover has deleted it and is on its way to clear the
stamp.  A remover that detaches takes the policy from the rows stamped with it.
Under `WildcardsApart` that is one row (`OwnApart`, `OwnPolicies`), the remover's
own.  Without it the release of a wildcard budget leaves stamps that nothing
enforces, and after a failed call a remover gives up half way: both are among the
divergences, and are what the hypotheses exclude.

`BreachedIsStamped` needs that somebody will look at a row again.  `Heard`: a row
over its limit without a stamp has an image of its present spend in the stream,
after the one its consumer is reading.  A consumer passes the image only by
stamping the row, or because the row is stamped; a row loses its stamp only by an
update that is itself such an image.  The delicate case is `Redone`: a consumer
whose stamp was cleared by a remover before it attached has the image of that
clearing before it.  `Undisturbed` says why an image is not lost: no call fails
for good, a batch has a redelivery left for each crash the instance allows, and
nothing is edited, since a lowered limit acts at the row's next write only.
`LimitsOf` are the limits the property is about: what blocks at a positive amount,
and of a wildcard only where the row's own budget does not opt out.  The invariant
is about every limit the code enforces, of which these are some.

### MeterJoin

* `TypeCorrect`: `Spec => []TypeOK`, through `TypeInv`, which adds that an
  invocation at work holds a message its handler takes, an owner that is a
  principal and lines of its request (`Handling`).
* `Inductive`: `Spec => []IInv`, and from it `InFull` (`BilledInFull`) and
  `ModelRowFirst` (`PrimaryFirst`).
* `Implements`: `SingleChoice => (Spec => ImplementsBilling)`.
* `NothingLost`: `Undisturbed => (Spec => []NoSilentLoss)`.
* `EveryLineBilled`: with `LensesFromTrail` also, `Spec => []AllLinesBilled`.
* `BucketBehind`: `RatedByModel => (Spec => []BucketNotAhead)`.

`BilledInFull` is inductive with the types: only `MeterCharge` writes a row, it
adds one request that was not there, and the message it handles is not a zeroed
record (`Handling`), so the price is 1.  `PrimaryFirst` is not: nothing in it says
why an invocation may write a view.  `PastModel` does: an invocation that no
longer has the model line to bill has seen its model row updated, by itself or,
at a failed condition, by another.  `First` takes the model line first
(`FirstIn`), which establishes `PastModel`, and rows only grow, which keeps
it through every other step, crashes and expiries included.

`Implements` needs that all deliveries of a request choose the same row, which
the code cannot promise: the divergences above name the two ways in which it
fails.  `SingleChoice` (one window, and a log that names nobody or the
CloudTrail principal) excludes exactly these; `OwnRows` then says that each row
that lists a request is the row of its line, and the update's condition on that
row is a condition on the line.

For `NoSilentLoss`, `Kept` says of every log that was ever sent that somebody has
it: a row, the parked table, the dead-letter queue, a delivery under way or an
invocation.  The one step that lets go of a log without handing it on is
`MeterDelete`, after which `Kept` must already know the request to be billed.
That is why a caught fault, an expired row and a full row are excluded
(`Undisturbed`): each of them leads to a delete of what was not billed.

For `AllLinesBilled`, `Completes` follows a request that has its first charge:
either its other lines are billed, or it is in the dead-letter queue, or someone
who knows its identity is still to bill them (`WorkIn`: an invocation has billed
all lines it no longer has to do).  An announcement counts only if the log is
still parked, and is sent only of what the identity cache has (`Announced`).
`LensesFromTrail` is needed because a log that names its principal is billed
without its lenses, a divergence above.

`BucketNotAhead` is not inductive since an invocation counts in a step of its own:
`Counted` adds the invocations about to count for the principal, each of which
has already put a different request on the row.  `RatedByModel` keeps profile rows,
which count in the same bucket, and edits of the window, which start a new row
beside the old bucket, out: see the divergences.

### ControlPlane

* `TypeCorrect`: `Spec => []TypeOK`: every item ever in the table or on its stream
  is one that the form, the meter or a manifest can have made; requests in flight
  and manifests are well-formed.
* `DefaultReplacesNothingHolds`, `DefaultRespectsWildcardHolds`: the two action
  properties of default budgets.  The first is the condition on the put; the
  second needs `SeenWild`, that a look-up which saw a wildcard row goes on to the
  default only after a failed read.
* `ManifestTakesHoldAlways`: `Spec => []ManifestTakesHold`, from `RunHolds`: while
  an undisturbed apply runs, what it has put and deleted so far is still so, and
  what its diff left out was so when it was taken.  What the manifest says of a
  row has to survive each writer's translation of it (`Says`).
* `MirrorConvergesAlways`: `Spec => []MirrorConverges`, from `AllFollowed`: as long as no
  call has failed, either the last pending record of a key has the key's present
  row, or the key has none pending and is mirrored.

### SpendStream

* `TypeCorrect`, `BackfillReplacesNothingHolds`.
* `ChargedOrOutstandingHolds`: `Spec => []ChargedOrOutstanding`, from `ChargedInv`: the
  dollars of a row are the sum over its requests that have a price or a correction
  on that row, its unpriced count is the number of the others, and a correction is
  only on a row that lists its request.  Each write is followed through these
  three.
* `CompletedIsDoneHolds`: `Spec => []CompletedIsDone`, from `CompletedInv`: whatever the
  place of a run in the plan, each correction behind it is on its rows and in the
  ledger.  Corrections are never taken off a row that is not lost (`FixesGrow`),
  so overlapping and repeated runs do not undo each other.
* `LedgerAgreesHolds`: `Spec => []LedgerAgrees`.  The ledger lags behind the rows by
  the records still to be read, so `LedgerInv` says that for each row and each set
  of days there is a balance: a sequence that starts at the row's dollars in the
  ledger of those days, adds the line of each record on the stream, and ends at
  what the meter charged of them (`Net`).  A write appends to both ends alike, a
  batch moves the start, and an empty stream closes it.  The corrections reach the
  ledger by their own objects; `SpendParts` adds them again.
* `NoPhantomDriftHolds`: `Comparable => (Spec => []NoPhantomDrift)`.  A bill that had
  landed is the due requests of the month (`RecInv`).  When the ledger is whole, a
  pair of principal and model has one row that counts, and each of its due requests
  is either metered there with a price or corrected, never both (`DueParts`): by
  `KeptInv` a row lists only its own requests and corrections only listed ones, by
  `ObjectsInv` a correction in the ledger is on all its rows.  The closed balance
  of the days before the watermark gives the first part, the plan's lines the
  second (`LedgerTotalIs`).  `SourcedInv`, no dollars in the ledger but from a
  request, settles the pairs with nothing due.  `SumByKey` then regroups both
  totals by the report's key (`TotalsAgree`).  Which key that is may differ between
  the sides: only for a request that is `Misread` (`SameKey`), so a key that none of
  these is under on one side alone has the same requests on both.

* `TrendCountsOnceHolds`: `RowsApart /\ LensesMetered => (Spec => []TrendCountsOnce)`.
  Of the rows of a request a page must add up the model row and no other.  It tells
  a lens row by its marker, so `LensInv`: a row that lists a request through the
  request's lens is marked, and a principal's row is not.  It splits by region, so
  `RegionInv`: the regions of a row are the sums of the dollars of its requests by
  region.  It offers the months there are rows of, so `PastInv`: what is on a row
  has happened.  With these a set of plain model rows has the dollars of the
  requests whose primary row is in it (`DollarsOf`, by regrouping), and every sum of
  the pages is over such a set: a scope, a selected account, a principal, a model
  (`SplitIs`, `PartIs`), a region (`ByRegionIs`), and the lines drawn, the smaller
  of which are added up as one (`DrawnIs`).  All this is said of any set of rows that
  a route may have read (`OnPage`, `PageOf`), the whole of them or a page.

### Notices

* `TypeCorrect`: `Spec => []Inv`, the types with the three invariants below.
* `DenyMailedHolds`: from `MailedOK`: no mail was sent more often than it was due,
  and without a failure not less often.  That the list in use is one of a pool
  there was between `begun` and now is `ListOK`.
* `CrossingMailedHolds`: from `TopInv`, the longest of the invariants: the threshold
  that a row, an image on the stream or the pending note carries has been mailed
  to all who were always concerned (`RowTold`, `ImageTold`, `NoteTold`), and a row
  that grew has been told of its highest threshold, was struck, or has a record
  ahead that says as much as the row (`Owed`).  Images are never ahead of the row.
* `NotifiedRisesHolds`: the action property that `lastNotifiedThreshold` only rises.

### Accounts

* `InvHolds`: `Spec => []Inv`, the types with what the others need.
* `OneTimelineHolds`: that the record a request will write goes to the user it acted
  on or is excused is settled when it is looked up (`Settles`).
* `WindowServedHolds`: `WalkOK`: whatever is due in the window has been shown or is
  ahead of the walk's cursor, nothing shown is ahead of it, and a walk ends only
  below the floor or at the cap of queries.
* `NeverStrippedHolds`: the action property, from `AloneOK`: a request that was alone at
  a user's groups from its beginning has given all of its target that it does not
  still have to give.  Two requests at one user are never both alone.

### Readiness

* `InvHolds`: `Spec => []Inv`.
* `SweepAccountsHolds`: a worker's accounts are in one of four places (`Apart`),
  together all (`Whole`), and what succeeded has nothing left to do or running, so
  a stored report has every account once.
* `ComparedWithLatestHolds`: the lines of a history file are in the order in which their
  audits began, and an audit that is running began after everything on its
  account's file (`Running`): no other worker of the environment writes to it
  meanwhile.  So the last line is the latest predecessor.

### Discounts, prices, enrolment

* `AuthoredHoldsAlways`: `DiscountSpec => []AuthoredHolds`, from `DiscountInv`: of an
  account that was not overtaken, what an invocation has loaded is what is
  authored, what it has still to write agrees with it (`JobOK`), and so does what
  is on the row (`RowOK`).  An edit finds every invocation idle, or makes the
  account an overtaken one.
* `OverrideStandsAlways`: `PriceSpec => []OverrideStands`, from `SavedInv`: a model with
  saved rates has an override row with exactly these at its top and no regional
  ones.  The refresher's write is conditional on the row not being an override, at
  the moment of the write; a save does not depend on the row it read earlier but
  for long contexts and routing.
* `RatesAreBestAlways`: `PriceSpec => []RatesAreBest`.  `RatesInv` says that the rates a
  run is about to write are those its own files resolve to.  The rest is a theorem
  about a loop: `HoldersExist`, that the recursion over the SKUs has a solution;
  `HolderLeads`, that after any number of SKUs the holder of a dimension is no
  worse than any candidate so far, whatever their order; `WinnerIsBest`; and
  `RatesAre`, that the reviewed card fills only what has no candidate.  What may be a
  candidate is stated apart from the model's filter, for tokens and for the other
  dimensions (`Eligible`, `EligibleAre`).
* `ReportsCoverLiveAlways`: `PriceSpec => ReportsCoverLive`, from `CoverInv`: while a run
  does not call itself incomplete, every live model is ahead of it, is counted, or
  has a row written since the run began or by an operator; and every row is dated
  (`Dated`), so that the oldest age is that of a row (`OldestIs`).
* `LastFormStandsHolds`: `~Overlap => (Spec => []LastFormStands)`, from `FormInv`: a
  request that has not put yet was computed from the parameter as it is, and what
  it is going to put says what was chosen.  `PromotedList`, `PromotedWhole` and
  `ReadBack` say of every shape of an entry that what a stage puts is what it reads
  back, and that the other stage reads what it read before; `SplitAgain` that the
  split into Organization and external accounts loses none.
* `OneOwnerHolds`: `~Overlap => (Spec => []OneOwner)`, from `StacksInv`: the sets of a
  release that could see the Organization name no member of it as external, which
  the preflight of the synthesis refuses, and under a whole-organization choice the
  others are empty (`SynthesisOK`).  `OneOfSets` leaves the account and its unit as
  the one pair.  That a set reaches only what the stage's operator chose needs
  `FormInv`, that the parameter synthesised is what was sent.  It does not say that
  one stage alone has an account: the code lets the operators of both choose it, a
  divergence above.

### Assumptions

The named ASSUMEs of the modules on their constants, which every run evaluates.
Most only type a constant.  Those that say something of the system:
`PlanAssumption` (a reviewed plan names each request once, and what it corrects on
the request's own rows had no price), `GrowthAssumption` (rows from before the instance
list no requests), `OldRowsAssumption` (and were never corrected nor notified),
`BudgetAssumption` (thresholds are percentages from 1 to 1000, as the API accepts
them), `BodiesAssumption` (what is sent is well-formed), the two
`StartAssumption`s (so are the budgets that were there before, and the parameter of
enrolment is one a synthesis would accept), `PriceAssumption` (an order of SKUs has
all of them), `AccountsAssumption` (the activity that is there at first was recorded
under its user or is excused).

The hypotheses `Serialized`, `NoFaults`, `Undisturbed` and `WildcardsApart` of
`Enforcement` are met by the instance of `enforcement_settled`, and those of
`MeterJoin`'s last three theorems by the one of `meter_join`.  `Comparable` of
`SpendStream` is met by the instance of `spend_ledger`, as an ASSUME of
`MCSpendStream` has TLC check.  It says when a bill and the ledger can be of the
same usage at all: the current month is reconciled (the bill of an earlier one has
no upper bound, see the divergences), models are metered by month, no row of a
model is older than the ledger, and principals, lenses, models and profiles differ
in name; the last three are `RowsApart`.  `LensesMetered`, the other hypothesis of
`TrendCountsOnceHolds`, is checked there too; what it excludes is among the
divergences.  `LastFormStandsHolds` and `OneOwnerHolds` assume `~Overlap`, as
the run `enrollment` does: two requests that do overlap lose one's selections.

### Model-checked only

Liveness under fairness: `FeedbackEnds`, `LateIdentityBills`, `MirrorCatchesUp`,
`DiscountsSettle`, `EnrolmentLands`, `PageSettles`.  The prover has no ENABLED, so
these stay with TLC on the instances of section 4.

## 6. What is not modelled

* Decimal prices, token counts, video billing; policy documents; texts of mails
  and pages; metrics other than the attach alarm; request parsing and
  authorisation beyond an administrator's scope; clock skew between Lambdas.
* The window arithmetic of `shared/period.ts` and the sum of rate buckets over a
  sliding window: pure functions, next in the plan.
* The parsing of usage types, model names and offer files in the pricing
  refresher: string matching that a table of examples tests better.
* The log forwarder's splitting of a batch, the gateway, the inference profile
  refresher, the sign-in triggers, passkey nicknames, reports, audit, regions and
  agent sessions: request/response I/O that keeps no state of its own between two
  calls.
* CDK declarations, except what they say of delivery, batching, retries,
  schedules and the ownership of StackSets; the layout of the web application.
