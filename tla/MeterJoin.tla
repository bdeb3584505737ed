-------------------------------- MODULE MeterJoin --------------------------------
(***************************************************************************)
(* Who pays for a request.  The invocation log (what was used) and the     *)
(* CloudTrail event (who used it) of one request reach two Lambdas in any  *)
(* order.  The identity cache records who; the meter joins both and adds   *)
(* the cost to up to four spend rows, or parks the log until the identity  *)
(* cache announces the identity.  Every call to DynamoDB or EventBridge is *)
(* a step of its own, invocations overlap, die and are delivered again.    *)
(*                                                                         *)
(* All requests use one model and one inference profile, so that they meet *)
(* in the same rows, and cost one unit.                                    *)
(***************************************************************************)
EXTENDS Integers, FiniteSets

CONSTANTS
  Requests,       \* Bedrock request ids
  Principals,     \* canonical role principals
  SsoUsers,       \* principal#sso-user#... lens principals
  Sources,        \* principal#sourceIdentity#... lens principals
  CtOwner,        \* per request: the principal CloudTrail names
  LogOwner,       \* per request: the principal the log itself names, or none
  LensOf,         \* per lens line and request: the lens principal, or none
  TimeOf,         \* per request: eventTime of its CloudTrail event
  Profiled,       \* requests made through an inference profile
  Streamed,       \* requests whose log starts with a zeroed record
  Traced,         \* requests whose eventName the CloudTrail rule lists
  Windows,        \* budget windows, each with one open period
  DefaultWindow,  \* "monthly", assumed where no budget could be read
  StartBudgets,   \* what the Budgets table says of each key at the start
  Meters,         \* concurrent invocations of the meter
  Tracers,        \* concurrent invocations of the identity cache
  NoOwner, NoMessage,
  (* Bounds of the model. *)
  RowCapacity,    \* request ids that fit a DynamoDB item of 400 KB
  AsyncRetries,   \* redeliveries of a failed invocation before its queue
  MaxUse,         \* how often: budget edits, caught faults, failed or killed
                  \* invocations, duplicate deliveries, TTL expiries
  MaxTotal        \* ... and how many of these in all

LensLines == {"sso", "source"}
Lines     == {"model", "profile"} \union LensLines
Targets   == {"model", "profile"}
Owners    == Principals \union SsoUsers \union Sources
Keys      == Owners \X Targets
Rows      == [owner : Owners, target : Targets, window : Windows]
Kinds     == {"opening", "log", "trail", "arrived"}
Letters   == [kind : Kinds, req : Requests]
Messages  == [kind : Kinds, req : Requests, tries : 0..AsyncRetries]
(* What a container believes of a budget: its window, and rpm or tpm set.  *)
Metas     == [window : Windows, rated : BOOLEAN]
Counts    == [admin : Nat, faults : Nat, crashes : Nat, dups : Nat,
              expiries : Nat]

ASSUME OwnersAssumption ==
  /\ Principals \intersect SsoUsers = {}
  /\ Principals \intersect Sources = {}
  /\ SsoUsers \intersect Sources = {}
  /\ NoOwner \notin Owners
ASSUME RequestsAssumption ==
  /\ CtOwner \in [Requests -> Principals]
  /\ LogOwner \in [Requests -> Principals \union {NoOwner}]
  /\ DOMAIN LensOf = LensLines
  /\ LensOf["sso"] \in [Requests -> SsoUsers \union {NoOwner}]
  /\ LensOf["source"] \in [Requests -> Sources \union {NoOwner}]
  /\ TimeOf \in [Requests -> Nat \ {0}]
  /\ IsFiniteSet(Requests)
ASSUME BudgetsAssumption ==
  /\ DefaultWindow \in Windows
  /\ StartBudgets \in [Keys -> Metas]
ASSUME BoundsAssumption ==
  /\ NoMessage \notin Messages
  /\ RowCapacity \in Nat
  /\ AsyncRetries \in Nat
  /\ IsFiniteSet(Meters)
  /\ MaxUse \in Counts /\ MaxTotal \in Nat

VARIABLES
  mail,       \* deliveries under way, in no order
  sent,       \* everything ever sent, for it may be delivered again
  dlq,        \* messages whose retries are exhausted
  identity,   \* requests with a row in IdentityCache
  pending,    \* requests with a row in PendingMeter
  spend,      \* RunningSpend.spendUsd
  processed,  \* RunningSpend.processedRequestIds
  bucket,     \* RateCounters.requestCount of the current minute
  budget,     \* the Budgets table, as the meter reads it
  cached,     \* what else containers still hold in budgetMetaCache
  lastSeen,   \* PrincipalsSeen.lastSeen, 0 where there is no row
  meter,      \* the meter's invocations
  tracer,     \* the identity cache's invocations
  used        \* operations taken from each bound

post   == <<mail, sent, dlq>>
join   == <<identity, pending>>
ledger == <<spend, processed>>
budgets == <<budget, cached>>
vars   == <<post, join, ledger, bucket, budgets, lastSeen, meter, tracer, used>>

MeterPc  == {"idle", "identify", "park", "fetch", "lookup", "commit", "count",
             "delete"}
TracerPc == {"idle", "note", "see", "look", "emit"}
MeterStates == [pc : MeterPc, msg : Messages \union {NoMessage},
                owner : Owners \union {NoOwner}, todo : SUBSET Lines]
TracerStates == [pc : TracerPc, msg : Messages \union {NoMessage}]

IdleMeter  == [pc |-> "idle", msg |-> NoMessage, owner |-> NoOwner, todo |-> {}]
IdleTracer == [pc |-> "idle", msg |-> NoMessage]

TypeOK ==
  /\ mail \subseteq Messages
  /\ sent \subseteq Letters
  /\ dlq \subseteq Letters
  /\ identity \subseteq Requests
  /\ pending \subseteq Requests
  /\ spend \in [Rows -> Nat]
  /\ processed \in [Rows -> SUBSET Requests]
  /\ bucket \in [Owners -> Nat]
  /\ budget \in [Keys -> Metas]
  /\ cached \in [Keys -> SUBSET Metas]
  /\ lastSeen \in [Principals -> Nat]
  /\ meter \in [Meters -> MeterStates]
  /\ tracer \in [Tracers -> TracerStates]
  /\ used \in Counts

Init ==
  /\ mail = {} /\ sent = {} /\ dlq = {}
  /\ identity = {} /\ pending = {}
  /\ spend = [row \in Rows |-> 0]
  /\ processed = [row \in Rows |-> {}]
  /\ bucket = [o \in Owners |-> 0]
  /\ budget = StartBudgets
  /\ cached = [k \in Keys |-> {}]
  /\ lastSeen = [p \in Principals |-> 0]
  /\ meter = [w \in Meters |-> IdleMeter]
  /\ tracer = [x \in Tracers |-> IdleTracer]
  /\ used = [admin |-> 0, faults |-> 0, crashes |-> 0, dups |-> 0,
             expiries |-> 0]

Total  == used.admin + used.faults + used.crashes + used.dups + used.expiries
Use(f) == /\ used[f] < MaxUse[f] /\ Total < MaxTotal
          /\ used' = [used EXCEPT ![f] = @ + 1]

(***************************************************************************)
(* Delivery: at least once, in any order.                                  *)
(***************************************************************************)
Letter(m)     == [kind |-> m.kind, req |-> m.req]
Fresh(l)      == [kind |-> l.kind, req |-> l.req, tries |-> 0]
Send(ls)      == /\ sent' = sent \union ls
                 /\ mail' = mail \union {Fresh(l) : l \in ls}
Take(m)       == m \in mail /\ mail' = mail \ {m} /\ UNCHANGED <<sent, dlq>>

(* Lambda redelivers what an asynchronous invocation failed on, then       *)
(* hands it to the dead-letter queue.                                      *)
Retry(m) ==
  /\ IF m.tries < AsyncRetries
     THEN /\ mail' = mail \union {[m EXCEPT !.tries = @ + 1]}
          /\ dlq' = dlq
     ELSE /\ mail' = mail
          /\ dlq' = dlq \union {Letter(m)}
  /\ UNCHANGED sent

Served(r) == [kind |-> "log", req |-> r] \in sent

(* A principal makes a Bedrock request.                                    *)
Invoke(r) ==
  /\ ~Served(r)
  /\ Send({l \in Letters :
             /\ l.req = r
             /\ \/ l.kind = "log"
                \/ l.kind = "opening" /\ r \in Streamed
                \/ l.kind = "trail" /\ r \in Traced})
  /\ UNCHANGED <<dlq, join, ledger, bucket, budgets, lastSeen, meter, tracer, used>>

(* Lambda, EventBridge or CloudWatch Logs delivers something again.        *)
Redeliver(l) ==
  /\ Use("dups")
  /\ l \in sent
  /\ mail' = mail \union {Fresh(l)}
  /\ UNCHANGED <<sent, dlq, join, ledger, bucket, budgets, lastSeen, meter, tracer>>

(***************************************************************************)
(* The meter.                                                              *)
(***************************************************************************)
Req(w) == meter[w].msg.req

(* The rows of a request, in the order they are written.  A profile and a  *)
(* model row for the principal, lens rows for who is behind it.            *)
Rank == [model |-> 1, profile |-> 2, sso |-> 3, source |-> 4]
First(S) == CHOOSE l \in S : \A k \in S : Rank[l] <= Rank[k]

LinesOf(r, lensed) ==
  {l \in Lines : \/ l = "model"
                 \/ l = "profile" /\ r \in Profiled
                 \/ l \in LensLines /\ lensed /\ LensOf[l][r] # NoOwner}
KeyOf(r, l, o) == IF l \in LensLines THEN <<LensOf[l][r], "model">> ELSE <<o, l>>
RowOf(k, window) == [owner |-> k[1], target |-> k[2], window |-> window]

(* Mutant of MeterSkip: hasUsage is not asked, a zeroed record is metered. *)
MeterZeroed(w, m) ==
  /\ meter[w].pc = "idle" /\ m.kind = "opening"
  /\ Take(m)
  /\ meter' = [meter EXCEPT ![w] = [IdleMeter EXCEPT !.pc = "identify", !.msg = m]]
  /\ UNCHANGED <<join, ledger, bucket, budgets, lastSeen, tracer, used>>

(* hasUsage: the zeroed record at the start of a stream is skipped.        *)
MeterSkip(w, m) ==
  /\ meter[w].pc = "idle" /\ m.kind = "opening"
  /\ Take(m)
  /\ UNCHANGED <<join, ledger, bucket, budgets, lastSeen, meter, tracer, used>>

MeterTake(w, m) ==
  /\ meter[w].pc = "idle" /\ m.kind \in {"log", "arrived"}
  /\ Take(m)
  /\ meter' = [meter EXCEPT ![w] =
       [IdleMeter EXCEPT !.pc = IF m.kind = "log" THEN "identify" ELSE "fetch",
                         !.msg = m]]
  /\ UNCHANGED <<join, ledger, bucket, budgets, lastSeen, tracer, used>>

Bill(w, o, lensed) ==
  meter' = [meter EXCEPT ![w].pc = "commit", ![w].owner = o,
                         ![w].todo = LinesOf(Req(w), lensed)]

(* lookupIdentity, else the identity in the log, else park.                *)
MeterIdentify(w) ==
  /\ meter[w].pc = "identify"
  /\ IF Req(w) \in identity THEN Bill(w, CtOwner[Req(w)], TRUE)
     ELSE IF LogOwner[Req(w)] # NoOwner THEN Bill(w, LogOwner[Req(w)], FALSE)
     ELSE meter' = [meter EXCEPT ![w].pc = "park"]
  /\ UNCHANGED <<post, join, ledger, bucket, budgets, lastSeen, tracer, used>>

MeterPark(w) ==
  /\ meter[w].pc = "park"
  /\ pending' = pending \union {Req(w)}
  /\ meter' = [meter EXCEPT ![w] = IdleMeter]
  /\ UNCHANGED <<post, identity, ledger, bucket, budgets, lastSeen, tracer, used>>

(* Mutant of MeterFetch: the parked log is deleted as it is read. *)
FetchAndDelete(w) ==
  /\ meter[w].pc = "fetch"
  /\ pending' = pending \ {Req(w)}
  /\ meter' = [meter EXCEPT ![w] =
       IF Req(w) \in pending THEN [@ EXCEPT !.pc = "lookup"] ELSE IdleMeter]
  /\ UNCHANGED <<post, identity, ledger, bucket, budgets, lastSeen, tracer, used>>

(* identity-arrived: readPending, then the identity once more; if it has   *)
(* expired meanwhile, the principal the event names.                       *)
MeterFetch(w) ==
  /\ meter[w].pc = "fetch"
  /\ meter' = [meter EXCEPT ![w] =
       IF Req(w) \in pending THEN [@ EXCEPT !.pc = "lookup"] ELSE IdleMeter]
  /\ UNCHANGED <<post, join, ledger, bucket, budgets, lastSeen, tracer, used>>

MeterLookup(w) ==
  /\ meter[w].pc = "lookup"
  /\ Bill(w, CtOwner[Req(w)], Req(w) \in identity)
  /\ UNCHANGED <<post, join, ledger, bucket, budgets, lastSeen, tracer, used>>

MeterDelete(w) ==
  /\ meter[w].pc = "delete"
  /\ pending' = pending \ {Req(w)}
  /\ meter' = [meter EXCEPT ![w] = IdleMeter]
  /\ UNCHANGED <<post, identity, ledger, bucket, budgets, lastSeen, tracer, used>>

(* Done with a log: acknowledged.  Done with an announcement: delete what  *)
(* was parked, committed or not.                                           *)
Done(w) == IF meter[w].msg.kind = "arrived"
           THEN [meter[w] EXCEPT !.pc = "delete", !.owner = NoOwner, !.todo = {}]
           ELSE IdleMeter
Proceed(w, rest) ==
  IF rest = {} THEN Done(w) ELSE [meter[w] EXCEPT !.pc = "commit", !.todo = rest]

Line(w)     == First(meter[w].todo)
LineKey(w)  == KeyOf(Req(w), Line(w), meter[w].owner)
Rest(w)     == meter[w].todo \ {Line(w)}
Believed(k) == {budget[k]} \union cached[k]
Full(row)   == Cardinality(processed[row]) >= RowCapacity

(* A zeroed record is worth nothing.                                       *)
Price(m)    == IF m.kind = "opening" THEN 0 ELSE 1

(* Mutant of MeterCharge: the update is not conditional. *)
ChargeAlways(w) ==
  /\ meter[w].pc = "commit"
  /\ \E b \in Believed(LineKey(w)) :
       LET row == RowOf(LineKey(w), b.window) IN
       /\ ~Full(row)
       /\ processed' = [processed EXCEPT ![row] = @ \union {Req(w)}]
       /\ spend' = [spend EXCEPT ![row] = @ + 1]
       /\ meter' = [meter EXCEPT ![w] = Proceed(w, Rest(w))]
  /\ UNCHANGED <<post, join, bucket, budgets, lastSeen, tracer, used>>

(* upsertSpend: add the cost to the row of the budget's window, on the     *)
(* condition that the row has not seen the request.  A rate-limited budget *)
(* of the principal itself then counts the request.                        *)
MeterCharge(w) ==
  /\ meter[w].pc = "commit"
  /\ \E b \in Believed(LineKey(w)) :
       LET row == RowOf(LineKey(w), b.window) IN
       /\ Req(w) \notin processed[row]
       /\ ~Full(row)
       /\ processed' = [processed EXCEPT ![row] = @ \union {Req(w)}]
       /\ spend' = [spend EXCEPT ![row] = @ + Price(meter[w].msg)]
       /\ meter' = [meter EXCEPT ![w] =
            IF b.rated /\ Line(w) \notin LensLines
            THEN [@ EXCEPT !.pc = "count", !.todo = Rest(w)]
            ELSE Proceed(w, Rest(w))]
  /\ UNCHANGED <<post, join, bucket, budgets, lastSeen, tracer, used>>

(* Mutant of MeterCharged: a row that has the request ends the commit. *)
ChargedMeansDone(w) ==
  /\ meter[w].pc = "commit"
  /\ \E b \in Believed(LineKey(w)) :
       Req(w) \in processed[RowOf(LineKey(w), b.window)]
  /\ meter' = [meter EXCEPT ![w] = Done(w)]
  /\ UNCHANGED <<post, join, ledger, bucket, budgets, lastSeen, tracer, used>>

(* Mutant of MeterCharged: a request is counted again with each delivery. *)
ChargedThenCount(w) ==
  /\ meter[w].pc = "commit"
  /\ \E b \in Believed(LineKey(w)) :
       /\ Req(w) \in processed[RowOf(LineKey(w), b.window)]
       /\ meter' = [meter EXCEPT ![w] =
            IF b.rated /\ Line(w) \notin LensLines
            THEN [@ EXCEPT !.pc = "count", !.todo = Rest(w)]
            ELSE Proceed(w, Rest(w))]
  /\ UNCHANGED <<post, join, ledger, bucket, budgets, lastSeen, tracer, used>>

(* ConditionalCheckFailedException: billed before, on to the next row.     *)
MeterCharged(w) ==
  /\ meter[w].pc = "commit"
  /\ \E b \in Believed(LineKey(w)) :
       Req(w) \in processed[RowOf(LineKey(w), b.window)]
  /\ meter' = [meter EXCEPT ![w] = Proceed(w, Rest(w))]
  /\ UNCHANGED <<post, join, ledger, bucket, budgets, lastSeen, tracer, used>>

(* The item would exceed 400 KB: the update fails, and is caught.          *)
MeterRefused(w) ==
  /\ meter[w].pc = "commit"
  /\ \E b \in Believed(LineKey(w)) :
       LET row == RowOf(LineKey(w), b.window) IN
       Req(w) \notin processed[row] /\ Full(row)
  /\ meter' = [meter EXCEPT ![w] = Done(w)]
  /\ UNCHANGED <<post, join, ledger, bucket, budgets, lastSeen, tracer, used>>

(* upsertRateBucket, keyed by principal and minute only.                   *)
MeterCount(w) ==
  /\ meter[w].pc = "count"
  /\ bucket' = [bucket EXCEPT ![meter[w].owner] = @ + 1]
  /\ meter' = [meter EXCEPT ![w] = Proceed(w, meter[w].todo)]
  /\ UNCHANGED <<post, join, ledger, budgets, lastSeen, tracer, used>>

(* Its failure is swallowed.                                               *)
MeterCountFails(w) ==
  /\ meter[w].pc = "count"
  /\ Use("faults")
  /\ meter' = [meter EXCEPT ![w] = Proceed(w, meter[w].todo)]
  /\ UNCHANGED <<post, join, ledger, bucket, budgets, lastSeen, tracer>>

(* A call throws: caught per log, and around the commit of a parked log.   *)
MeterFault(w) ==
  /\ meter[w].pc \in {"identify", "park", "lookup", "commit"}
  /\ Use("faults")
  /\ meter' = [meter EXCEPT ![w] = Done(w)]
  /\ UNCHANGED <<post, join, ledger, bucket, budgets, lastSeen, tracer>>

(* The invocation is killed or times out; or it throws, which reading and  *)
(* deleting the parked log may.                                            *)
MeterCrash(w) ==
  /\ meter[w].pc # "idle"
  /\ Use("crashes")
  /\ Retry(meter[w].msg)
  /\ meter' = [meter EXCEPT ![w] = IdleMeter]
  /\ UNCHANGED <<join, ledger, bucket, budgets, lastSeen, tracer>>

(***************************************************************************)
(* The identity cache.                                                     *)
(***************************************************************************)
Goto(x, pc) == tracer' = [tracer EXCEPT ![x].pc = pc]
Finish(x)   == tracer' = [tracer EXCEPT ![x] = IdleTracer]

TracerTake(x, m) ==
  /\ tracer[x].pc = "idle" /\ m.kind = "trail"
  /\ Take(m)
  /\ tracer' = [tracer EXCEPT ![x] = [pc |-> "note", msg |-> m]]
  /\ UNCHANGED <<join, ledger, bucket, budgets, lastSeen, meter, used>>

(* Mutant of TracerNote: a request already noted needs nothing more. *)
NoteOnce(x) ==
  /\ tracer[x].pc = "note"
  /\ identity' = identity \union {tracer[x].msg.req}
  /\ IF tracer[x].msg.req \in identity THEN Finish(x) ELSE Goto(x, "see")
  /\ UNCHANGED <<post, pending, ledger, bucket, budgets, lastSeen, meter, used>>

TracerNote(x) ==
  /\ tracer[x].pc = "note"
  /\ identity' = identity \union {tracer[x].msg.req}
  /\ Goto(x, "see")
  /\ UNCHANGED <<post, pending, ledger, bucket, budgets, lastSeen, meter, used>>

(* The directory of principals (and of agent sessions).                    *)
TracerSee(x) ==
  /\ tracer[x].pc = "see"
  /\ LET r == tracer[x].msg.req
     IN  lastSeen' = [lastSeen EXCEPT ![CtOwner[r]] = TimeOf[r]]
  /\ Goto(x, "look")
  /\ UNCHANGED <<post, join, ledger, bucket, budgets, meter, used>>

(* Is a log parked for this request?                                       *)
TracerLook(x) ==
  /\ tracer[x].pc = "look"
  /\ IF tracer[x].msg.req \in pending THEN Goto(x, "emit") ELSE Finish(x)
  /\ UNCHANGED <<post, join, ledger, bucket, budgets, lastSeen, meter, used>>

(* A failed lookup counts as no.                                           *)
TracerLookFails(x) ==
  /\ tracer[x].pc = "look"
  /\ Use("faults")
  /\ Finish(x)
  /\ UNCHANGED <<post, join, ledger, bucket, budgets, lastSeen, meter>>

TracerEmit(x) ==
  /\ tracer[x].pc = "emit"
  /\ Send({[kind |-> "arrived", req |-> tracer[x].msg.req]})
  /\ Finish(x)
  /\ UNCHANGED <<dlq, join, ledger, bucket, budgets, lastSeen, meter, used>>

(* Killed, or any other call of it throws.                                 *)
TracerCrash(x) ==
  /\ tracer[x].pc # "idle"
  /\ Use("crashes")
  /\ Retry(tracer[x].msg)
  /\ Finish(x)
  /\ UNCHANGED <<join, ledger, bucket, budgets, lastSeen, meter>>

(***************************************************************************)
(* The surroundings.                                                       *)
(***************************************************************************)
(* scripts/drain-pending.ts, run by hand: announce what is known by now.   *)
DrainScript(r) ==
  /\ r \in pending \intersect identity
  /\ Fresh([kind |-> "arrived", req |-> r]) \notin mail
  /\ Send({[kind |-> "arrived", req |-> r]})
  /\ UNCHANGED <<dlq, join, ledger, bucket, budgets, lastSeen, meter, tracer, used>>

(* Rows live for an hour from the write on.                                *)
ExpireIdentity(r) ==
  /\ r \in identity
  /\ Use("expiries")
  /\ identity' = identity \ {r}
  /\ UNCHANGED <<post, pending, ledger, bucket, budgets, lastSeen, meter, tracer>>
ExpirePending(r) ==
  /\ r \in pending
  /\ Use("expiries")
  /\ pending' = pending \ {r}
  /\ UNCHANGED <<post, identity, ledger, bucket, budgets, lastSeen, meter, tracer>>

(* A budget is edited; containers go on with what they cached ...          *)
AdminBudget(k, b) ==
  /\ Use("admin")
  /\ budget[k] # b
  /\ budget' = [budget EXCEPT ![k] = b]
  /\ cached' = [cached EXCEPT ![k] = @ \union {budget[k]}]
  /\ UNCHANGED <<post, join, ledger, bucket, lastSeen, meter, tracer>>

(* ... for five minutes.                                                   *)
CachesExpire(k) ==
  /\ cached[k] # {}
  /\ cached' = [cached EXCEPT ![k] = {}]
  /\ UNCHANGED <<post, join, ledger, bucket, budget, lastSeen, meter, tracer, used>>

(* lookupBudgetMeta: a budget that could not be read is cached as absent.  *)
BudgetReadFails(k) ==
  /\ Use("faults")
  /\ cached' = [cached EXCEPT ![k] =
       @ \union {[window |-> DefaultWindow, rated |-> FALSE]}]
  /\ UNCHANGED <<post, join, ledger, bucket, budget, lastSeen, meter, tracer>>

MeterRuns(w) ==
  \/ \E m \in mail : MeterSkip(w, m) \/ MeterTake(w, m)
  \/ MeterIdentify(w) \/ MeterPark(w)
  \/ MeterFetch(w) \/ MeterLookup(w) \/ MeterDelete(w)
  \/ MeterCharge(w) \/ MeterCharged(w) \/ MeterRefused(w) \/ MeterCount(w)
MeterFails(w) == MeterCountFails(w) \/ MeterFault(w) \/ MeterCrash(w)

TracerRuns(x) ==
  \/ \E m \in mail : TracerTake(x, m)
  \/ TracerNote(x) \/ TracerSee(x) \/ TracerLook(x) \/ TracerEmit(x)
TracerFails(x) == TracerLookFails(x) \/ TracerCrash(x)

Surroundings ==
  \/ \E r \in Requests :
       \/ Invoke(r) \/ DrainScript(r) \/ ExpireIdentity(r) \/ ExpirePending(r)
  \/ \E l \in sent : Redeliver(l)
  \/ \E k \in Keys : \/ \E b \in Metas : AdminBudget(k, b)
                     \/ CachesExpire(k) \/ BudgetReadFails(k)

Next ==
  \/ \E w \in Meters : MeterRuns(w) \/ MeterFails(w)
  \/ \E x \in Tracers : TracerRuns(x) \/ TracerFails(x)
  \/ Surroundings

Spec == Init /\ [][Next]_vars

(* Lambda runs what is delivered.  The drain script is run by nobody.      *)
Fairness == /\ \A w \in Meters : WF_vars(MeterRuns(w))
            /\ \A x \in Tracers : WF_vars(TracerRuns(x))
FairSpec == Spec /\ Fairness

(***************************************************************************)
(* Properties.                                                             *)
(***************************************************************************)
(* A row holds the full price of each request it lists, once: retries,     *)
(* duplicates, concurrent deliveries and zeroed stream records neither     *)
(* bill twice nor lock a request in at nothing (meter/index.ts:460-500).   *)
BilledInFull == \A row \in Rows : spend[row] = Cardinality(processed[row])

BilledOn(r, target, owners) ==
  \E row \in Rows : /\ row.target = target /\ row.owner \in owners
                    /\ r \in processed[row]
Billed(r) == BilledOn(r, "model", Principals)

(* Views never run ahead of the model row they duplicate, which totals are *)
(* made of: whenever a profile or lens row has a request, so has a model   *)
(* row of a principal, even after a crash between the writes.              *)
PrimaryFirst == \A row \in Rows : \A r \in processed[row] : Billed(r)

(* The line of the bill a row stands for.                                  *)
LineOf(row) == IF row.owner \in SsoUsers THEN "sso"
               ELSE IF row.owner \in Sources THEN "source" ELSE row.target

(* The meter implements Billing where one window and one owner per request *)
(* are all there is to choose from.                                        *)
SingleChoice ==
  /\ \A v \in Windows : v = DefaultWindow
  /\ \A r \in Requests : LogOwner[r] \in {NoOwner, CtOwner[r]}
(* No caught fault, no row that expires, and room for every request.       *)
Undisturbed ==
  /\ MaxUse.faults = 0 /\ MaxUse.expiries = 0
  /\ Cardinality(Requests) <= RowCapacity

(* Who is behind a request is known from its CloudTrail event alone.       *)
LensesFromTrail ==
  \A r \in Requests : LogOwner[r] # NoOwner => \A l \in LensLines : LensOf[l][r] = NoOwner

(* Nobody edits a budget, and of a principal's two budgets only the one    *)
(* for the model limits a rate: both count in the same bucket.             *)
RatedByModel ==
  /\ MaxUse.admin = 0
  /\ \A p \in Principals : ~ StartBudgets[<<p, "profile">>].rated

Charges == {c \in Requests \X Rows : c[1] \in processed[c[2]]}
Bills == INSTANCE Billing WITH charges <- Charges, total <- spend
ImplementsBilling == Bills!Spec

Settled ==
  /\ mail = {}
  /\ \A w \in Meters : meter[w].pc = "idle"
  /\ \A x \in Tracers : tracer[x].pc = "idle"
InDlq(r) == \E l \in dlq : l.req = r

(* Without faults and expiries, what was logged is billed, parked for the  *)
(* join, or in the dead-letter queue: a crash of either Lambda between any *)
(* two calls loses nothing silently.                                       *)
NoSilentLoss ==
  Settled => \A r \in Requests : Served(r) => Billed(r) \/ r \in pending \/ InDlq(r)

(* ... and it is billed on every row it belongs to, not on the first few:  *)
(* a retry completes what a crash cut short.                               *)
AllLinesBilled ==
  Settled => \A r \in {q \in Requests : Billed(q) /\ ~InDlq(q)} :
    \A l \in LinesOf(r, TRUE) :
      BilledOn(r, IF l \in LensLines THEN "model" ELSE l,
               IF l \in LensLines THEN {LensOf[l][r]} ELSE Principals)

(* The bucket never counts more requests than the principal's model row    *)
(* was billed, so a rate deny means what it says.                          *)
BucketNotAhead ==
  \A p \in Principals :
    bucket[p] <= Cardinality(UNION {processed[row] :
                               row \in {q \in Rows : q.owner = p}})

(* A log parked before its CloudTrail event is handled gets billed, though *)
(* the identity cache may die between any two of its calls.                *)
LateIdentityBills ==
  \A r \in Requests :
    (/\ r \in pending
     /\ \E m \in mail : m.kind = "trail" /\ m.req = r)
      ~> (Billed(r) \/ InDlq(r))

(***************************************************************************)
(* The inductive invariant.                                                *)
(***************************************************************************)
(* An invocation at work holds a message its handler takes, and what it    *)
(* still has to bill are lines of its request.                             *)
AtWork(s) ==
  s.pc # "idle" =>
    /\ s.msg \in Messages /\ s.msg.kind \in {"log", "arrived"}
    /\ s.pc \in {"commit", "count"} =>
         s.owner \in Principals /\ s.todo \subseteq LinesOf(s.msg.req, TRUE)
    /\ s.pc = "commit" => s.todo # {}
Handling ==
  /\ \A w \in Meters : AtWork(meter[w])
  /\ \A x \in Tracers : tracer[x].pc # "idle" => tracer[x].msg \in Messages

(* Past the model row, the model row has it.                               *)
PastModel ==
  \A w \in Meters :
    meter[w].pc \in {"commit", "count"} /\ "model" \notin meter[w].todo
      => Billed(Req(w))

TypeInv == TypeOK /\ Handling

IInv ==
  /\ TypeInv
  /\ PastModel
  /\ BilledInFull
  /\ PrimaryFirst

(* With SingleChoice: every row that has a request is the row of that line *)
(* of the request, and invocations bill the CloudTrail principal.          *)
OwnRows ==
  /\ \A row \in Rows : \A r \in processed[row] :
       <<row.owner, row.target>> = KeyOf(r, LineOf(row), CtOwner[r])
  /\ \A w \in Meters : meter[w].pc \in {"commit", "count"} =>
       meter[w].owner = CtOwner[Req(w)]
================================================================================
