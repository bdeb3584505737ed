------------------------------ MODULE PriceRefresh -----------------------------
(***************************************************************************)
(* The Pricing table's model rows and who writes them: the daily           *)
(* pricing-refresher, model by model and within its time budget, and the   *)
(* operators' overrides, saved by a form that read the table earlier.      *)
(***************************************************************************)
EXTENDS PriceList, FiniteSets

CONSTANTS
  ListedIn,    \* region -> the models ListFoundationModels returns there
  Static,      \* models refreshed by name when no region lists them
  Forms,       \* operators' open editors
  NewRates,    \* rates an operator enters, functions over some kinds
  StartOffer,  \* SKUs in the offer files at the start
  StartIndex,  \* SKUs in the Query API's index at the start
  MaxDay,      \* last day
  MaxEdits,    \* bound on the operators' saves and deletions
  Changing,    \* SKUs that are published or withdrawn meanwhile
  MaxPublished,\* bound on how often one of them is
  MaxFaults    \* bound on failed calls, truncated and killed runs

ASSUME RefreshAssumption ==
  /\ ListedIn \in [RegionSet -> SUBSET Models]
  /\ Static \subseteq Models
  /\ StartOffer \subseteq Skus /\ StartIndex \subseteq Skus /\ Changing \subseteq Skus
  /\ {MaxDay, MaxEdits, MaxPublished, MaxFaults} \subseteq Nat

VARIABLES
  prices,     \* the Pricing table's model rows
  offer,      \* SKUs in the offer files
  index,      \* SKUs in the Query API's index
  day,
  run,        \* the refresher's invocation
  report,     \* the metrics of the last invocation that reported
  form,       \* each editor: the model and rates it holds, what the API read
  saved,      \* the rates an operator last saved for a model, if not deleted
  edits, published, faults

catalog == <<offer, index, published>>
table   == <<prices, saved>>
priceVars == <<prices, offer, index, day, run, report, form, saved, edits, published, faults>>

Live == (UNION {ListedIn[g] : g \in RegionSet}) \union Static
Asleep == [pc |-> "idle"]
NoForm == [pc |-> "closed"]
NoReport == [age |-> 0, fallback |-> 0, gaps |-> {}, incomplete |-> FALSE]

PriceInit ==
  /\ prices = [m \in Models |-> NoRow]
  /\ offer = StartOffer /\ index = StartIndex
  /\ day = 0 /\ run = Asleep /\ report = NoReport
  /\ form = [o \in Forms |-> NoForm]
  /\ saved = [m \in Models |-> NoRates]
  /\ edits = 0 /\ published = 0 /\ faults = 0

Fails == faults < MaxFaults /\ faults' = faults + 1

(* AWS: a SKU reaches the index before the daily offer file, or leaves.    *)
Publishes(s) ==
  /\ published < MaxPublished /\ published' = published + 1
  /\ \/ s \notin index /\ index' = index \union {s} /\ UNCHANGED offer
     \/ s \in index \ offer /\ offer' = offer \union {s} /\ UNCHANGED index
     \/ s \in offer /\ offer' = offer \ {s} /\ index' = index \ {s}
  /\ UNCHANGED <<table, day, run, report, form, edits, faults>>
NextDay ==
  /\ day < MaxDay /\ day' = day + 1
  /\ UNCHANGED <<table, catalog, run, report, form, edits, faults>>

(***************************************************************************)
(* pricing-refresher.                                                      *)
(***************************************************************************)
Downloaded(lost) == {s \in offer : s.region \notin lost}
(* Discovery, then one download of every offer file; some of either fail.  *)
Starts ==
  /\ run.pc = "idle"
  /\ \E unlisted \in SUBSET RegionSet, lost \in SUBSET RegionSet :
       /\ IF unlisted \union lost = {} THEN UNCHANGED faults ELSE Fails
       /\ LET byId == UNION {ListedIn[g] : g \in RegionSet \ unlisted}
          IN run' = [pc |-> "walk", todo |-> byId, byId |-> byId,
                     named |-> Static \ byId, missed |-> {},
                     files |-> Downloaded(lost),
                     gaps |-> {}, incomplete |-> unlisted # {}, since |-> day,
                     model |-> "none", got |-> NoRates]
  /\ UNCHANGED <<table, catalog, day, report, form, edits>>

(* One model's rates, in memory; the Query API is asked, and may fail, for *)
(* a model that some region's files leave open and nobody reviewed.        *)
Failing(m) ==
  IF m \in DOMAIN Reviewed THEN {{}}
  ELSE SUBSET {"AmazonBedrock", "FoundationModels"}
Resolves(m) ==
  /\ run.pc = "walk" /\ m \in run.todo
  /\ \E order \in FileOrders, failed \in Failing(m) :
       LET got == Resolved(m, run.files, index, failed, order)
           found == \E g \in RegionSet : Priced(got[g].rates)
       IN /\ IF failed = {} THEN UNCHANGED faults ELSE Fails
          /\ run' = IF found
                    THEN [run EXCEPT !.pc = "write", !.todo = @ \ {m}, !.model = m, !.got = got]
                    ELSE [run EXCEPT !.todo = @ \ {m}, !.gaps = @ \union {m}]
  /\ UNCHANGED <<table, catalog, day, report, form, edits>>
(* Models no region lists, by their names in the Query API alone. *)
ResolvesByName(m) ==
  /\ run.pc = "walk" /\ run.todo = {} /\ m \in run.named
  /\ \E order \in FileOrders :
       LET got == [g \in RegionSet |->
                     [rates |-> Recorded(Found(index, "AmazonBedrock", m, g), order),
                      website |-> FALSE]]
       IN run' = IF \E g \in RegionSet : Priced(got[g].rates)
                 THEN [run EXCEPT !.pc = "write", !.named = @ \ {m}, !.model = m, !.got = got]
                 ELSE [run EXCEPT !.named = @ \ {m}, !.missed = @ \union {m}]
  /\ UNCHANGED <<table, catalog, day, report, form, edits, faults>>

(* writePricingRow: a conditional put. *)
(* Mutant of Writable: the put is unconditional. *)
WritableAlways(m) == TRUE
Writable(m) == prices[m] = NoRow \/ prices[m].source # "override"
Resumed == [run EXCEPT !.pc = "walk", !.model = "none", !.got = NoRates]
Writes ==
  /\ run.pc = "write"
  /\ prices' = IF Writable(run.model)
               THEN [prices EXCEPT ![run.model] = CatalogRow(run.got, day)]
               ELSE prices
  /\ run' = Resumed
  /\ UNCHANGED <<saved, catalog, day, report, form, edits, faults>>

(* The time budget runs out with models left. *)
(* Mutant of Truncated: the gauge of a truncated run stays at zero. *)
TruncatedQuietly(r) == [r EXCEPT !.todo = {}]
Truncated(r) == [r EXCEPT !.todo = {}, !.incomplete = TRUE]
OutOfTime ==
  /\ run.pc = "walk" /\ run.todo # {}
  /\ Fails /\ run' = Truncated(run)
  /\ UNCHANGED <<table, catalog, day, report, form, edits>>
(* A call that is not caught: no metrics, the schedule starts it again. *)
Dies ==
  /\ run.pc # "idle" /\ Fails /\ run' = Asleep
  /\ UNCHANGED <<table, catalog, day, report, form, edits>>

(* computePricingRefreshAgeSeconds and the gauges of the run. *)
Oldest(S) == IF S = {} THEN 0 ELSE CHOOSE d \in S : \A e \in S : e <= d
Reviews(m) == prices[m].source # "pricing-api" \/ prices[m].verified # -1
Reports ==
  /\ run.pc = "walk" /\ run.todo = {} /\ run.named = {}
  /\ LET counted == {m \in run.byId \union Static : prices[m] # NoRow}
     IN report' =
          [age |-> Oldest({day - prices[m].at : m \in
                             {n \in counted : prices[n].source # "override"}}),
           fallback |-> Oldest({day - prices[m].verified : m \in
                                  {n \in counted : Reviews(n)}}),
           gaps |-> run.gaps, incomplete |-> run.incomplete]
  /\ run' = Asleep
  /\ UNCHANGED <<table, catalog, day, form, edits, faults>>

(***************************************************************************)
(* Operators.  The editor is filled from the page's rows: what the         *)
(* operator does not change is saved as it was then.                       *)
(***************************************************************************)
Edits == edits < MaxEdits /\ edits' = edits + 1
OpensEditor(o, m) ==
  /\ form[o].pc = "closed" /\ Edits
  /\ \E entered \in NewRates :
       form' = [form EXCEPT ![o] =
         [pc |-> "open", model |-> m, old |-> NoRow,
          rates |-> Over(entered, IF prices[m] = NoRow THEN NoRates
                                  ELSE prices[m].top["short"])]]
  /\ UNCHANGED <<table, catalog, day, run, report, faults>>
(* POST: the row is read for its tiers and routing, then replaced. *)
SaveReads(o) ==
  /\ form[o].pc = "open"
  /\ form' = [form EXCEPT ![o] =
                [form[o] EXCEPT !.pc = "save", !.old = prices[form[o].model]]]
  /\ UNCHANGED <<table, catalog, day, run, report, edits, faults>>
SaveWrites(o) ==
  /\ form[o].pc = "save"
  /\ prices' = [prices EXCEPT ![form[o].model] =
                  OverrideRow(form[o].old, form[o].rates, day)]
  /\ saved' = [saved EXCEPT ![form[o].model] = form[o].rates]
  /\ form' = [form EXCEPT ![o] = NoForm]
  /\ UNCHANGED <<catalog, day, run, report, edits, faults>>
Deletes(m) ==
  /\ prices[m] # NoRow /\ Edits
  /\ prices' = [prices EXCEPT ![m] = NoRow]
  /\ saved' = [saved EXCEPT ![m] = NoRates]
  /\ UNCHANGED <<catalog, day, run, report, form, faults>>

Refresher ==
  \/ Starts \/ Writes \/ Reports
  \/ \E m \in Models : Resolves(m) \/ ResolvesByName(m)
PriceNext ==
  \/ Refresher \/ OutOfTime \/ Dies \/ NextDay
  \/ \E s \in Changing : Publishes(s)
  \/ \E o \in Forms : SaveReads(o) \/ SaveWrites(o)
  \/ \E o \in Forms, m \in Models : OpensEditor(o, m)
  \/ \E m \in Models : Deletes(m)

PriceSpec == PriceInit /\ [][PriceNext]_priceVars

(***************************************************************************)
(* Properties.                                                             *)
(***************************************************************************)
(* The rates an operator saves are the ones short regional requests are    *)
(* charged by, in every region and on every dimension, until an operator   *)
(* changes them: neither a refresh under way when they were saved nor any  *)
(* later one brings a catalog rate back, and no regional rate of the row   *)
(* they replaced survives them.  "Refreshes do not replace source=override *)
(* rows, even after API pricing appears" (alarms/pricing-gap-count.md:31); *)
(* two other runbooks say that they do, see README.md.                     *)
OverrideStands ==
  \A m \in Models : saved[m] # NoRates =>
    \A g \in RegionSet : RatesFor(prices[m], g, "regional", "short") = saved[m]

(* The SKUs a rate is to be chosen from, and the best of some. *)
Eligible(m, g, files, k, ctx, mode) ==
  {s \in files : /\ s.model = m /\ s.region = g /\ s.kind = k
                 /\ mode = "global" => s.global
                 /\ IF k \in TokenKinds
                    THEN /\ s.class \in {"plain", "flex"} /\ s.long = (ctx = "long")
                         /\ s.long => s.svc = "FoundationModels" /\ HasTier(m)
                    ELSE ctx = "short"}
BestOf(S, mode) ==
  (CHOOSE s \in S : \A t \in S :
     \/ Rank(s, mode) < Rank(t, mode)
     \/ Rank(s, mode) = Rank(t, mode) /\ s.price <= t.price).price
RateIs(rates, m, of, k, ctx, mode) ==
  /\ of # {} => rates[k] = BestOf(of, mode)
  /\ of = {} => (k \in DOMAIN rates => ctx = "long" /\ rates[k] = Card(m, ctx, mode)[k])
(* Whatever order SKUs come in, a resolved rate is the cheapest of the     *)
(* best ranked SKUs of its region; those of long prompts, of batches and   *)
(* of the ultrafast tier never set the short rate of a token, and a batch  *)
(* of images sets theirs where nothing better is listed; reviewed rates    *)
(* only fill what the catalog leaves open.                                 *)
RatesAreBest ==
  run.pc = "write" /\ run.model \in run.byId =>
    \A g \in RegionSet :
      (\E k \in Kinds : Eligible(run.model, g, run.files, k, "short", "regional") # {}) =>
        \A k \in Kinds, ctx \in Contexts, mode \in Modes :
          RateIs(run.got[g].rates[ctx][mode], run.model,
                 Eligible(run.model, g, run.files, k, ctx, mode), k, ctx, mode)

(* A run that does not report itself incomplete has dealt with every model *)
(* a region lists: its row is an operator's, or was refreshed since the    *)
(* run began, or the model is counted as a gap.  And no live model is      *)
(* charged by a price older than the two ages the run reports.             *)
ReportsCoverLive ==
  [][Reports /\ ~report'.incomplete =>
       \A m \in Live : prices[m] # NoRow =>
         IF prices[m].source = "override"
         THEN day - prices[m].verified <= report'.fallback
         ELSE /\ prices[m].at >= run.since \/ m \in report'.gaps \union run.missed
              /\ day - prices[m].at <= report'.age]_priceVars
================================================================================
