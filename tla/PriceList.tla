------------------------------- MODULE PriceList -------------------------------
(***************************************************************************)
(* How the rates of a model are chosen from the price list's SKUs, the row *)
(* of the Pricing table they are written in, and the rate the meter takes  *)
(* from that row for a request.                                            *)
(***************************************************************************)
EXTENDS Integers, Sequences, SequencesExt, Overlay

CONSTANTS
  Models, Kinds,   \* models, and the dimensions they are billed on
  TokenKinds,      \* those that are tokens; the others images, seconds, searches
  Regions,         \* METERED_REGIONS, a sequence
  Skus,            \* [model, svc, region, kind, class, global, long, price]
  FileOrders,      \* orders in which SKUs can be seen, sequences over Skus
  Reviewed,        \* model -> [ctx -> [mode -> rates]]: published-pricing.ts
  ReviewedOn       \* the day those rates were verified

Classes  == {"plain", "flex", "batch", "ultrafast"}
Contexts == {"short", "long"}
Modes    == {"regional", "global"}
RegionSet == {Regions[i] : i \in DOMAIN Regions}

ASSUME PriceAssumption ==
  /\ \A s \in Skus :
       /\ s.model \in Models /\ s.kind \in Kinds /\ s.region \in RegionSet
       /\ s.svc \in {"AmazonBedrock", "FoundationModels"} /\ s.class \in Classes
       /\ s.global \in BOOLEAN /\ s.long \in BOOLEAN /\ s.price \in Nat
  /\ \A o \in FileOrders : o \in Seq(Skus) /\ Range(o) = Skus
  /\ DOMAIN Reviewed \subseteq Models /\ ReviewedOn \in Int
  /\ TokenKinds \subseteq Kinds

NoRates == << >>
NoRow   == [source |-> "none"]   \* no row of the Pricing table

(***************************************************************************)
(* One region's rates of a model: for short and long prompts, the bare     *)
(* rates and those of global routing.  A SKU claims its dimension from the *)
(* one that holds it so far, and SKUs come in any order.                   *)
(***************************************************************************)
Unrated == [ctx \in Contexts |-> [mode \in Modes |-> NoRates]]
Priced(r) == DOMAIN r["short"]["regional"] # {}

(* The token classifiers and recordTokenPrice pass over batch, ultrafast   *)
(* and most long-context SKUs; recordNonTokenPrice over none of them.      *)
Token(s) == s.kind \in TokenKinds
Recordable(s) == Token(s) => s.class \notin {"batch", "ultrafast"}
Rank(s, mode) ==
  IF s.class = "batch" THEN 90 ELSE IF s.class = "flex" THEN 80
  ELSE IF s.global /\ mode = "regional" THEN 20 ELSE 0

(* Mutant of Claims: of two SKUs of one rank the later one wins. *)
ClaimsLater(s, held, mode) == Rank(s, mode) <= Rank(held, mode)
Claims(s, held, mode) ==
  \/ Rank(s, mode) < Rank(held, mode)
  \/ Rank(s, mode) = Rank(held, mode) /\ s.price < held.price

HasTier(m) == m \in DOMAIN Reviewed /\ "long" \in DOMAIN Reviewed[m]
Usable(s) ==
  Recordable(s) /\ (Token(s) /\ s.long => s.svc = "FoundationModels" /\ HasTier(s.model))
Context(s) == IF Token(s) /\ s.long THEN "long" ELSE "short"
Candidates(found, ctx, mode, k) ==
  {s \in found : Usable(s) /\ Context(s) = ctx /\ s.kind = k /\ (mode = "global" => s.global)}
(* Who holds the dimension after the first n SKUs; nobody at first.        *)
Holders(S, mode, order) ==
  LET held[n \in 0..Len(order)] ==
        IF n = 0 THEN {}
        ELSE LET last == held[n - 1]
             IN IF order[n] \in S /\ \A h \in last : Claims(order[n], h, mode)
                THEN {order[n]} ELSE last
  IN held
Winner(S, mode, order) == CHOOSE s \in Holders(S, mode, order)[Len(order)] : TRUE
Recorded(found, order) ==
  [ctx \in Contexts |-> [mode \in Modes |->
     [k \in {j \in Kinds : Candidates(found, ctx, mode, j) # {}} |->
        Winner(Candidates(found, ctx, mode, k), mode, order).price]]]
Found(skus, svc, m, region) == {s \in skus : s.svc = svc /\ s.model = m /\ s.region = region}

(* What was reviewed by hand. *)
Card(m, ctx, mode) ==
  IF m \in DOMAIN Reviewed /\ ctx \in DOMAIN Reviewed[m]
  THEN Reviewed[m][ctx][mode] ELSE NoRates
Filled(r, m) ==
  [r EXCEPT !["long"] = [mode \in Modes |-> Over(r["long"][mode], Card(m, "long", mode))]]
FromCard(m) ==
  Filled([Unrated EXCEPT !["short"] = [mode \in Modes |-> Card(m, "short", mode)]], m)

(* What a query of the index answers, nothing when it fails. *)
Answer(index, failed, svc, m, region) ==
  Found(IF svc \in failed THEN {} ELSE index, svc, m, region)

(* resolveModelPricing for one region: the offer files, else the reviewed  *)
(* card, else the Query API, where a query may fail.                       *)
InRegion(m, region, files, index, failed, order) ==
  LET bulk == Found(files, "AmazonBedrock", m, region)
                \union Found(files, "FoundationModels", m, region)
      answer(svc) == Answer(index, failed, svc, m, region)
      queried == bulk \union answer("FoundationModels")
      listed == Recorded(bulk, order)
      filled == Filled(listed, m)
      models == Recorded(queried, order)
      row(r, website) == [rates |-> r, website |-> website]
  IN IF Priced(listed) THEN row(filled, filled # listed)
     ELSE IF m \in DOMAIN Reviewed THEN row(FromCard(m), TRUE)
     ELSE IF Priced(models) THEN row(models, FALSE)
     ELSE row(Recorded(queried \union answer("AmazonBedrock"), order), FALSE)
Resolved(m, files, index, failed, order) ==
  [g \in RegionSet |-> InRegion(m, g, files, index, failed, order)]

(***************************************************************************)
(* The row: a rate per region, and at the top the first region's rate.     *)
(***************************************************************************)
FirstWins(resolved, ctx, mode) ==
  FoldLeft(LAMBDA top, g : Over(top, resolved[g].rates[ctx][mode]), NoRates, Regions)
CatalogRow(resolved, today) ==
  LET website == \E g \in RegionSet : resolved[g].website
      tiered == \E g \in RegionSet, mode \in Modes :
                  DOMAIN resolved[g].rates["long"][mode] # {}
  IN [source |-> IF website THEN "aws-website" ELSE "pricing-api",
      top |-> [ctx \in Contexts |-> FirstWins(resolved, ctx, "regional")],
      region |-> [g \in RegionSet |->
                    [ctx \in Contexts |-> resolved[g].rates[ctx]["regional"]]],
      routing |-> [ctx \in Contexts |-> FirstWins(resolved, ctx, "global")],
      at |-> today,
      verified |-> IF website \/ tiered THEN ReviewedOn ELSE -1]
NoRegions == [g \in RegionSet |-> [ctx \in Contexts |-> NoRates]]

OverrideRow(old, rates, today) ==
  [source |-> "override",
   top |-> [short |-> rates, long |-> IF old = NoRow THEN NoRates ELSE old.top["long"]],
   region |-> IF old = NoRow THEN NoRegions
              ELSE [g \in RegionSet |-> [short |-> NoRates, long |-> old.region[g]["long"]]],
   routing |-> IF old = NoRow THEN [ctx \in Contexts |-> NoRates] ELSE old.routing,
   at |-> today, verified |-> today]

(* dimensionsOf: region over top, routing over region, the tier over all. *)
RatesFor(r, region, mode, ctx) ==
  LET layers(c) ==
        Over(Over(IF mode = "global" THEN r.routing[c] ELSE NoRates, r.region[region][c]), r.top[c])
  IN IF r = NoRow THEN NoRates
     ELSE IF ctx = "long" THEN Over(layers("long"), layers("short")) ELSE layers("short")
================================================================================
