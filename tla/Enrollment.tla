---- MODULE Enrollment ----
(* Enrolment of member accounts: the Enrollment page, the enrolment API, the  *)
(* one SSM parameter both stages share, and the pipeline that bootstraps the  *)
(* home regions, synthesises the stages and deploys the member StackSets.     *)
(* Accounts that join the Organization or change unit are picked up by the    *)
(* StackSets with auto-deployment. CloudFormation, CodePipeline, Systems      *)
(* Manager and Organizations are external.                                    *)
EXTENDS Naturals, FiniteSets, Overlay

CONSTANTS
    Stages,         \* the stages of the pipeline, dev and prod in the code
    Turn,           \* stage |-> when a release comes to it
    Pages, StageOf, \* open Enrollment pages, and the stage each belongs to
    Accounts, Home, \* accounts, one of them the home account
    Units, NoUnit,  \* organizational units; an account under the root has no unit
    HomeRegion,     \* region of the control plane
    RegionSets,     \* the region selections an operator makes
    ListForms,      \* what a client sends that splits the accounts itself
    StartConfigs,   \* what the parameter may hold at the start
    StartOrg,       \* account |-> unit, for the accounts of the Organization
    Overlap,        \* may two requests read the parameter before either writes?
    MaxApplies,     \* bound on accepted requests
    MaxTroubles,    \* bound on failures and on accounts that move, together
    None

ASSUME EnrollmentAssumption ==
    /\ StageOf \in [Pages -> Stages] /\ Turn \in [Stages -> Nat]
    /\ Home \in DOMAIN StartOrg
    /\ {} \notin RegionSets

VARIABLES
    config,         \* /bbg/operator-config: one entry per key
    org,            \* account |-> unit
    page,           \* page |-> what it shows, or None
    call,           \* page |-> its request in flight, or None
    pipeline,       \* the execution of the pipeline
    deployed,       \* stage |-> its StackSets
    booted,         \* regions of the home account that have the CDK toolkit
    stuck,          \* why the parameter is not coming into force: a release was
                    \* not started after a write, or the last one failed
    sent,           \* stage |-> the selections its operator last had accepted
    asked,          \* stage |-> those its StackSets were synthesised for
    collided,       \* accounts in which CloudFormation may have refused a stack
    used            \* how often each bounded event has happened

stacks == <<deployed, asked, collided>>
vars == <<config, org, page, call, pipeline, stacks, booted, stuck, sent, used>>

----------------------------------------------------------------------------
(* The parameter. A key is absent, flat (for every stage) or a map by stage.  *)

NoList == << >>
NoEntry == << >>
Flat(v) == [flat |-> v]
ByStage(m) == [map |-> m]
IsFlat(e) == "flat" \in DOMAIN e
IsMap(e) == "map" \in DOMAIN e

View(cfg, key, s) ==
    LET e == cfg[key]
        nothing == IF key = "whole" THEN None ELSE NoList
    IN  IF IsFlat(e) THEN e.flat
        ELSE IF IsMap(e) /\ s \in DOMAIN e.map THEN e.map[s] ELSE nothing

Metered(cfg) == IF cfg.metered = None THEN {HomeRegion} ELSE cfg.metered

ReadOperatorConfig(cfg, s) ==
    [ members     |-> View(cfg, "members", s),
      orgAccounts |-> View(cfg, "orgAccounts", s),
      ous         |-> View(cfg, "ous", s),
      whole       |-> View(cfg, "whole", s),
      metered     |-> cfg.metered ]

(* A slip: promoting a flat list forgets the other stages. *)
ForgetfulPromote(e, s, v) ==
    ByStage(IF IsMap(e) THEN Over(At(s, v), e.map) ELSE At(s, v))

(* A list that was flat becomes a map: the other stages keep the flat list.   *)
PromoteToMap(e, s, v) ==
    ByStage(IF IsFlat(e) THEN Over(At(s, v), [t \in Stages \ {s} |-> e.flat])
            ELSE IF IsMap(e) THEN Over(At(s, v), e.map)
            ELSE At(s, v))

PromoteWholeOrg(e, s, v) ==
    IF v # None THEN PromoteToMap(e, s, v)
    ELSE IF IsFlat(e) THEN ByStage([t \in Stages \ {s} |-> e.flat])
    ELSE IF ~IsMap(e) \/ DOMAIN e.map \subseteq {s} THEN NoEntry
    ELSE ByStage(Without(e.map, {s}))

WriteOperatorConfig(cfg, s, new) ==
    [ members     |-> PromoteToMap(cfg.members, s, new.members),
      orgAccounts |-> PromoteToMap(cfg.orgAccounts, s, new.orgAccounts),
      ous         |-> PromoteToMap(cfg.ous, s, new.ous),
      whole       |-> PromoteWholeOrg(cfg.whole, s, new.whole),
      metered     |-> IF new.metered = None THEN cfg.metered ELSE new.metered ]

----------------------------------------------------------------------------
(* The StackSets of a stage.                                                  *)

NoSets == [self |-> NoList, units |-> NoList, listed |-> NoList, whole |-> None,
           bus |-> [wholeOrg |-> FALSE, accounts |-> {}], org |-> NoList, visible |-> TRUE]

(* Who may put events on the home bus: the whole Organization once anything   *)
(* of it is enrolled, else the accounts by name.                              *)
OrgManaged(v) == v.ous # NoList \/ v.orgAccounts # NoList \/ v.whole # None
HomeBus(v, visible) ==
    IF OrgManaged(v) /\ visible THEN [wholeOrg |-> TRUE, accounts |-> {}]
    ELSE [wholeOrg |-> FALSE, accounts |-> DOMAIN v.members \cup DOMAIN v.orgAccounts]

(* A slip: whole-org does not suspend the selections beside it. *)
UnsuspendedSets(cfg, s, now, visible) ==
    LET v == ReadOperatorConfig(cfg, s)
    IN  [ self |-> v.members, units |-> v.ous, listed |-> Only(v.orgAccounts, DOMAIN now),
          whole |-> v.whole, bus |-> HomeBus(v, visible), org |-> now, visible |-> visible ]

(* whole-org suspends the other two SERVICE_MANAGED sets; the sets that       *)
(* target the Organization's root need its id.                                *)
StackSets(cfg, s, now, visible) ==
    LET v == ReadOperatorConfig(cfg, s)
        suspended == v.whole # None
    IN  [ self    |-> v.members,
          units   |-> IF suspended THEN NoList ELSE v.ous,
          listed  |-> IF suspended \/ ~visible THEN NoList
                      ELSE Only(v.orgAccounts, DOMAIN now),
          whole   |-> IF visible THEN v.whole ELSE None,
          bus     |-> HomeBus(v, visible),
          org     |-> now,
          visible |-> visible ]

Synthesised(cfg, s, now, visible) ==
    IF HomeRegion \in Metered(cfg) THEN StackSets(cfg, s, now, visible) ELSE NoSets

(* Regions in which each of a stage's sets has an instance in account a.      *)
SelfManaged(d, a) == IF a \in DOMAIN d.self THEN d.self[a] ELSE {}
ByUnit(d, now, a) ==
    IF a \in DOMAIN now /\ now[a] \in DOMAIN d.units THEN d.units[now[a]] ELSE {}
Listed(d, a) == IF a \in DOMAIN d.listed THEN d.listed[a] ELSE {}
WholeOrg(d, now, a) ==
    IF d.whole # None /\ a \in DOMAIN now \ (d.whole.excluded \cup {Home})
    THEN d.whole.regions ELSE {}

SetKinds == {"self", "unit", "listed", "whole"}
RegionsOf(kind, d, now, a) ==
    CASE kind = "self"   -> SelfManaged(d, a)
      [] kind = "unit"   -> ByUnit(d, now, a)
      [] kind = "listed" -> Listed(d, a)
      [] kind = "whole"  -> WholeOrg(d, now, a)
Instances(d, now, a) == {RegionsOf(kind, d, now, a) : kind \in SetKinds}

(* Log group, functions, rule and roles of an instance have the same names in *)
(* every StackSet of every stage: where two have an instance in one region of *)
(* an account, CloudFormation refuses the second. A set that takes an account *)
(* over may come before the other has let go of it.                           *)
Overlapping(old, new, now) ==
    {a \in Accounts : \E x \in Stages \X SetKinds :
        LET held == RegionsOf(x[2], old[x[1]], now, a)
        IN  held # {} /\ \E y \in (Stages \X SetKinds) \ {x} :
                            held \cap RegionsOf(y[2], new[y[1]], now, a) # {}}
Contested(sets, now) == Overlapping(sets, sets, now)

(* What an instance creates: the roles only in the home region; invocation    *)
(* logging, its forwarder and the rule for API events in every region.        *)
EnforcementRole(regions) == HomeRegion \in regions
MeterReaderRole(regions) == HomeRegion \in regions
ReadinessReaderRole(regions) == HomeRegion \in regions
InvocationLogs(regions) == regions
Forwarders(regions) == regions
ApiEvents(regions) == regions

Admits(bus, now, a) == IF bus.wholeOrg THEN a \in DOMAIN now ELSE a \in bus.accounts
(* In an account where no stack was refused.                                  *)
MeteredIn(s, a) ==
    IF ~Admits(deployed[s].bus, org, a) THEN {}
    ELSE UNION {InvocationLogs(r) \cap Forwarders(r) \cap ApiEvents(r) :
                  r \in Instances(deployed[s], org, a)}
Deniable(s, a) == \E r \in Instances(deployed[s], org, a) :
                      EnforcementRole(r) /\ MeterReaderRole(r) /\ ReadinessReaderRole(r)

----------------------------------------------------------------------------

Idle == [queued |-> FALSE, step |-> "idle", snap |-> None]
Spend(kind, limit) == used[kind] < limit /\ used' = [used EXCEPT ![kind] = @ + 1]

AsSent(cfg, s) ==
    LET v == ReadOperatorConfig(cfg, s)
    IN  [accounts |-> Over(v.orgAccounts, v.members), ous |-> v.ous, whole |-> v.whole]

(* A release comes to the stages in turn and ends where one fails.            *)
UpTo(s) == {t \in Stages : Turn[t] <= Turn[s]}
StagesDone == {{}} \cup {UpTo(s) : s \in Stages}

(* At first the stages up to the one CloudFormation refused have their stacks:*)
(* a flat list is for every stage, and only one of them can have it.          *)
Started(cfg, live) ==
    [s \in Stages |-> IF s \in live THEN Synthesised(cfg, s, StartOrg, TRUE) ELSE NoSets]

Init ==
    /\ config \in StartConfigs
    /\ org = StartOrg
    /\ page = [p \in Pages |-> None]
    /\ call = [p \in Pages |-> None]
    /\ pipeline = Idle
    /\ \E live \in StagesDone :
         /\ deployed = Started(config, live)
         /\ \A more \in StagesDone :
              Contested(Started(config, more), org) = {} <=> more \subseteq live
         /\ stuck = IF live = Stages THEN {} ELSE {"failed"}
    /\ booted = Metered(config)
    /\ sent = [s \in Stages |-> AsSent(config, s)]
    /\ asked = sent
    /\ collided = {}
    /\ used = [k \in {"apply", "trouble"} |-> 0]

(* The page lists the Organization's accounts: an external account has no row.*)
Open(p) ==
    /\ call[p] = None
    /\ LET v == ReadOperatorConfig(config, StageOf[p])
       IN  page' = [page EXCEPT ![p] =
             [ rows     |-> DOMAIN org \ {Home},
               units    |-> {org[a] : a \in DOMAIN org} \ {NoUnit},
               accounts |-> Only(Over(v.orgAccounts, v.members), DOMAIN org \ {Home}),
               ous      |-> v.ous,
               whole    |-> IF v.whole = None THEN None ELSE v.whole.regions,
               regions  |-> Metered(config),
               dirty    |-> FALSE ]]
    /\ UNCHANGED <<config, org, call, pipeline, stacks, booted, stuck, sent, used>>

(* One change of the operator's, or none. Only home regions that were changed *)
(* since the page was loaded are sent.                                        *)
Toggled(f, x, r) == IF x \in DOMAIN f THEN Without(f, {x}) ELSE Over(At(x, r), f)
ToggleAccount(pg) == {[pg EXCEPT !.accounts = Toggled(@, a, r)] : a \in pg.rows, r \in RegionSets}
ToggleUnit(pg) == {[pg EXCEPT !.ous = Toggled(@, o, r)] : o \in pg.units, r \in RegionSets}
ToggleWholeOrg(pg) ==
    IF pg.whole # None THEN {[pg EXCEPT !.whole = None]}
    ELSE {[pg EXCEPT !.whole = r] : r \in RegionSets}
PickHomeRegions(pg) == {[pg EXCEPT !.regions = r, !.dirty = TRUE] : r \in RegionSets}
Edited(pg) ==
    {pg} \cup ToggleAccount(pg) \cup ToggleUnit(pg) \cup ToggleWholeOrg(pg) \cup PickHomeRegions(pg)

(* The API splits the picked accounts by the Organization tree; when it       *)
(* cannot read the tree it takes every account for an external one.           *)
Partition(accounts, known) ==
    [members |-> Without(accounts, known \cup {Home}), orgAccounts |-> Only(accounts, known \ {Home})]

(* A slip: the regions are taken as picked. *)
AsPicked(regions) == regions
WithHome(regions) == regions \cup {HomeRegion}

Apply(p) ==
    /\ page[p] # None /\ call[p] = None
    /\ Overlap \/ \A q \in Pages : call[q] = None
    /\ used.apply < MaxApplies
    /\ \E pg \in Edited(page[p]), readable \in BOOLEAN :
         /\ readable \/ used.trouble < MaxTroubles
         /\ LET whole == IF pg.whole = None THEN None
                         ELSE [regions |-> pg.whole, excluded |-> {}]
                split == Partition(pg.accounts, IF readable THEN DOMAIN org ELSE {})
            IN  call' = [call EXCEPT ![p] =
                  [ base |-> config, put |-> FALSE,
                    form |-> [accounts |-> pg.accounts, ous |-> pg.ous, whole |-> whole],
                    new  |-> [members |-> split.members, orgAccounts |-> split.orgAccounts,
                              ous |-> pg.ous, whole |-> whole,
                              metered |-> IF pg.dirty THEN WithHome(pg.regions) ELSE None] ]]
         /\ page' = [page EXCEPT ![p] = pg]
         /\ used' = [used EXCEPT !.apply = @ + 1, !.trouble = @ + (IF readable THEN 0 ELSE 1)]
    /\ UNCHANGED <<config, org, pipeline, stacks, booted, stuck, sent>>

(* A client may send the lists already split.                                 *)
PostLists(p) ==
    /\ call[p] = None
    /\ Overlap \/ \A q \in Pages : call[q] = None
    /\ Spend("apply", MaxApplies)
    /\ \E new \in ListForms :
         call' = [call EXCEPT ![p] =
           [ base |-> config, put |-> FALSE,
             new |-> [members |-> new.members, orgAccounts |-> new.orgAccounts,
                      ous |-> new.ous, whole |-> new.whole, metered |-> None],
             form |-> [accounts |-> Over(new.orgAccounts, new.members), ous |-> new.ous,
                       whole |-> new.whole] ]]
    /\ UNCHANGED <<config, org, page, pipeline, stacks, booted, stuck, sent>>

(* The whole parameter is written back as it was read, with this stage's part *)
(* replaced.                                                                  *)
Puts(p) ==
    /\ call[p] # None /\ ~call[p].put
    /\ config' = WriteOperatorConfig(call[p].base, StageOf[p], call[p].new)
    /\ sent' = [sent EXCEPT ![StageOf[p]] = call[p].form]
    /\ call' = [call EXCEPT ![p].put = TRUE]
    /\ UNCHANGED <<org, page, pipeline, stacks, booted, stuck, used>>

(* A pipeline that cannot be started is logged, and the request succeeds.     *)
StartsPipeline(p) ==
    /\ call[p] # None /\ call[p].put
    /\ call' = [call EXCEPT ![p] = None]
    /\ \/ pipeline' = [pipeline EXCEPT !.queued = TRUE] /\ UNCHANGED <<stuck, used>>
       \/ /\ Spend("trouble", MaxTroubles)
          /\ stuck' = stuck \cup {"unstarted"}
          /\ UNCHANGED pipeline
    /\ UNCHANGED <<config, org, page, stacks, booted, sent>>

RequestDies(p) ==
    /\ call[p] # None
    /\ Spend("trouble", MaxTroubles)
    /\ call' = [call EXCEPT ![p] = None]
    /\ stuck' = IF call[p].put THEN stuck \cup {"unstarted"} ELSE stuck
    /\ UNCHANGED <<config, org, page, pipeline, stacks, booted, sent>>

----------------------------------------------------------------------------
(* One execution of the pipeline at a time; a request queues the next.        *)

BootstrapsRegions ==
    /\ pipeline.queued /\ pipeline.step = "idle"
    /\ booted' = booted \cup Metered(config)
    /\ pipeline' = [queued |-> FALSE, step |-> "synth", snap |-> None]
    /\ stuck' = stuck \ {"unstarted"}
    /\ UNCHANGED <<config, org, page, call, stacks, sent, used>>

(* Synthesis is refused while a member account on the external list is in the *)
(* Organization, if the build role can list it.                               *)
Preflight(cfg, now) == \A s \in Stages : DOMAIN View(cfg, "members", s) \cap DOMAIN now = {}
(* What is deployed at the start has passed it. *)
ASSUME StartAssumption == \A cfg \in StartConfigs : Preflight(cfg, StartOrg)

Synthesises ==
    /\ pipeline.step = "synth"
    /\ \E visible \in BOOLEAN :
         /\ visible \/ used.trouble < MaxTroubles
         /\ used' = [used EXCEPT !.trouble = @ + (IF visible THEN 0 ELSE 1)]
         /\ IF visible => Preflight(config, org)
            THEN /\ pipeline' = [pipeline EXCEPT !.step = "deploy",
                      !.snap = [metered |-> Metered(config),
                                asked |-> sent,
                                sets |-> [s \in Stages |-> Synthesised(config, s, org, visible)]]]
                 /\ UNCHANGED stuck
            ELSE /\ pipeline' = [pipeline EXCEPT !.step = "idle"]
                 /\ stuck' = stuck \cup {"failed"}
    /\ UNCHANGED <<config, org, page, call, stacks, booted, sent>>

(* However it ends, the execution is over.                                    *)
Finishes ==
    /\ pipeline.step = "deploy"
    /\ pipeline' = [pipeline EXCEPT !.step = "idle", !.snap = None]

(* A release fails where a metered region lacks the CDK toolkit, and where    *)
(* CloudFormation refuses more stacks than a StackSet tolerates, one of an    *)
(* external account at the least: stages that had their turn keep what they   *)
(* got. One that could not see the Organization succeeds with a warning.      *)
Deploys ==
    /\ Finishes
    /\ \E late \in SUBSET Overlapping(deployed, pipeline.snap.sets, org), done \in StagesDone :
         LET new == pipeline.snap.sets
             refused == late \cup Contested(new, org)
             sound == pipeline.snap.metered \subseteq booted
                      /\ \A s \in Stages, a \in refused : SelfManaged(new[s], a) = {}
         IN  /\ IF done = Stages THEN sound ELSE refused # {} \/ ~sound
             /\ deployed' = [s \in Stages |-> IF s \in done THEN new[s] ELSE deployed[s]]
             /\ asked' = [s \in Stages |-> IF s \in done THEN pipeline.snap.asked[s] ELSE asked[s]]
             /\ collided' = collided \cup refused \cup Contested(deployed', org)
             /\ stuck' = IF done = Stages THEN stuck \ {"failed"} ELSE stuck \cup {"failed"}
    /\ UNCHANGED <<config, org, page, call, booted, sent, used>>

(* An account joins the Organization, or moves to another unit of it, and the *)
(* StackSets with auto-deployment follow.                                     *)
Moves(a) ==
    /\ a # Home
    /\ Spend("trouble", MaxTroubles)
    /\ \E u \in Units \cup {NoUnit} : org' = Over(At(a, u), org)
    /\ collided' = collided \cup Contested(deployed, org')
    /\ UNCHANGED <<config, page, call, pipeline, deployed, asked, booted, stuck, sent>>

Request(p) == Puts(p) \/ StartsPipeline(p) \/ RequestDies(p)
Release == BootstrapsRegions \/ Synthesises \/ Deploys

Next ==
    \/ \E p \in Pages : Open(p) \/ Apply(p) \/ PostLists(p) \/ Request(p)
    \/ Release
    \/ \E a \in Accounts : Moves(a)

Spec == Init /\ [][Next]_vars
(* A pipeline that has begun a step ends it, be it with a failure.            *)
FairSpec == Spec /\ WF_pipeline(BootstrapsRegions \/ Synthesises \/ Finishes)
                 /\ \A p \in Pages : WF_call(Request(p))

----------------------------------------------------------------------------

(* While no request of the stage is in flight, the parameter holds exactly    *)
(* what the stage's operator last had accepted: the accounts split over the   *)
(* two lists, the units and the whole-org choice with the selections it       *)
(* suspends, whatever the other stage's operator wrote in between and         *)
(* whichever shape the keys had (writeOperatorConfig, readOperatorConfig).    *)
LastFormStands ==
    \A s \in Stages :
        (\A p \in Pages : StageOf[p] = s => call[p] = None \/ call[p].put)
            => LET v == ReadOperatorConfig(config, s)
               IN  /\ Over(v.orgAccounts, v.members) = sent[s].accounts
                   /\ v.ous = sent[s].ous
                   /\ v.whole = sent[s].whole

(* Regions in which the operator of stage s wants account a metered.          *)
Wanted(s, a) ==
    LET f == sent[s]
        picked == IF a \in DOMAIN f.accounts THEN f.accounts[a] ELSE {}
        inOrg == a \in DOMAIN org
        unit == IF inOrg /\ org[a] \in DOMAIN f.ous THEN f.ous[org[a]] ELSE {}
    IN  IF a = Home THEN {}
        ELSE IF f.whole # None /\ inOrg
        THEN (IF a \in f.whole.excluded THEN {} ELSE f.whole.regions)
        ELSE picked \cup unit

Landed == \A s \in Stages, a \in Accounts \ ({Home} \cup collided) :
              a \in DOMAIN org \/ ~OrgManaged(ReadOperatorConfig(config, s)) =>
              LET wanted == Wanted(s, a) IN
              /\ MeteredIn(s, a) = wanted
              /\ Deniable(s, a) <=> HomeRegion \in wanted

(* Unless the latest release failed, was never started or could not see the   *)
(* Organization, the member stacks come to be exactly where the operators of  *)
(* both stages last asked for them, although requests, bootstrap and synthesis*)
(* each read the parameter at a moment of their own and accounts move between *)
(* units meanwhile. An account in which two StackSets met and CloudFormation  *)
(* may have refused the one is left out; one outside the Organization counts  *)
(* only beside no Organization enrolment.                                     *)
Blind == \E s \in Stages : ~deployed[s].visible
EnrolmentLands == []<>(stuck # {} \/ Blind \/ Landed)

(* The StackSets of stage s that the release aimed at account a.              *)
Owners(s, a) == {kind \in SetKinds : RegionsOf(kind, deployed[s], deployed[s].org, a) # {}}
(* What an operator has to have chosen for a StackSet to own an account.      *)
Chosen(f, kind, a, now) ==
    CASE kind \in {"self", "listed"} -> a \in DOMAIN f.accounts
      [] kind = "unit"  -> now[a] \in DOMAIN f.ous
      [] kind = "whole" -> f.whole # None

(* In every release that could see the Organization, an account gets its      *)
(* member stack from one StackSet of the stage, or from two where the operator*)
(* picked both the account and its unit; and from none its operator did not   *)
(* choose it for. So the sets of two stages meet in an account, whose roles   *)
(* "aren't stage-prefixed" (operator-config.ts:97-100), only where operators  *)
(* of both chose it, which the code lets them, or left a list in the old shape*)
(* that is for every stage.                                                   *)
OneOwner ==
    \A s \in Stages : deployed[s].visible => \A a \in DOMAIN deployed[s].org \ {Home} :
        /\ Cardinality(Owners(s, a)) <= 1 \/ Owners(s, a) = {"unit", "listed"}
        /\ \A kind \in Owners(s, a) : Chosen(asked[s], kind, a, deployed[s].org)

====
