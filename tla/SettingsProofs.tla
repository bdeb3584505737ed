----------------------------- MODULE SettingsProofs -----------------------------
(***************************************************************************)
(* What operators set, and what becomes of it: the rates of models         *)
(* (PriceRefresh), negotiated discounts (OrgDiscounts) and the accounts    *)
(* that are enrolled (Enrollment).                                         *)
(***************************************************************************)
EXTENDS PriceRefresh, OrgDiscounts, Enrollment, WellFoundedInduction, FiniteSetTheorems, TLAPS

(***************************************************************************)
(* Enrolment.                                                              *)
(***************************************************************************)
(* What stage t is shown of one entry of the parameter.                    *)
Shown(e, t, nothing) ==
  IF IsFlat(e) THEN e.flat
  ELSE IF IsMap(e) /\ t \in DOMAIN e.map THEN e.map[t] ELSE nothing

(* A list promoted to a map shows its stage the new list, the others what they
   were shown: promoteToMap. *)
LEMMA PromotedList ==
  ASSUME NEW e, NEW v, NEW nothing, NEW s \in Stages, NEW t \in Stages
  PROVE  Shown(PromoteToMap(e, s, v), t, nothing)
           = IF t = s THEN v ELSE Shown(e, t, nothing)
<1>1. \A m : ~IsFlat(ByStage(m)) /\ IsMap(ByStage(m)) /\ ByStage(m).map = m
  BY DEF IsFlat, IsMap, ByStage
<1>2. CASE IsFlat(e)
  BY <1>1, <1>2 DEF Shown, PromoteToMap, Over, At
<1>3. CASE ~IsFlat(e) /\ IsMap(e)
  BY <1>1, <1>3 DEF Shown, PromoteToMap, Over, At
<1>4. CASE ~IsFlat(e) /\ ~IsMap(e)
  BY <1>1, <1>4 DEF Shown, PromoteToMap, Over, At
<1>. QED BY <1>2, <1>3, <1>4

(* The same of the whole-org choice, whether it is made or taken back:
   promoteWholeOrgToMap. *)
LEMMA PromotedWhole ==
  ASSUME NEW e, NEW v, NEW s \in Stages, NEW t \in Stages
  PROVE  Shown(PromoteWholeOrg(e, s, v), t, None)
           = IF t = s THEN v ELSE Shown(e, t, None)
<1>1. \A m : ~IsFlat(ByStage(m)) /\ IsMap(ByStage(m)) /\ ByStage(m).map = m
  BY DEF IsFlat, IsMap, ByStage
<1>2. ~IsFlat(NoEntry) /\ ~IsMap(NoEntry)
  BY DEF IsFlat, IsMap, NoEntry
<1>3. CASE v # None
  BY <1>3, PromotedList DEF PromoteWholeOrg
<1>4. CASE v = None /\ IsFlat(e)
  BY <1>1, <1>4 DEF Shown, PromoteWholeOrg
<1>5. CASE v = None /\ ~IsFlat(e) /\ (~IsMap(e) \/ DOMAIN e.map \subseteq {s})
  BY <1>2, <1>5 DEF Shown, PromoteWholeOrg
<1>6. CASE v = None /\ ~IsFlat(e) /\ ~(~IsMap(e) \/ DOMAIN e.map \subseteq {s})
  BY <1>1, <1>6 DEF Shown, PromoteWholeOrg, Without
<1>. QED BY <1>3, <1>4, <1>5, <1>6

(* What a client put is read back by its stage, and the other stages read what
   they read before: writeOperatorConfig and readOperatorConfig. *)
Reads(v, w) ==
  /\ v.members = w.members /\ v.orgAccounts = w.orgAccounts
  /\ v.ous = w.ous /\ v.whole = w.whole
(* What stage t reads of the parameter after a write of stage s. *)
LEMMA ReadBack ==
  ASSUME NEW cfg, NEW new, NEW s \in Stages, NEW t \in Stages
  PROVE  Reads(ReadOperatorConfig(WriteOperatorConfig(cfg, s, new), t),
               IF t = s THEN new ELSE ReadOperatorConfig(cfg, t))
<1>. DEFINE put == WriteOperatorConfig(cfg, s, new)
<1>1. /\ put["members"] = PromoteToMap(cfg["members"], s, new.members)
      /\ put["orgAccounts"] = PromoteToMap(cfg["orgAccounts"], s, new.orgAccounts)
      /\ put["ous"] = PromoteToMap(cfg["ous"], s, new.ous)
      /\ put["whole"] = PromoteWholeOrg(cfg["whole"], s, new.whole)
  BY DEF WriteOperatorConfig
<1>2. \A c, u : /\ ReadOperatorConfig(c, u).members = Shown(c["members"], u, NoList)
                /\ ReadOperatorConfig(c, u).orgAccounts = Shown(c["orgAccounts"], u, NoList)
                /\ ReadOperatorConfig(c, u).ous = Shown(c["ous"], u, NoList)
                /\ ReadOperatorConfig(c, u).whole = Shown(c["whole"], u, None)
  BY DEF ReadOperatorConfig, View, Shown
<1>. HIDE DEF put
<1>3. CASE t = s
  BY <1>1, <1>2, <1>3, PromotedList, PromotedWhole DEF Reads, put
<1>4. CASE t # s
  BY <1>1, <1>2, <1>4, PromotedList, PromotedWhole DEF Reads, put
<1>. QED BY <1>3, <1>4

IsFcn(f) == f = [x \in DOMAIN f |-> f[x]]
(* The two lists a selection is split into make up the selection again. *)
LEMMA SplitAgain ==
  ASSUME NEW f, IsFcn(f), Home \notin DOMAIN f, NEW known
  PROVE  Over(Partition(f, known).orgAccounts, Partition(f, known).members) = f
<1>. DEFINE g == Only(f, known \ {Home})
            h == Without(f, known \cup {Home})
<1>1. Partition(f, known).orgAccounts = g /\ Partition(f, known).members = h
  BY DEF Partition
<1>2. /\ DOMAIN g = DOMAIN f \cap known /\ \A x \in DOMAIN g : g[x] = f[x]
      /\ DOMAIN h = DOMAIN f \ known /\ \A x \in DOMAIN h : h[x] = f[x]
  BY DEF Only, Without
<1>. HIDE DEF g, h
<1>3. DOMAIN g \union DOMAIN h = DOMAIN f
  BY <1>2
<1>4. Over(g, h) = [x \in DOMAIN f |-> f[x]]
  BY <1>2, <1>3 DEF Over
<1>. QED BY <1>1, <1>4 DEF IsFcn

(* A page as it was loaded and edited since: it has no row for the home account. *)
PageOK(pg) ==
  /\ pg = [rows |-> pg.rows, units |-> pg.units, accounts |-> pg.accounts, ous |-> pg.ous,
           whole |-> pg.whole, regions |-> pg.regions, dirty |-> pg.dirty]
  /\ Home \notin pg.rows \union DOMAIN pg.accounts
  /\ IsFcn(pg.accounts)
(* What is to be put says what the operator has chosen. *)
SaysForm(v, f) ==
  Over(v.orgAccounts, v.members) = f.accounts /\ v.ous = f.ous /\ v.whole = f.whole
(* A request that has not put yet has read the parameter as it is.         *)
CallOK(c, now) ==
  /\ "put" \in DOMAIN c
  /\ ~c.put => c.base = now /\ SaysForm(c.new, c.form)
FormInv ==
  /\ page = [p \in Pages |-> page[p]] /\ call = [p \in Pages |-> call[p]]
  /\ sent = [s \in Stages |-> sent[s]]
  /\ \A p \in Pages : page[p] # None => PageOK(page[p])
  /\ \A p \in Pages : call[p] # None => CallOK(call[p], config)
  /\ \A p, q \in Pages : call[p] # None /\ call[q] # None => p = q
  /\ \A s \in Stages : SaysForm(ReadOperatorConfig(config, s), sent[s])

(* An edit of a page leaves it a page. *)
LEMMA EditedOK ==
  ASSUME NEW pg, PageOK(pg), NEW new \in Edited(pg)
  PROVE  PageOK(new)
<1>1. CASE new = pg
  BY <1>1
<1>2. CASE new \in ToggleAccount(pg)
  <2>1. PICK a \in pg.rows, r \in RegionSets : new = [pg EXCEPT !.accounts = Toggled(pg.accounts, a, r)]
    BY <1>2 DEF ToggleAccount
  <2>. DEFINE f == Toggled(pg.accounts, a, r)
  <2>2. IsFcn(f) /\ Home \notin DOMAIN f
    <3>1. a # Home /\ Home \notin DOMAIN pg.accounts
      BY DEF PageOK
    <3>2. IsFcn(Without(pg.accounts, {a})) /\ Home \notin DOMAIN Without(pg.accounts, {a})
      BY <3>1 DEF IsFcn, Without
    <3>3. IsFcn(Over(At(a, r), pg.accounts)) /\ Home \notin DOMAIN Over(At(a, r), pg.accounts)
      BY <3>1 DEF IsFcn, Over, At
    <3>. QED BY <3>2, <3>3 DEF Toggled
  <2>. HIDE DEF f
  <2>3. new = [rows |-> pg.rows, units |-> pg.units, accounts |-> f, ous |-> pg.ous,
               whole |-> pg.whole, regions |-> pg.regions, dirty |-> pg.dirty]
    BY <2>1 DEF PageOK, f
  <2>. QED BY <2>2, <2>3 DEF PageOK
<1>3. CASE new \in ToggleUnit(pg) \cup ToggleWholeOrg(pg) \cup PickHomeRegions(pg)
  <2>1. \E o, w, g, d : new = [rows |-> pg.rows, units |-> pg.units, accounts |-> pg.accounts,
                               ous |-> o, whole |-> w, regions |-> g, dirty |-> d]
    <3>1. CASE new \in ToggleUnit(pg)
      BY <3>1 DEF ToggleUnit, PageOK
    <3>2. CASE new \in ToggleWholeOrg(pg)
      <4>1. PICK w : new = [pg EXCEPT !.whole = w]
        BY <3>2 DEF ToggleWholeOrg
      <4>. QED BY <4>1 DEF PageOK
    <3>3. CASE new \in PickHomeRegions(pg)
      BY <3>3 DEF PickHomeRegions, PageOK
    <3>. QED BY <1>3, <3>1, <3>2, <3>3
  <2>. QED BY <2>1 DEF PageOK
<1>. QED BY <1>1, <1>2, <1>3 DEF Edited

(* The forms and the parameter at the start. *)
LEMMA FormInit == Init => FormInv
<1>. SUFFICES ASSUME Init PROVE FormInv
  OBVIOUS
<1>1. \A p \in Pages : page[p] = None /\ call[p] = None
  BY DEF Init
<1>2. \A s \in Stages : SaysForm(ReadOperatorConfig(config, s), sent[s])
  BY DEF Init, AsSent, SaysForm
<1>. QED BY <1>1, <1>2 DEF FormInv, Init

(* A step that leaves the parameter, the accepted selections and the requests
   alone, apart from requests that end or are through with their put. *)
LEMMA CallsEnd ==
  ASSUME FormInv, UNCHANGED <<config, sent>>, page' = [p \in Pages |-> page'[p]],
         \A p \in Pages : page'[p] # None => PageOK(page'[p]),
         call' = [p \in Pages |-> call'[p]],
         \A p \in Pages : call'[p] \in {None, call[p]}
  PROVE  FormInv'
<1>1. \A p \in Pages : call'[p] # None => call[p] # None /\ call'[p] = call[p]
  OBVIOUS
<1>2. \A p \in Pages : call'[p] # None => CallOK(call'[p], config')
  BY <1>1 DEF FormInv, CallOK
<1>3. \A s \in Stages : SaysForm(ReadOperatorConfig(config, s), sent[s])'
  BY DEF FormInv, ReadOperatorConfig, View, SaysForm
<1>4. \A p, q \in Pages : call'[p] # None /\ call'[q] # None => p = q
  BY <1>1 DEF FormInv
<1>5. sent' = [s \in Stages |-> sent'[s]]
  BY DEF FormInv
<1>. QED BY <1>2, <1>3, <1>4, <1>5 DEF FormInv

(* A new request is the only one, and has read what the parameter is. *)
LEMMA CallBegins ==
  ASSUME FormInv, UNCHANGED <<config, sent>>, page' = [p \in Pages |-> page'[p]],
         \A p \in Pages : page'[p] # None => PageOK(page'[p]),
         NEW p \in Pages, \A q \in Pages : call[q] = None,
         NEW new, NEW form_, SaysForm(new, form_),
         call' = [call EXCEPT ![p] = [base |-> config, put |-> FALSE, form |-> form_, new |-> new]]
  PROVE  FormInv'
<1>. DEFINE c == [base |-> config, put |-> FALSE, form |-> form_, new |-> new]
<1>1. call' = [q \in Pages |-> IF q = p THEN c ELSE None]
  BY DEF FormInv
<1>2. CallOK(c, config')
  BY DEF CallOK, SaysForm
<1>3. \A q \in Pages : call'[q] # None => q = p /\ call'[q] = c
  BY <1>1
<1>. HIDE DEF c
<1>4. \A q \in Pages : call'[q] # None => CallOK(call'[q], config')
  BY <1>2, <1>3 DEF CallOK
<1>5. \A s \in Stages : SaysForm(ReadOperatorConfig(config, s), sent[s])'
  BY DEF FormInv, ReadOperatorConfig, View, SaysForm
<1>6. \A q, r \in Pages : call'[q] # None /\ call'[r] # None => q = r
  BY <1>3
<1>7. call' = [q \in Pages |-> call'[q]] /\ sent' = [s \in Stages |-> sent'[s]]
  BY <1>1 DEF FormInv
<1>. QED BY <1>4, <1>5, <1>6, <1>7 DEF FormInv

(* Loading a page. *)
LEMMA OpenForms ==
  ASSUME FormInv, NEW p \in Pages, Open(p)
  PROVE  FormInv'
<1>. DEFINE v == ReadOperatorConfig(config, StageOf[p])
            f == Only(Over(v.orgAccounts, v.members), DOMAIN org \ {Home})
<1>1. IsFcn(f) /\ Home \notin DOMAIN f
  BY DEF IsFcn, Only
<1>2. PICK pg : /\ pg.rows = DOMAIN org \ {Home} /\ pg.accounts = f /\ page' = [page EXCEPT ![p] = pg]
                /\ pg = [rows |-> pg.rows, units |-> pg.units, accounts |-> pg.accounts, ous |-> pg.ous,
                         whole |-> pg.whole, regions |-> pg.regions, dirty |-> pg.dirty]
  <2>. HIDE DEF f
  <2>1. \E u, o, w, r, d : page' = [page EXCEPT ![p] =
            [rows |-> DOMAIN org \ {Home}, units |-> u, accounts |-> f, ous |-> o,
             whole |-> w, regions |-> r, dirty |-> d]]
    BY DEF Open, f
  <2>. QED BY <2>1
<1>. HIDE DEF f
<1>3. PageOK(pg)
  BY <1>1, <1>2 DEF PageOK
<1>4. /\ page' = [q \in Pages |-> page'[q]]
      /\ \A q \in Pages : page'[q] # None => PageOK(page'[q])
  BY <1>2, <1>3 DEF FormInv
<1>5. UNCHANGED <<config, sent, call>>
  BY DEF Open
<1>. QED BY <1>4, <1>5, CallsEnd DEF FormInv

(* Applying a page. *)
LEMMA ApplyForms ==
  ASSUME FormInv, ~Overlap, NEW p \in Pages, Apply(p)
  PROVE  FormInv'
<1>1. \A q \in Pages : call[q] = None
  BY DEF Apply
<1>2. PICK pg \in Edited(page[p]), readable \in BOOLEAN :
        LET whole == IF pg.whole = None THEN None
                     ELSE [regions |-> pg.whole, excluded |-> {}]
            split == Partition(pg.accounts, IF readable THEN DOMAIN org ELSE {})
        IN /\ call' = [call EXCEPT ![p] =
                [ base |-> config, put |-> FALSE,
                  form |-> [accounts |-> pg.accounts, ous |-> pg.ous, whole |-> whole],
                  new  |-> [members |-> split.members, orgAccounts |-> split.orgAccounts,
                            ous |-> pg.ous, whole |-> whole,
                            metered |-> IF pg.dirty THEN WithHome(pg.regions) ELSE None] ]]
           /\ page' = [page EXCEPT ![p] = pg]
  BY DEF Apply
<1>3. PageOK(pg)
  BY <1>2, EditedOK DEF Apply, FormInv
<1>. DEFINE known == IF readable THEN DOMAIN org ELSE {}
            whole == IF pg.whole = None THEN None ELSE [regions |-> pg.whole, excluded |-> {}]
            split == Partition(pg.accounts, known)
            form_ == [accounts |-> pg.accounts, ous |-> pg.ous, whole |-> whole]
            new == [members |-> split.members, orgAccounts |-> split.orgAccounts,
                    ous |-> pg.ous, whole |-> whole,
                    metered |-> IF pg.dirty THEN WithHome(pg.regions) ELSE None]
<1>4. SaysForm(new, form_)
  <2>1. Over(split.orgAccounts, split.members) = pg.accounts
    BY <1>3, SplitAgain DEF PageOK
  <2>. QED BY <2>1 DEF SaysForm
<1>5. call' = [call EXCEPT ![p] = [base |-> config, put |-> FALSE, form |-> form_, new |-> new]]
  BY <1>2
<1>6. /\ page' = [q \in Pages |-> page'[q]]
      /\ \A q \in Pages : page'[q] # None => PageOK(page'[q])
  BY <1>2, <1>3 DEF FormInv
<1>7. UNCHANGED <<config, sent>>
  BY DEF Apply
<1>. HIDE DEF form_, new
<1>. QED BY <1>1, <1>4, <1>5, <1>6, <1>7, CallBegins

(* A client that sends the lists. *)
LEMMA ListForms_ ==
  ASSUME FormInv, ~Overlap, NEW p \in Pages, PostLists(p)
  PROVE  FormInv'
<1>1. \A q \in Pages : call[q] = None
  BY DEF PostLists
<1>2. PICK new \in ListForms :
        call' = [call EXCEPT ![p] =
          [ base |-> config, put |-> FALSE,
            new |-> [members |-> new.members, orgAccounts |-> new.orgAccounts,
                     ous |-> new.ous, whole |-> new.whole, metered |-> None],
            form |-> [accounts |-> Over(new.orgAccounts, new.members), ous |-> new.ous,
                      whole |-> new.whole] ]]
  BY DEF PostLists
<1>. DEFINE form_ == [accounts |-> Over(new.orgAccounts, new.members), ous |-> new.ous,
                      whole |-> new.whole]
            body == [members |-> new.members, orgAccounts |-> new.orgAccounts,
                     ous |-> new.ous, whole |-> new.whole, metered |-> None]
<1>3. SaysForm(body, form_)
  BY DEF SaysForm
<1>4. call' = [call EXCEPT ![p] = [base |-> config, put |-> FALSE, form |-> form_, new |-> body]]
  BY <1>2
<1>5. UNCHANGED <<config, sent, page>>
  BY DEF PostLists
<1>6. /\ page' = [q \in Pages |-> page'[q]]
      /\ \A q \in Pages : page'[q] # None => PageOK(page'[q])
  BY <1>5 DEF FormInv
<1>. HIDE DEF form_, body
<1>. QED BY <1>1, <1>3, <1>4, <1>5, <1>6, CallBegins

(* The put of the parameter. *)
LEMMA PutForms ==
  ASSUME FormInv, NEW p \in Pages, Puts(p)
  PROVE  FormInv'
<1>. DEFINE s == StageOf[p]
            c == call[p]
<1>1. s \in Stages
  BY EnrollmentAssumption
<1>2. c # None /\ ~c.put /\ CallOK(c, config)
  BY DEF Puts, FormInv
<1>3. /\ config' = WriteOperatorConfig(config, s, c.new)
      /\ sent' = [sent EXCEPT ![s] = c.form] /\ call' = [call EXCEPT ![p].put = TRUE]
      /\ UNCHANGED page
  BY <1>2 DEF Puts, CallOK
<1>4. SaysForm(c.new, c.form)
  BY <1>2 DEF CallOK
<1>5. ASSUME NEW t \in Stages PROVE SaysForm(ReadOperatorConfig(config', t), sent'[t])
  <2>. DEFINE v == ReadOperatorConfig(config', t)
  <2>1. Reads(v, IF t = s THEN c.new ELSE ReadOperatorConfig(config, t))
    BY <1>1, <1>3, ReadBack
  <2>2. sent'[t] = IF t = s THEN c.form ELSE sent[t]
    BY <1>1, <1>3 DEF FormInv
  <2>3. SaysForm(ReadOperatorConfig(config, t), sent[t])
    BY DEF FormInv
  <2>. HIDE DEF v, s, c
  <2>4. CASE t = s
    BY <1>4, <2>1, <2>2, <2>4 DEF Reads, SaysForm, v
  <2>5. CASE t # s
    BY <2>1, <2>2, <2>3, <2>5 DEF Reads, SaysForm, v
  <2>. QED BY <2>4, <2>5
<1>6. \A q \in Pages : q # p => call[q] = None
  BY <1>2 DEF FormInv
<1>7. call' = [q \in Pages |-> IF q = p THEN [c EXCEPT !.put = TRUE] ELSE call[q]]
  BY <1>3 DEF FormInv
<1>8. CallOK([c EXCEPT !.put = TRUE], config')
  <2>. HIDE DEF c
  <2>1. [c EXCEPT !.put = TRUE].put /\ "put" \in DOMAIN [c EXCEPT !.put = TRUE]
    BY <1>2 DEF CallOK
  <2>. QED BY <2>1 DEF CallOK
<1>. HIDE DEF c, s
<1>9. \A q \in Pages : call'[q] # None => q = p /\ CallOK(call'[q], config')
  BY <1>6, <1>7, <1>8
<1>10. sent' = [t \in Stages |-> sent'[t]] /\ call' = [q \in Pages |-> call'[q]]
  BY <1>3, <1>7 DEF FormInv
<1>. QED BY <1>3, <1>5, <1>9, <1>10 DEF FormInv

(* The steps that touch neither the parameter nor a request. *)
LEMMA OtherForms ==
  ASSUME FormInv, Release \/ (\E a \in Accounts : Moves(a)) \/ UNCHANGED vars
  PROVE  FormInv'
<1>1. UNCHANGED <<config, sent, page, call>>
  BY DEF Release, BootstrapsRegions, Synthesises, Deploys, Moves, vars, stacks
<1>. QED BY <1>1, CallsEnd DEF FormInv

(* Every step keeps what the pages and their requests say, while no two requests
   of pages overlap. *)
LEMMA FormStep ==
  ASSUME FormInv, ~Overlap, [Next]_vars
  PROVE  FormInv'
<1>1. ASSUME NEW p \in Pages, StartsPipeline(p) \/ RequestDies(p) PROVE FormInv'
  <2>1. UNCHANGED <<config, sent, page>> /\ call' = [call EXCEPT ![p] = None]
    BY <1>1 DEF StartsPipeline, RequestDies
  <2>2. call' = [q \in Pages |-> call'[q]] /\ \A q \in Pages : call'[q] \in {None, call[q]}
    BY <2>1 DEF FormInv
  <2>. QED BY <2>1, <2>2, CallsEnd DEF FormInv
<1>. QED BY <1>1, OpenForms, ApplyForms, ListForms_, PutForms, OtherForms DEF Next, Request

(* The parameter is what each stage's operator last had accepted, in every
   shape its keys can have (writeOperatorConfig, readOperatorConfig), as long as
   requests do not overlap. *)
THEOREM LastFormStandsHolds == ~Overlap /\ Spec => []LastFormStands
<1>. SUFFICES ASSUME ~Overlap PROVE Spec => []LastFormStands
  OBVIOUS
<1>1. FormInv => LastFormStands
  BY DEF FormInv, LastFormStands, SaysForm
<1>2. Init => FormInv
  BY FormInit
<1>3. FormInv /\ [Next]_vars => FormInv'
  BY FormStep
<1>. QED BY <1>1, <1>2, <1>3, PTL DEF Spec

(* The sets of a release that could see the Organization: no external account
   is of the Organization, and whole-org suspends the other two. *)
SetsOK(d) ==
  d.visible => /\ \A a \in DOMAIN d.org : SelfManaged(d, a) = {}
               /\ d.whole # None => d.units = NoList /\ d.listed = NoList
(* And each of them is aimed at no account its operator did not choose. *)
Fits(d, f) ==
  d.visible => \A a \in DOMAIN d.org, kind \in SetKinds :
                  RegionsOf(kind, d, d.org, a) # {} => Chosen(f, kind, a, d.org)
StacksInv ==
  /\ \A s \in Stages : SetsOK(deployed[s]) /\ Fits(deployed[s], asked[s])
  /\ pipeline = [queued |-> pipeline.queued, step |-> pipeline.step, snap |-> pipeline.snap]
  /\ pipeline.step = "deploy" =>
       \A s \in Stages : /\ SetsOK(pipeline.snap.sets[s])
                         /\ Fits(pipeline.snap.sets[s], pipeline.snap.asked[s])

(* The empty sets of a stage whose metering is off. *)
LEMMA NoSetsOK == SetsOK(NoSets) /\ \A f : Fits(NoSets, f)
BY DEF SetsOK, Fits, NoSets, SelfManaged, NoList

(* What passes the preflight, synthesises such sets. *)
LEMMA SynthesisOK ==
  ASSUME NEW cfg, NEW s \in Stages, NEW now, NEW visible \in BOOLEAN,
         visible => Preflight(cfg, now)
  PROVE  SetsOK(Synthesised(cfg, s, now, visible))
<1>. DEFINE d == StackSets(cfg, s, now, visible)
<1>2. d.visible = visible /\ d.org = now /\ d.self = View(cfg, "members", s)
  BY DEF StackSets, ReadOperatorConfig
<1>3. visible => DOMAIN View(cfg, "members", s) \cap DOMAIN now = {}
  BY DEF Preflight
<1>4. visible => \A a \in DOMAIN d.org : SelfManaged(d, a) = {}
  BY <1>2, <1>3 DEF SelfManaged
<1>5. d.whole # None => d.units = NoList /\ d.listed = NoList
  BY DEF StackSets
<1>. HIDE DEF d
<1>6. SetsOK(d)
  BY <1>2, <1>4, <1>5 DEF SetsOK
<1>. QED BY <1>6, NoSetsOK DEF Synthesised, d

(* They fit what the stage's operator last had accepted, if the parameter holds it. *)
LEMMA SynthesisFits ==
  ASSUME NEW cfg, NEW s \in Stages, NEW now, NEW visible \in BOOLEAN,
         NEW f, SaysForm(ReadOperatorConfig(cfg, s), f)
  PROVE  Fits(Synthesised(cfg, s, now, visible), f)
<1>. DEFINE d == StackSets(cfg, s, now, visible)
            v == ReadOperatorConfig(cfg, s)
<1>1. /\ d.org = now /\ d.self = v.members /\ d.visible = visible
      /\ d.whole \in {None, v.whole} /\ d.units \in {NoList, v.ous}
      /\ d.listed \in {NoList, Only(v.orgAccounts, DOMAIN now)}
  BY DEF StackSets
<1>2. /\ f.accounts = Over(v.orgAccounts, v.members) /\ f.ous = v.ous /\ f.whole = v.whole
  BY DEF SaysForm
<1>3. DOMAIN f.accounts = DOMAIN v.orgAccounts \cup DOMAIN v.members
  BY <1>2 DEF Over
<1>4. DOMAIN NoList = {}
  BY DEF NoList
<1>5. DOMAIN Only(v.orgAccounts, DOMAIN now) \subseteq DOMAIN v.orgAccounts
  BY DEF Only
<1>. HIDE DEF d, v
<1>6. ASSUME NEW a \in DOMAIN d.org, NEW kind \in SetKinds, RegionsOf(kind, d, d.org, a) # {}
      PROVE  Chosen(f, kind, a, d.org)
  <2>1. CASE kind = "self"
    BY <1>1, <1>3, <1>6, <2>1 DEF RegionsOf, SelfManaged, Chosen
  <2>2. CASE kind = "unit"
    BY <1>1, <1>2, <1>4, <1>6, <2>2 DEF RegionsOf, ByUnit, Chosen
  <2>3. CASE kind = "listed"
    BY <1>1, <1>3, <1>4, <1>5, <1>6, <2>3 DEF RegionsOf, Listed, Chosen
  <2>4. CASE kind = "whole"
    BY <1>1, <1>2, <1>6, <2>4 DEF RegionsOf, WholeOrg, Chosen
  <2>. QED BY <2>1, <2>2, <2>3, <2>4 DEF SetKinds
<1>7. Fits(d, f)
  BY <1>6 DEF Fits
<1>. QED BY <1>7, NoSetsOK DEF Synthesised, d

(* The releases and pipelines there are at first keep the sets apart. *)
LEMMA StacksInit == Init => StacksInv
<1>. SUFFICES ASSUME Init PROVE StacksInv
  OBVIOUS
<1>1. ASSUME NEW s \in Stages PROVE SetsOK(deployed[s]) /\ Fits(deployed[s], asked[s])
  <2>1. PICK live \in StagesDone : deployed = Started(config, live)
    BY DEF Init
  <2>2. deployed[s] = NoSets \/ deployed[s] = Synthesised(config, s, StartOrg, TRUE)
    BY <2>1 DEF Started
  <2>3. Preflight(config, StartOrg)
    BY StartAssumption DEF Init
  <2>4. asked[s] = sent[s]
    BY DEF Init
  <2>5. SaysForm(ReadOperatorConfig(config, s), asked[s])
    BY <2>4, FormInit DEF FormInv
  <2>. QED BY <2>2, <2>3, <2>5, SynthesisOK, SynthesisFits, NoSetsOK
<1>2. pipeline = Idle
  BY DEF Init
<1>. QED BY <1>1, <1>2 DEF StacksInv, Idle

(* So does every step. *)
LEMMA StacksStep ==
  ASSUME StacksInv, FormInv, [Next]_vars
  PROVE  StacksInv'
<1>1. CASE UNCHANGED <<deployed, asked, pipeline>>
  BY <1>1 DEF StacksInv
<1>2. CASE \E p \in Pages : StartsPipeline(p)
  <2>1. PICK p \in Pages : StartsPipeline(p)
    BY <1>2
  <2>2. UNCHANGED <<deployed, asked>>
    BY <2>1 DEF StartsPipeline, stacks
  <2>3. CASE UNCHANGED pipeline
    BY <1>1, <2>2, <2>3
  <2>4. CASE pipeline' = [pipeline EXCEPT !.queued = TRUE]
    <3>1. pipeline'.step = pipeline.step /\ pipeline'.snap = pipeline.snap
      BY <2>4 DEF StacksInv
    <3>2. pipeline' = [queued |-> pipeline'.queued, step |-> pipeline'.step, snap |-> pipeline'.snap]
      BY <2>4 DEF StacksInv
    <3>. QED BY <2>2, <3>1, <3>2 DEF StacksInv
  <2>. QED BY <2>1, <2>3, <2>4 DEF StartsPipeline
<1>3. CASE BootstrapsRegions
  <2>1. UNCHANGED <<deployed, asked>>
    BY <1>3 DEF BootstrapsRegions, stacks
  <2>2. pipeline' = [queued |-> FALSE, step |-> "synth", snap |-> None]
    BY <1>3 DEF BootstrapsRegions
  <2>. QED BY <2>1, <2>2 DEF StacksInv
<1>4. CASE Synthesises
  <2>1. PICK visible \in BOOLEAN :
          IF visible => Preflight(config, org)
          THEN pipeline' = [pipeline EXCEPT !.step = "deploy",
                 !.snap = [metered |-> Metered(config), asked |-> sent,
                           sets |-> [s \in Stages |-> Synthesised(config, s, org, visible)]]]
          ELSE pipeline' = [pipeline EXCEPT !.step = "idle"]
    BY <1>4 DEF Synthesises
  <2>2. UNCHANGED <<deployed, asked>>
    BY <1>4 DEF Synthesises, stacks
  <2>3. CASE visible => Preflight(config, org)
    <3>. DEFINE sets == [s \in Stages |-> Synthesised(config, s, org, visible)]
    <3>1. \A s \in Stages : SetsOK(sets[s])
      BY <2>3, SynthesisOK
    <3>2. \A s \in Stages : Fits(sets[s], sent[s])
      BY SynthesisFits DEF FormInv
    <3>3. pipeline' = [queued |-> pipeline.queued, step |-> "deploy",
                       snap |-> [metered |-> Metered(config), asked |-> sent, sets |-> sets]]
      BY <2>1, <2>3 DEF StacksInv
    <3>. HIDE DEF sets
    <3>4. pipeline'.snap.sets = sets /\ pipeline'.snap.asked = sent
      BY <3>3
    <3>5. pipeline' = [queued |-> pipeline'.queued, step |-> pipeline'.step, snap |-> pipeline'.snap]
      BY <3>3
    <3>. QED BY <2>2, <3>1, <3>2, <3>4, <3>5 DEF StacksInv
  <2>4. CASE ~(visible => Preflight(config, org))
    <3>1. pipeline' = [queued |-> pipeline.queued, step |-> "idle", snap |-> pipeline.snap]
      BY <2>1, <2>4 DEF StacksInv
    <3>. QED BY <2>2, <3>1 DEF StacksInv
  <2>. QED BY <2>3, <2>4
<1>5. CASE Deploys
  <2>1. pipeline' = [queued |-> pipeline.queued, step |-> "idle", snap |-> None]
    BY <1>5 DEF Deploys, Finishes, StacksInv
  <2>2. PICK done \in StagesDone :
          /\ deployed' = [s \in Stages |-> IF s \in done THEN pipeline.snap.sets[s] ELSE deployed[s]]
          /\ asked' = [s \in Stages |-> IF s \in done THEN pipeline.snap.asked[s] ELSE asked[s]]
    BY <1>5 DEF Deploys
  <2>3. pipeline.step = "deploy"
    BY <1>5 DEF Deploys, Finishes
  <2>4. \A s \in Stages : SetsOK(deployed'[s]) /\ Fits(deployed'[s], asked'[s])
    BY <2>2, <2>3 DEF StacksInv
  <2>. QED BY <2>1, <2>4 DEF StacksInv
<1>. QED BY <1>1, <1>2, <1>3, <1>4, <1>5
         DEF Next, Request, Release, Open, Apply, PostLists, Puts, RequestDies, Moves, vars, stacks

(* An account of a release is in at most one of a stage's sets, but for one that
   is listed by its unit and by itself. *)
LEMMA OneOfSets ==
  ASSUME NEW s \in Stages, SetsOK(deployed[s]), deployed[s].visible,
         NEW a \in DOMAIN deployed[s].org
  PROVE  Cardinality(Owners(s, a)) <= 1 \/ Owners(s, a) = {"unit", "listed"}
<1>. DEFINE d == deployed[s]
            O == Owners(s, a)
            Few(S) == Cardinality(S) <= 1
<1>1. Few({}) /\ Few({"unit"}) /\ Few({"listed"}) /\ Few({"whole"})
  <2>1. Cardinality({}) = 0
    BY FS_EmptySet
  <2>2. Cardinality({"unit"}) = 1 /\ Cardinality({"listed"}) = 1 /\ Cardinality({"whole"}) = 1
    BY FS_Singleton
  <2>. QED BY <2>1, <2>2
<1>. HIDE DEF Few
<1>2. /\ "self" \in O => SelfManaged(d, a) # {}
      /\ "unit" \in O => ByUnit(d, d.org, a) # {}
      /\ "listed" \in O => Listed(d, a) # {}
      /\ "whole" \in O => WholeOrg(d, d.org, a) # {}
      /\ O \subseteq {"self", "unit", "listed", "whole"}
  BY DEF Owners, RegionsOf, SetKinds
<1>. HIDE DEF O
<1>3. "self" \notin O
  BY <1>2 DEF SetsOK
<1>4. CASE d.whole # None
  <2>1. d.units = NoList /\ d.listed = NoList
    BY <1>4 DEF SetsOK
  <2>2. ByUnit(d, d.org, a) = {} /\ Listed(d, a) = {}
    BY <2>1 DEF ByUnit, Listed, NoList
  <2>3. O = {} \/ O = {"whole"}
    BY <1>2, <1>3, <2>2
  <2>. QED BY <1>1, <2>3 DEF O, Few
<1>5. CASE d.whole = None
  <2>1. WholeOrg(d, d.org, a) = {}
    BY <1>5 DEF WholeOrg
  <2>2. O = {} \/ O = {"unit"} \/ O = {"listed"} \/ O = {"unit", "listed"}
    BY <1>2, <1>3, <2>1
  <2>. QED BY <1>1, <2>2 DEF O, Few
<1>. QED BY <1>4, <1>5

(* In a release that could see the Organization an account of it is owned by one
   StackSet of a stage, but for a pick of both the account and its unit, and by
   none that the stage's operator did not choose it for, as long as requests do
   not overlap. *)
THEOREM OneOwnerHolds == ~Overlap /\ Spec => []OneOwner
<1>. SUFFICES ASSUME ~Overlap PROVE Spec => []OneOwner
  OBVIOUS
<1>1. StacksInv => OneOwner
  <2>. SUFFICES ASSUME StacksInv, NEW s \in Stages, deployed[s].visible,
                       NEW a \in DOMAIN deployed[s].org
                PROVE  /\ Cardinality(Owners(s, a)) <= 1 \/ Owners(s, a) = {"unit", "listed"}
                       /\ \A kind \in Owners(s, a) : Chosen(asked[s], kind, a, deployed[s].org)
    BY DEF OneOwner
  <2>1. Cardinality(Owners(s, a)) <= 1 \/ Owners(s, a) = {"unit", "listed"}
    BY OneOfSets DEF StacksInv
  <2>2. \A kind \in Owners(s, a) : Chosen(asked[s], kind, a, deployed[s].org)
    BY DEF StacksInv, Fits, Owners
  <2>. QED BY <2>1, <2>2
<1>2. Init => FormInv /\ StacksInv
  BY FormInit, StacksInit
<1>3. FormInv /\ StacksInv /\ [Next]_vars => FormInv' /\ StacksInv'
  BY FormStep, StacksStep
<1>. QED BY <1>1, <1>2, <1>3, PTL DEF Spec

(***************************************************************************)
(* Negotiated discounts.                                                   *)
(***************************************************************************)
(* What an account is due, if anything, is its own authored rate if it has one:
   materialiseOrgDiscounts. *)
LEMMA OwnRateWins ==
  ASSUME NEW mine, NEW path, NEW theirs, mine # Absent
  PROVE  Winning(mine, path, theirs) \in {Absent, mine}
BY DEF Winning, Positive

(* An account's row agrees with what is authored, with what an invocation of the
   resolver has read, and with what it has still to write. *)
RowOK(r) == r.authored # Absent => r.effective \in {Absent, r.authored}
JobOK(j, a, authored) ==
  /\ j.pc = "walk"  => j.mine[a] = authored
  /\ j.pc = "write" /\ a \in DOMAIN j.sets /\ authored # Absent => j.sets[a] = authored
DiscountInv ==
  /\ row = [a \in Linked |-> [authored |-> row[a].authored, effective |-> row[a].effective]]
  /\ job = [x \in Jobs |-> job[x]]
  /\ \A a \in Linked \ overtaken :
       RowOK(row[a]) /\ \A x \in Jobs : JobOK(job[x], a, row[a].authored)

(* There is no discount at first. *)
LEMMA DiscountStart == DiscountInit => DiscountInv
BY DEF DiscountInit, DiscountInv, NoDiscount, Resting, RowOK, JobOK

(* A write of an account's own row is seen by every invocation that has read
   nothing yet; the others are overtaken by it. *)
LEMMA OwnWrite ==
  ASSUME DiscountInv, NEW a \in Linked, Overtakes(a), UNCHANGED job,
         NEW authored, row' = [row EXCEPT ![a] = [authored |-> authored, effective |-> Absent]]
  PROVE  DiscountInv'
<1>1. row' = [b \in Linked |-> [authored |-> row'[b].authored, effective |-> row'[b].effective]]
  BY DEF DiscountInv
<1>2. overtaken \subseteq overtaken'
  BY DEF Overtakes
<1>3. ASSUME NEW b \in Linked \ overtaken'
      PROVE  RowOK(row'[b]) /\ \A x \in Jobs : JobOK(job[x], b, row'[b].authored)
  <2>1. CASE b # a
    <3>1. row'[b] = row[b] /\ b \in Linked \ overtaken
      BY <1>2, <2>1 DEF DiscountInv
    <3>. QED BY <3>1 DEF DiscountInv
  <2>2. CASE b = a
    <3>1. \A x \in Jobs : job[x].pc = "idle"
      BY <1>3, <2>2 DEF Overtakes
    <3>2. row'[b] = [authored |-> authored, effective |-> Absent]
      BY <2>2 DEF DiscountInv
    <3>. QED BY <3>1, <3>2 DEF RowOK, JobOK
  <2>. QED BY <2>1, <2>2
<1>. QED BY <1>1, <1>3 DEF DiscountInv

(* An invocation that has only what agrees with the rows may replace its state. *)
LEMMA JobMoves ==
  ASSUME DiscountInv, UNCHANGED <<row, overtaken>>, NEW x \in Jobs, NEW j,
         job' = [job EXCEPT ![x] = j],
         \A a \in Linked \ overtaken : JobOK(j, a, row[a].authored)
  PROVE  DiscountInv'
<1>1. job' = [y \in Jobs |-> IF y = x THEN j ELSE job[y]]
  BY DEF DiscountInv
<1>2. \A a \in Linked \ overtaken, y \in Jobs : JobOK(job'[y], a, row[a].authored)
  BY <1>1 DEF DiscountInv
<1>. QED BY <1>1, <1>2 DEF DiscountInv

(* What an invocation loads is what is authored. *)
LEMMA LoadsKeeps ==
  ASSUME DiscountInv, NEW x \in Jobs, Loads(x)
  PROVE  DiscountInv'
<1>. DEFINE walk == [pc |-> "walk", mine |-> [a \in Linked |-> row[a].authored],
                     theirs |-> policy, had |-> Materialised]
            clear == [pc |-> "write", sets |-> << >>,
                      clears |-> {a \in Linked : Stale(a, {}, Materialised)}]
<1>1. \E j \in {walk, clear, Resting} : job' = [job EXCEPT ![x] = j]
  BY DEF Loads
<1>2. PICK j \in {walk, clear, Resting} : job' = [job EXCEPT ![x] = j]
  BY <1>1
<1>3. \A a \in Linked \ overtaken : JobOK(j, a, row[a].authored)
  <2>1. \A a \in Linked : JobOK(walk, a, row[a].authored)
    BY DEF JobOK
  <2>2. \A a \in Linked : JobOK(clear, a, row[a].authored)
    BY DEF JobOK
  <2>3. \A a \in Linked : JobOK(Resting, a, row[a].authored)
    BY DEF JobOK, Resting
  <2>. QED BY <2>1, <2>2, <2>3
<1>4. UNCHANGED <<row, overtaken>>
  BY DEF Loads
<1>. HIDE DEF walk, clear
<1>. QED BY <1>2, <1>3, <1>4, JobMoves

(* What it works out is due from what it loaded. *)
LEMMA WalksKeeps ==
  ASSUME DiscountInv, NEW x \in Jobs, Walks(x)
  PROVE  DiscountInv'
<1>. DEFINE due == [a \in {b \in Linked : place[b] # Absent} |->
                      Winning(job[x].mine[a], place[a], job[x].theirs)]
            sets == {a \in DOMAIN due : due[a] # Absent}
            j == [pc |-> "write", sets |-> [a \in sets |-> due[a]],
                  clears |-> {a \in Linked : Stale(a, sets, job[x].had)}]
<1>1. job' = [job EXCEPT ![x] = j] /\ UNCHANGED <<row, overtaken>> /\ job[x].pc = "walk"
  BY DEF Walks
<1>2. ASSUME NEW a \in Linked \ overtaken, a \in sets, row[a].authored # Absent
      PROVE  due[a] = row[a].authored
  <2>1. job[x].mine[a] = row[a].authored
    BY <1>1 DEF DiscountInv, JobOK
  <2>2. due[a] = Winning(job[x].mine[a], place[a], job[x].theirs) /\ due[a] # Absent
    BY <1>2
  <2>. QED BY <1>2, <2>1, <2>2, OwnRateWins
<1>3. \A a \in Linked \ overtaken : JobOK(j, a, row[a].authored)
  <2>. HIDE DEF due, sets
  <2>. QED BY <1>2 DEF JobOK
<1>. HIDE DEF j
<1>. QED BY <1>1, <1>3, JobMoves

(* A write of the resolver. *)
LEMMA WritesKeep ==
  ASSUME DiscountInv, NEW x \in Jobs, NEW a \in Linked, NEW pct, NEW sets, NEW clears,
         job[x].pc = "write", Rest(x, sets, clears), UNCHANGED overtaken,
         \A b \in DOMAIN sets : b \in DOMAIN job[x].sets /\ sets[b] = job[x].sets[b],
         \/ UNCHANGED row
         \/ row' = [row EXCEPT ![a].effective = pct],
         pct = Absent \/ (a \in DOMAIN job[x].sets /\ pct = job[x].sets[a])
  PROVE  DiscountInv'
<1>. DEFINE j == IF DOMAIN sets = {} /\ clears = {} THEN Resting
                 ELSE [pc |-> "write", sets |-> sets, clears |-> clears]
<1>1. job' = [y \in Jobs |-> IF y = x THEN j ELSE job[y]]
  BY DEF DiscountInv, Rest
<1>2. /\ row' = [b \in Linked |-> [authored |-> row'[b].authored, effective |-> row'[b].effective]]
      /\ \A b \in Linked : row'[b].authored = row[b].authored
      /\ \A b \in Linked : row'[b].effective = row[b].effective \/ (b = a /\ row'[b].effective = pct)
  <2>1. CASE UNCHANGED row
    BY <2>1 DEF DiscountInv
  <2>2. CASE row' = [row EXCEPT ![a].effective = pct]
    <3>1. row' = [b \in Linked |-> [authored |-> row[b].authored,
                                    effective |-> IF b = a THEN pct ELSE row[b].effective]]
      BY <2>2 DEF DiscountInv
    <3>. QED BY <3>1
  <2>. QED BY <2>1, <2>2
<1>3. ASSUME NEW b \in Linked \ overtaken
      PROVE  RowOK(row'[b]) /\ \A y \in Jobs : JobOK(job'[y], b, row'[b].authored)
  <2>1. RowOK(row[b]) /\ \A y \in Jobs : JobOK(job[y], b, row[b].authored)
    BY DEF DiscountInv
  <2>2. RowOK(row'[b])
    BY <1>2, <2>1 DEF RowOK, JobOK
  <2>3. JobOK(j, b, row[b].authored)
    BY <2>1 DEF JobOK, Resting
  <2>. QED BY <1>1, <1>2, <2>1, <2>2, <2>3
<1>4. job' = [y \in Jobs |-> job'[y]]
  BY <1>1
<1>. QED BY <1>2, <1>3, <1>4 DEF DiscountInv

(* Every step keeps what a row says and what is worked out for it. *)
LEMMA DiscountStep ==
  ASSUME DiscountInv, [DiscountNext]_discountVars
  PROVE  DiscountInv'
<1>1. CASE UNCHANGED <<row, job, overtaken>>
  BY <1>1 DEF DiscountInv
<1>2. ASSUME NEW a \in Linked, NEW pct \in Percents, PostAccount(a, pct) PROVE DiscountInv'
  <2>1. Overtakes(a) /\ UNCHANGED job /\ row' = Authored(a, pct)
    BY <1>2 DEF PostAccount
  <2>2. [NoDiscount EXCEPT !.authored = pct] = [authored |-> pct, effective |-> Absent]
    BY DEF NoDiscount
  <2>3. row' = [row EXCEPT ![a] = [authored |-> pct, effective |-> Absent]]
    BY <2>1, <2>2 DEF Authored
  <2>. QED BY <2>1, <2>3, OwnWrite
<1>3. ASSUME NEW a \in Linked, DeleteAccount(a) PROVE DiscountInv'
  BY <1>3, OwnWrite DEF DeleteAccount, NoDiscount
<1>4. ASSUME NEW x \in Jobs, Degrades(x) \/ Ends(x) PROVE DiscountInv'
  <2>1. job' = [job EXCEPT ![x] = Resting] /\ UNCHANGED <<row, overtaken>>
    BY <1>4 DEF Degrades, Ends
  <2>2. \A a \in Linked : JobOK(Resting, a, row[a].authored)
    BY DEF JobOK, Resting
  <2>. QED BY <2>1, <2>2, JobMoves
<1>5. ASSUME NEW x \in Jobs, NEW a \in Linked, Materialises(x, a) PROVE DiscountInv'
  <2>1. /\ job[x].pc = "write" /\ a \in DOMAIN job[x].sets /\ UNCHANGED overtaken
        /\ Rest(x, Without(job[x].sets, {a}), job[x].clears)
        /\ UNCHANGED row \/ row' = [row EXCEPT ![a].effective = job[x].sets[a]]
    BY <1>5 DEF Materialises
  <2>2. \A b \in DOMAIN Without(job[x].sets, {a}) :
          b \in DOMAIN job[x].sets /\ Without(job[x].sets, {a})[b] = job[x].sets[b]
    BY DEF Without
  <2>. QED BY <2>1, <2>2, WritesKeep
<1>6. ASSUME NEW x \in Jobs, NEW a \in Linked, Clears(x, a) PROVE DiscountInv'
  <2>1. /\ job[x].pc = "write" /\ UNCHANGED overtaken
        /\ Rest(x, job[x].sets, job[x].clears \ {a})
        /\ UNCHANGED row \/ row' = [row EXCEPT ![a].effective = Absent]
    BY <1>6 DEF Clears
  <2>. QED BY <2>1, WritesKeep
<1>7. CASE Operator
  <2>1. ASSUME NEW s \in OrgUnits \union {Org}, NEW pct \in Percents, PostScope(s, pct)
        PROVE  DiscountInv'
    BY <1>1, <2>1 DEF PostScope
  <2>2. ASSUME NEW s \in OrgUnits \union {Org}, DeleteScope(s) PROVE DiscountInv'
    BY <1>1, <2>2 DEF DeleteScope
  <2>. QED BY <1>2, <1>3, <1>7, <2>1, <2>2 DEF Operator
<1>8. ASSUME NEW x \in Jobs, Resolver(x) PROVE DiscountInv'
  BY <1>4, <1>5, <1>6, <1>8, LoadsKeeps, WalksKeeps DEF Resolver
<1>9. ASSUME NEW a \in Linked, MeterLooksUp(a) \/ CacheExpires(a) PROVE DiscountInv'
  BY <1>1, <1>9 DEF MeterLooksUp, CacheExpires
<1>10. ASSUME NEW a \in Linked, NEW path \in Paths \union {Absent}, Relocates(a, path)
       PROVE  DiscountInv'
  BY <1>1, <1>10 DEF Relocates
<1>11. CASE UNCHANGED discountVars
  BY <1>1, <1>11 DEF discountVars
<1>. QED BY <1>7, <1>8, <1>9, <1>10, <1>11 DEF DiscountNext

(* The rate an operator authors for an account, an exclusion included, is the one
   it is charged by at once and for good, however many invocations of the resolver
   overlap or fail, unless the edit overtook one that had read the policies. *)
THEOREM AuthoredHoldsAlways == DiscountSpec => []AuthoredHolds
<1>1. DiscountInv => AuthoredHolds
  BY DEF DiscountInv, RowOK, AuthoredHolds, Rate
<1>2. DiscountInit => DiscountInv
  BY DiscountStart
<1>3. DiscountInv /\ [DiscountNext]_discountVars => DiscountInv'
  BY DiscountStep
<1>. QED BY <1>1, <1>2, <1>3, PTL DEF DiscountSpec

(***************************************************************************)
(* The rates of models.                                                    *)
(***************************************************************************)
PriceParts(m) ==
  saved[m] # NoRates =>
    /\ prices[m].source = "override" /\ prices[m].top["short"] = saved[m]
    /\ \A g \in RegionSet : prices[m].region[g]["short"] = NoRates
    /\ IsFcn(saved[m])
FormParts(f) ==
  f.pc # "closed" =>
    /\ f = [pc |-> f.pc, model |-> f.model, old |-> f.old, rates |-> f.rates]
    /\ IsFcn(f.rates)
(* What an operator saved is all a row has for short regional requests, and the
   editors hold whole sets of rates. *)
SavedInv ==
  /\ prices = [m \in Models |-> prices[m]] /\ saved = [m \in Models |-> saved[m]]
  /\ form = [o \in Forms |-> form[o]]
  /\ \A m \in Models : PriceParts(m)
  /\ \A o \in Forms : FormParts(form[o])

(* A row without regional rates charges what is at its top. *)
LEMMA TopAlone ==
  ASSUME NEW r, NEW g \in RegionSet, r # NoRow, r.region[g]["short"] = NoRates,
         IsFcn(r.top["short"])
  PROVE  RatesFor(r, g, "regional", "short") = r.top["short"]
<1>. DEFINE bottom == Over(NoRates, NoRates)
<1>1. DOMAIN bottom = {}
  BY DEF Over, NoRates
<1>2. RatesFor(r, g, "regional", "short") = Over(bottom, r.top["short"])
  BY DEF RatesFor
<1>. HIDE DEF bottom
<1>3. Over(bottom, r.top["short"]) = r.top["short"]
  BY <1>1 DEF Over, IsFcn
<1>. QED BY <1>2, <1>3

(* No override is saved at first. *)
LEMMA SavedStart == PriceInit => SavedInv
BY DEF PriceInit, SavedInv, PriceParts, FormParts, NoForm

(* A run of the refresher leaves the row of an override. *)
LEMMA WritesSpare ==
  ASSUME SavedInv, Writes
  PROVE  SavedInv'
<1>1. prices' = [m \in Models |-> IF m = run.model /\ Writable(run.model)
                                  THEN CatalogRow(run.got, day) ELSE prices[m]]
  BY DEF Writes, SavedInv
<1>2. UNCHANGED <<saved, form>>
  BY DEF Writes
<1>3. ASSUME NEW m \in Models PROVE PriceParts(m)'
  <2>1. CASE saved[m] = NoRates
    BY <1>2, <2>1 DEF PriceParts
  <2>2. CASE saved[m] # NoRates
    <3>1. prices[m].source = "override" /\ prices[m] # NoRow
      BY <2>2 DEF SavedInv, PriceParts, NoRow
    <3>2. prices'[m] = prices[m]
      BY <1>1, <3>1 DEF Writable
    <3>. QED BY <1>2, <3>2 DEF SavedInv, PriceParts
  <2>. QED BY <2>1, <2>2
<1>4. prices' = [m \in Models |-> prices'[m]]
  BY <1>1
<1>. QED BY <1>2, <1>3, <1>4 DEF SavedInv

(* A save writes the override it records. *)
LEMMA SaveKeeps ==
  ASSUME SavedInv, NEW o \in Forms, SaveWrites(o)
  PROVE  SavedInv'
<1>. DEFINE n == form[o].model
            new == OverrideRow(form[o].old, form[o].rates, day)
<1>1. /\ prices' = [m \in Models |-> IF m = n THEN new ELSE prices[m]]
      /\ saved' = [m \in Models |-> IF m = n THEN form[o].rates ELSE saved[m]]
      /\ form' = [p \in Forms |-> IF p = o THEN NoForm ELSE form[p]]
  BY DEF SaveWrites, SavedInv
<1>2. IsFcn(form[o].rates)
  BY DEF SaveWrites, SavedInv, FormParts
<1>3. /\ new.source = "override" /\ new.top["short"] = form[o].rates
      /\ \A g \in RegionSet : new.region[g]["short"] = NoRates
  BY DEF OverrideRow, NoRegions, Contexts
<1>. HIDE DEF new
<1>4. \A m \in Models : PriceParts(m)'
  BY <1>1, <1>2, <1>3 DEF SavedInv, PriceParts
<1>5. \A p \in Forms : FormParts(form'[p])
  BY <1>1 DEF SavedInv, FormParts, NoForm
<1>6. /\ prices' = [m \in Models |-> prices'[m]] /\ saved' = [m \in Models |-> saved'[m]]
      /\ form' = [p \in Forms |-> form'[p]]
  BY <1>1
<1>. QED BY <1>4, <1>5, <1>6 DEF SavedInv

(* An editor that takes on another state with a whole set of rates. *)
LEMMA EditorMoves ==
  ASSUME SavedInv, NEW o \in Forms, NEW f, FormParts(f), form' = [form EXCEPT ![o] = f],
         UNCHANGED table
  PROVE  SavedInv'
<1>1. form' = [p \in Forms |-> IF p = o THEN f ELSE form[p]]
  BY DEF SavedInv
<1>2. UNCHANGED <<prices, saved>>
  BY DEF table
<1>3. \A p \in Forms : FormParts(form'[p])
  BY <1>1 DEF SavedInv
<1>4. form' = [p \in Forms |-> form'[p]]
  BY <1>1
<1>. QED BY <1>2, <1>3, <1>4 DEF SavedInv, PriceParts

(* Every step keeps saved overrides in their rows. *)
LEMMA SavedStep ==
  ASSUME SavedInv, [PriceNext]_priceVars
  PROVE  SavedInv'
<1>1. CASE UNCHANGED <<prices, saved, form>>
  BY <1>1 DEF SavedInv, PriceParts
<1>2. CASE Starts \/ Reports \/ OutOfTime \/ Dies \/ NextDay \/ UNCHANGED priceVars
  BY <1>1, <1>2 DEF Starts, Reports, OutOfTime, Dies, NextDay, table, priceVars
<1>3. ASSUME NEW m \in Models, Resolves(m) \/ ResolvesByName(m) PROVE SavedInv'
  BY <1>1, <1>3 DEF Resolves, ResolvesByName, table
<1>4. ASSUME NEW s \in Changing, Publishes(s) PROVE SavedInv'
  BY <1>1, <1>4 DEF Publishes, table
<1>5. ASSUME NEW o \in Forms, NEW m \in Models, OpensEditor(o, m) PROVE SavedInv'
  <2>1. PICK entered \in NewRates :
          form' = [form EXCEPT ![o] =
            [pc |-> "open", model |-> m, old |-> NoRow,
             rates |-> Over(entered, IF prices[m] = NoRow THEN NoRates
                                     ELSE prices[m].top["short"])]]
    BY <1>5 DEF OpensEditor
  <2>2. \A f, g : IsFcn(Over(f, g))
    BY DEF Over, IsFcn
  <2>3. UNCHANGED table
    BY <1>5 DEF OpensEditor
  <2>. DEFINE f == [pc |-> "open", model |-> m, old |-> NoRow,
                    rates |-> Over(entered, IF prices[m] = NoRow THEN NoRates
                                            ELSE prices[m].top["short"])]
  <2>4. FormParts(f)
    BY <2>2 DEF FormParts
  <2>. HIDE DEF f
  <2>. QED BY <2>1, <2>3, <2>4, EditorMoves DEF f
<1>6. ASSUME NEW o \in Forms, SaveReads(o) PROVE SavedInv'
  <2>. DEFINE f == [form[o] EXCEPT !.pc = "save", !.old = prices[form[o].model]]
  <2>1. form' = [form EXCEPT ![o] = f] /\ UNCHANGED table
    BY <1>6 DEF SaveReads
  <2>2. PICK a, b, c, rates : form[o] = [pc |-> a, model |-> b, old |-> c, rates |-> rates]
    BY <1>6 DEF SaveReads, SavedInv, FormParts
  <2>3. f = [pc |-> "save", model |-> b, old |-> prices[b], rates |-> rates]
    <3>1. form[o].model = b
      BY <2>2
    <3>2. f = [[pc |-> a, model |-> b, old |-> c, rates |-> rates]
                 EXCEPT !.pc = "save", !.old = prices[b]]
      BY <2>2, <3>1
    <3>. HIDE DEF f
    <3>. QED BY <3>2
  <2>4. IsFcn(rates)
    <3>1. IsFcn(form[o].rates)
      BY <1>6 DEF SaveReads, SavedInv, FormParts
    <3>. QED BY <2>2, <3>1
  <2>. HIDE DEF f
  <2>5. FormParts(f)
    BY <2>3, <2>4 DEF FormParts
  <2>. QED BY <2>1, <2>5, EditorMoves
<1>7. ASSUME NEW m \in Models, Deletes(m) PROVE SavedInv'
  <2>1. /\ prices' = [n \in Models |-> IF n = m THEN NoRow ELSE prices[n]]
        /\ saved' = [n \in Models |-> IF n = m THEN NoRates ELSE saved[n]]
        /\ UNCHANGED form
    BY <1>7 DEF Deletes, SavedInv
  <2>2. \A n \in Models : PriceParts(n)'
    BY <2>1 DEF SavedInv, PriceParts
  <2>3. prices' = [n \in Models |-> prices'[n]] /\ saved' = [n \in Models |-> saved'[n]]
    BY <2>1
  <2>. QED BY <2>1, <2>2, <2>3 DEF SavedInv
<1>8. CASE Refresher
  BY <1>2, <1>3, <1>8, WritesSpare DEF Refresher
<1>. QED BY <1>2, <1>4, <1>5, <1>6, <1>7, <1>8, SaveKeeps DEF PriceNext

(* The rates an operator saves are the ones short regional requests are charged by,
   in every region and on every dimension, until an operator changes them: neither a
   refresh under way when they were saved nor a later one brings a catalog rate back. *)
THEOREM OverrideStandsAlways == PriceSpec => []OverrideStands
<1>1. SavedInv => OverrideStands
  <2>1. SUFFICES ASSUME SavedInv, NEW m \in Models, saved[m] # NoRates, NEW g \in RegionSet
                 PROVE  RatesFor(prices[m], g, "regional", "short") = saved[m]
    BY DEF OverrideStands
  <2>2. prices[m] # NoRow
    BY <2>1 DEF SavedInv, PriceParts, NoRow
  <2>3. /\ prices[m].top["short"] = saved[m] /\ prices[m].region[g]["short"] = NoRates
        /\ IsFcn(prices[m].top["short"])
    BY <2>1 DEF SavedInv, PriceParts
  <2>. QED BY <2>2, <2>3, TopAlone
<1>2. PriceInit => SavedInv
  BY SavedStart
<1>3. SavedInv /\ [PriceNext]_priceVars => SavedInv'
  BY SavedStep
<1>. QED BY <1>1, <1>2, <1>3, PTL DEF PriceSpec

(* A set of integers with a bound above has a greatest element. *)
Below(S, b) == \A x \in S : x \in Int /\ x <= b
(* No element of such a set is after its oldest. *)
LEMMA OldestIs ==
  ASSUME NEW S, NEW b \in Int, Below(S, b)
  PROVE  \A x \in S : x <= Oldest(S)
<1>. SUFFICES ASSUME NEW x0 \in S PROVE x0 <= Oldest(S)
  OBVIOUS
<1>. DEFINE R == OpToRel(<, Nat)
            T == {b - x : x \in S}
<1>0. \A x \in S : b - x \in Nat
  BY DEF Below
<1>1. T \subseteq Nat /\ T # {}
  BY <1>0
<1>2. IsWellFoundedOn(R, Nat)
  BY NatLessThanWellFounded
<1>3. PICK t \in T : \A y \in T : ~ (<<y, t>> \in R)
  <2>. HIDE DEF R, T
  <2>. QED BY <1>1, <1>2, WFMin
<1>4. \A y \in T : ~ (y < t)
  BY <1>1, <1>3 DEF OpToRel
<1>5. PICK x \in S : t = b - x
  BY <1>3
<1>6. ASSUME NEW y \in S PROVE y <= x
  <2>1. ~ (b - y < b - x)
    BY <1>4, <1>5
  <2>2. x \in Int /\ y \in Int
    BY DEF Below
  <2>. QED BY <2>1, <2>2
<1>7. Oldest(S) = CHOOSE d \in S : \A e \in S : e <= d
  BY DEF Oldest
<1>. QED BY <1>5, <1>6, <1>7

(* The ages of a row are bounded: a row is refreshed on a day that has come, and
   verified then, on the day of the review, or never. *)
Earliest == IF ReviewedOn < 0 THEN ReviewedOn - 1 ELSE -1
Dated(r) ==
  r # NoRow =>
    /\ r.at \in Nat /\ r.verified \in Int /\ Earliest <= r.verified
    /\ r.source \in {"override", "aws-website", "pricing-api"}

RunFields == {"pc", "todo", "byId", "named", "missed", "files", "gaps", "incomplete",
              "since", "model", "got"}
IsRun(r) == r = [f \in RunFields |-> r[f]]
Dealt(r, m) ==
  \/ m \in r.todo \union r.named \union r.gaps \union r.missed
  \/ r.pc = "write" /\ r.model = m
Fresh(p, since) == p = NoRow \/ p.source = "override" \/ p.at >= since
(* A run has every model a region lists before it or behind it, with its row up to
   date, unless it knows that it is incomplete. *)
RunOK(r) ==
  r.pc # "idle" =>
    /\ IsRun(r) /\ r.byId \subseteq Models /\ r.since \in Nat /\ r.since <= day
    /\ ~r.incomplete =>
         /\ Live \subseteq r.byId \union Static
         /\ \A m \in Live : Dealt(r, m) \/ Fresh(prices[m], r.since)
CoverInv ==
  /\ day \in Nat /\ prices = [m \in Models |-> prices[m]]
  /\ \A m \in Models : Dated(prices[m])
  /\ RunOK(run)

(* The models of the catalogue are models. *)
LEMMA LiveModels == Live \subseteq Models
BY RefreshAssumption DEF Live

(* There is no run and no price at first. *)
LEMMA CoverStart == PriceInit => CoverInv
BY DEF PriceInit, CoverInv, Dated, NoRow, RunOK, Asleep

(* What an invocation finds out changes only the run; it stays sound when every
   model it had before it is still before it or behind it. *)
LEMMA RunMoves ==
  ASSUME CoverInv, UNCHANGED <<prices, day>>, RunOK(run')
  PROVE  CoverInv'
BY DEF CoverInv, RunOK

(* A run starts with every listed model before it. *)
LEMMA StartCovers ==
  ASSUME CoverInv, Starts
  PROVE  CoverInv'
<1>1. PICK unlisted \in SUBSET RegionSet, lost \in SUBSET RegionSet :
        run' = [pc |-> "walk", todo |-> UNION {ListedIn[g] : g \in RegionSet \ unlisted},
                byId |-> UNION {ListedIn[g] : g \in RegionSet \ unlisted},
                named |-> Static \ UNION {ListedIn[g] : g \in RegionSet \ unlisted},
                missed |-> {}, files |-> Downloaded(lost),
                gaps |-> {}, incomplete |-> unlisted # {}, since |-> day,
                model |-> "none", got |-> NoRates]
  BY DEF Starts
<1>. DEFINE listed == UNION {ListedIn[g] : g \in RegionSet \ unlisted}
<1>2. unlisted = {} => Live \subseteq listed \union Static
  BY DEF Live
<1>. HIDE DEF listed
<1>3. /\ run'.todo = listed /\ run'.byId = listed /\ run'.named = Static \ listed
      /\ run'.since = day /\ (~run'.incomplete => unlisted = {})
  BY <1>1 DEF listed
<1>4. listed \subseteq Models
  BY RefreshAssumption DEF listed
<1>5. IsRun(run')
  BY <1>1 DEF IsRun, RunFields
<1>6. ASSUME NEW m \in Live, ~run'.incomplete PROVE Dealt(run', m)
  BY <1>2, <1>3, <1>6 DEF Dealt
<1>7. day \in Nat /\ day <= day
  BY DEF CoverInv
<1>8. RunOK(run')
  BY <1>2, <1>3, <1>5, <1>7, <1>4, <1>6 DEF RunOK
<1>. QED BY <1>8, RunMoves DEF Starts, table

(* A model that is resolved is the one to be written. *)
LEMMA ResolveCovers ==
  ASSUME CoverInv, NEW m \in Models, Resolves(m) \/ ResolvesByName(m)
  PROVE  CoverInv'
<1>1. run.pc = "walk" /\ IsRun(run)
  BY DEF Resolves, ResolvesByName, CoverInv, RunOK
<1>2. \E got :
        \/ run' = [run EXCEPT !.pc = "write", !.todo = @ \ {m}, !.model = m, !.got = got]
        \/ run' = [run EXCEPT !.todo = @ \ {m}, !.gaps = @ \union {m}]
        \/ run' = [run EXCEPT !.pc = "write", !.named = @ \ {m}, !.model = m, !.got = got]
        \/ run' = [run EXCEPT !.named = @ \ {m}, !.missed = @ \union {m}]
  BY DEF Resolves, ResolvesByName
<1>. DEFINE Handed == /\ IsRun(run') /\ run'.since = run.since
                      /\ run'.incomplete = run.incomplete /\ run'.byId = run.byId
                      /\ run.gaps \subseteq run'.gaps /\ run.missed \subseteq run'.missed
                      /\ run.todo \ {m} \subseteq run'.todo
                      /\ run.named \ {m} \subseteq run'.named
                      /\ \/ run'.pc = "write" /\ run'.model = m
                         \/ m \in run'.gaps \union run'.missed
<1>3. Handed
  <2>1. ASSUME NEW got,
               run' = [run EXCEPT !.pc = "write", !.todo = @ \ {m}, !.model = m, !.got = got]
        PROVE  Handed
    BY <1>1, <2>1 DEF IsRun, RunFields
  <2>2. CASE run' = [run EXCEPT !.todo = @ \ {m}, !.gaps = @ \union {m}]
    BY <1>1, <2>2 DEF IsRun, RunFields
  <2>3. ASSUME NEW got,
               run' = [run EXCEPT !.pc = "write", !.named = @ \ {m}, !.model = m, !.got = got]
        PROVE  Handed
    BY <1>1, <2>3 DEF IsRun, RunFields
  <2>4. CASE run' = [run EXCEPT !.named = @ \ {m}, !.missed = @ \union {m}]
    BY <1>1, <2>4 DEF IsRun, RunFields
  <2>. HIDE DEF Handed
  <2>. QED BY <1>2, <2>1, <2>2, <2>3, <2>4
<1>4. \A n : Dealt(run, n) => Dealt(run', n)
  BY <1>1, <1>3 DEF Dealt
<1>5. RunOK(run')
  BY <1>1, <1>3, <1>4 DEF RunOK, CoverInv
<1>6. UNCHANGED <<prices, day>>
  BY DEF Resolves, ResolvesByName, table
<1>. QED BY <1>5, <1>6, RunMoves

(* A row of the catalogue is of the day it is written. *)
LEMMA CatalogDated ==
  ASSUME NEW resolved, NEW today \in Nat
  PROVE  /\ Dated(CatalogRow(resolved, today)) /\ CatalogRow(resolved, today).at = today
         /\ CatalogRow(resolved, today) # NoRow
<1>1. ReviewedOn \in Int
  BY PriceAssumption
<1>2. CatalogRow(resolved, today).at = today
  BY DEF CatalogRow
<1>3. CatalogRow(resolved, today).source \in {"aws-website", "pricing-api"}
  BY DEF CatalogRow
<1>4. CatalogRow(resolved, today).verified \in {ReviewedOn, -1}
  BY DEF CatalogRow
<1>. QED BY <1>1, <1>2, <1>3, <1>4 DEF Dated, NoRow, Earliest

(* A write leaves the model behind the run, with a row as new as the run's. *)
LEMMA WriteCovers ==
  ASSUME CoverInv, Writes
  PROVE  CoverInv'
<1>. DEFINE new == CatalogRow(run.got, day)
<1>1. prices' = [m \in Models |-> IF m = run.model /\ Writable(run.model)
                                  THEN new ELSE prices[m]]
  BY DEF Writes, CoverInv
<1>2. Dated(new) /\ new.at = day
  BY CatalogDated DEF CoverInv
<1>. HIDE DEF new
<1>3. run.pc = "write" /\ IsRun(run) /\ day' = day /\ day \in Nat
  BY DEF Writes, CoverInv, RunOK
<1>4. /\ IsRun(run') /\ run'.since = run.since /\ run'.incomplete = run.incomplete
      /\ run'.byId = run.byId /\ run'.todo = run.todo /\ run'.named = run.named
      /\ run'.gaps = run.gaps /\ run'.missed = run.missed
  BY <1>3 DEF Writes, Resumed, IsRun, RunFields
<1>5. ASSUME NEW m \in Live, Dealt(run, m) \/ Fresh(prices[m], run.since),
             run.since \in Nat, run.since <= day
      PROVE  Dealt(run', m) \/ Fresh(prices'[m], run.since)
  <2>1. m \in Models
    BY LiveModels
  <2>2. CASE m = run.model
    <3>1. prices'[m] = new \/ prices'[m].source = "override"
      BY <1>1, <2>1, <2>2 DEF Writable
    <3>. QED BY <1>2, <1>3, <1>5, <3>1 DEF Fresh
  <2>3. CASE m # run.model
    BY <1>1, <1>4, <1>5, <2>1, <2>3 DEF Dealt
  <2>. QED BY <2>2, <2>3
<1>6. RunOK(run)
  BY DEF CoverInv
<1>7. RunOK(run)'
  BY <1>3, <1>4, <1>5, <1>6 DEF RunOK
<1>8. \A m \in Models : Dated(prices'[m])
  BY <1>1, <1>2 DEF CoverInv
<1>9. prices' = [m \in Models |-> prices'[m]]
  BY <1>1
<1>. QED BY <1>3, <1>7, <1>8, <1>9 DEF CoverInv

(* A row an operator writes or takes away. *)
LEMMA OperatorCovers ==
  ASSUME CoverInv, NEW n, NEW r, UNCHANGED <<day, run>>, prices' = [prices EXCEPT ![n] = r],
         Dated(r), r = NoRow \/ r.source = "override"
  PROVE  CoverInv'
<1>1. prices' = [m \in Models |-> IF m = n THEN r ELSE prices[m]]
  BY DEF CoverInv
<1>2. ASSUME NEW m \in Live, NEW since, Fresh(prices[m], since) PROVE Fresh(prices'[m], since)
  BY <1>1, <1>2, LiveModels DEF Fresh
<1>3. RunOK(run)'
  BY <1>2 DEF CoverInv, RunOK
<1>4. \A m \in Models : Dated(prices'[m])
  BY <1>1 DEF CoverInv
<1>5. prices' = [m \in Models |-> prices'[m]]
  BY <1>1
<1>. QED BY <1>3, <1>4, <1>5 DEF CoverInv

(* Every step keeps what a run has covered. *)
LEMMA CoverStep ==
  ASSUME CoverInv, [PriceNext]_priceVars
  PROVE  CoverInv'
<1>1. CASE UNCHANGED <<prices, day, run>>
  BY <1>1 DEF CoverInv, RunOK
<1>2. CASE Reports \/ Dies
  <2>1. RunOK(run')
    BY <1>2 DEF Reports, Dies, Asleep, RunOK
  <2>. QED BY <1>2, <2>1, RunMoves DEF Reports, Dies, table
<1>3. CASE OutOfTime
  <2>1. run.pc = "walk" /\ IsRun(run) /\ run.since \in Nat /\ run.since <= day
        /\ run.byId \subseteq Models
    BY <1>3 DEF OutOfTime, CoverInv, RunOK
  <2>2. IsRun(run') /\ run'.incomplete /\ run'.since = run.since /\ run'.byId = run.byId
    BY <1>3, <2>1 DEF OutOfTime, Truncated, IsRun, RunFields
  <2>3. RunOK(run')
    BY <2>1, <2>2 DEF RunOK
  <2>. QED BY <1>3, <2>3, RunMoves DEF OutOfTime, table
<1>4. CASE NextDay
  BY <1>4 DEF NextDay, table, CoverInv, RunOK
<1>5. ASSUME NEW s \in Changing, Publishes(s) PROVE CoverInv'
  BY <1>1, <1>5 DEF Publishes, table
<1>6. ASSUME NEW o \in Forms, NEW m \in Models, OpensEditor(o, m) PROVE CoverInv'
  BY <1>1, <1>6 DEF OpensEditor, table
<1>7. ASSUME NEW o \in Forms, SaveReads(o) PROVE CoverInv'
  BY <1>1, <1>7 DEF SaveReads, table
<1>8. ASSUME NEW o \in Forms, SaveWrites(o) PROVE CoverInv'
  <2>. DEFINE r == OverrideRow(form[o].old, form[o].rates, day)
  <2>1. r.source = "override" /\ r.at = day /\ r.verified = day
    BY DEF OverrideRow
  <2>2. prices' = [prices EXCEPT ![form[o].model] = r] /\ UNCHANGED <<day, run>> /\ day \in Nat
    BY <1>8 DEF SaveWrites, CoverInv
  <2>. HIDE DEF r
  <2>3. Earliest <= 0
    BY PriceAssumption DEF Earliest
  <2>4. Earliest \in Int
    BY PriceAssumption DEF Earliest
  <2>5. Dated(r)
    BY <2>1, <2>2, <2>3, <2>4 DEF Dated
  <2>. QED BY <2>1, <2>2, <2>5, OperatorCovers
<1>9. ASSUME NEW m \in Models, Deletes(m) PROVE CoverInv'
  <2>1. Dated(NoRow)
    BY DEF Dated
  <2>. QED BY <1>9, <2>1, OperatorCovers DEF Deletes
<1>10. CASE Refresher
  BY <1>2, <1>10, StartCovers, WriteCovers, ResolveCovers DEF Refresher
<1>11. CASE UNCHANGED priceVars
  BY <1>1, <1>11 DEF priceVars
<1>. QED BY <1>2, <1>3, <1>4, <1>5, <1>6, <1>7, <1>8, <1>9, <1>10, <1>11 DEF PriceNext

(* What a run reports covers the row of every live model. *)
LEMMA ReportCovers ==
  ASSUME CoverInv, Reports, ~report'.incomplete, NEW m \in Live, prices[m] # NoRow
  PROVE  IF prices[m].source = "override"
         THEN day - prices[m].verified <= report'.fallback
         ELSE /\ prices[m].at >= run.since \/ m \in report'.gaps \union run.missed
              /\ day - prices[m].at <= report'.age
<1>. DEFINE counted == {n \in run.byId \union Static : prices[n] # NoRow}
            ages == {day - prices[n].at : n \in {l \in counted : prices[l].source # "override"}}
            reviews == {day - prices[n].verified : n \in {l \in counted : Reviews(l)}}
<1>1. /\ run.pc = "walk" /\ run.todo = {} /\ run.named = {}
      /\ report'.age = Oldest(ages) /\ report'.fallback = Oldest(reviews)
      /\ report'.gaps = run.gaps /\ report'.incomplete = run.incomplete
  BY DEF Reports
<1>2. m \in Models /\ m \in counted /\ day \in Nat /\ Earliest \in Int
  BY <1>1, LiveModels, PriceAssumption DEF CoverInv, RunOK, Earliest
<1>3. \A n \in counted : n \in Models /\ prices[n] # NoRow
  BY <1>1, RefreshAssumption DEF CoverInv, RunOK
<1>. HIDE DEF counted
<1>4. Below(ages, day)
  BY <1>2, <1>3 DEF Below, CoverInv, Dated
<1>5. Below(reviews, day - Earliest) /\ day - Earliest \in Int
  BY <1>2, <1>3 DEF Below, CoverInv, Dated
<1>6. CASE prices[m].source = "override"
  <2>1. day - prices[m].verified \in reviews
    BY <1>2, <1>6 DEF Reviews
  <2>. HIDE DEF reviews
  <2>. QED BY <1>1, <1>5, <1>6, <2>1, OldestIs
<1>7. CASE prices[m].source # "override"
  <2>1. day - prices[m].at \in ages
    BY <1>2, <1>7
  <2>2. Dealt(run, m) \/ Fresh(prices[m], run.since)
    BY <1>1 DEF CoverInv, RunOK
  <2>3. prices[m].at >= run.since \/ m \in report'.gaps \union run.missed
    BY <1>1, <1>7, <2>2 DEF Dealt, Fresh
  <2>. HIDE DEF ages
  <2>. QED BY <1>1, <1>2, <1>4, <1>7, <2>1, <2>3, OldestIs
<1>. QED BY <1>6, <1>7

(* A run that does not report itself incomplete has dealt with every model a region
   lists, and none of them is charged by a price older than the two ages the run
   reports: the age and the fallback gauge of pricing-refresher. *)
THEOREM ReportsCoverLiveAlways == PriceSpec => ReportsCoverLive
<1>1. PriceInit => CoverInv
  BY CoverStart
<1>2. CoverInv /\ [PriceNext]_priceVars => CoverInv'
  BY CoverStep
<1>. DEFINE Covers ==
       Reports /\ ~report'.incomplete =>
         \A m \in Live : prices[m] # NoRow =>
           IF prices[m].source = "override"
           THEN day - prices[m].verified <= report'.fallback
           ELSE /\ prices[m].at >= run.since \/ m \in report'.gaps \union run.missed
                /\ day - prices[m].at <= report'.age
<1>3. CoverInv => Covers
  BY ReportCovers
<1>4. ReportsCoverLive <=> [][Covers]_priceVars
  BY DEF ReportsCoverLive
<1>. HIDE DEF Covers
<1>. QED BY <1>1, <1>2, <1>3, <1>4, PTL DEF PriceSpec

(* A set of naturals that has 0 and the successor of each of its elements has
   them all. *)
LEMMA AllNaturals ==
  ASSUME NEW T \in SUBSET Nat, 0 \in T, \A n \in T : n + 1 \in T
  PROVE  T = Nat
<1>. DEFINE R == OpToRel(<, Nat)
<1>1. SUFFICES ASSUME Nat \ T # {} PROVE FALSE
  OBVIOUS
<1>2. IsWellFoundedOn(R, Nat)
  BY NatLessThanWellFounded
<1>3. PICK x \in Nat \ T : \A y \in Nat \ T : ~ (<<y, x>> \in R)
  <2>. HIDE DEF R
  <2>1. Nat \ T \subseteq Nat
    OBVIOUS
  <2>. QED BY <1>1, <1>2, <2>1, WFMin
<1>4. \A y \in Nat \ T : ~ (y < x)
  BY <1>3 DEF OpToRel
<1>5. x \in Nat /\ x # 0
  BY <1>3
<1>6. x - 1 \in Nat /\ x - 1 < x /\ (x - 1) + 1 = x
  BY <1>5
<1>7. x - 1 \in T
  BY <1>4, <1>6
<1>. QED BY <1>3, <1>6, <1>7

(* Who holds a dimension after the n-th SKU, from who held it before: the recursion
   has a solution. *)
Holding(S, mode, order, f, n) ==
  IF n = 0 THEN {}
  ELSE IF order[n] \in S /\ \A h \in f[n - 1] : Claims(order[n], h, mode)
  THEN {order[n]} ELSE f[n - 1]
Holds(f, S, mode, order, n) ==
  f = [i \in 0..n |-> Holding(S, mode, order, f, i)]
(* The recursion that defines who holds a rate has a solution. *)
LEMMA HoldersExist ==
  ASSUME NEW S, NEW mode, NEW order, NEW n \in Nat
  PROVE  \E f : Holds(f, S, mode, order, n)
<1>. DEFINE T == {k \in Nat : \E f : Holds(f, S, mode, order, k)}
<1>1. 0 \in T
  <2>. DEFINE f == [i \in 0..0 |-> {}]
  <2>1. Holds(f, S, mode, order, 0)
    BY DEF Holds, Holding
  <2>. QED BY <2>1
<1>2. ASSUME NEW k \in T PROVE k + 1 \in T
  <2>1. PICK f : Holds(f, S, mode, order, k)
    OBVIOUS
  <2>. DEFINE g == [i \in 0..(k + 1) |-> Holding(S, mode, order, f, i)]
  <2>2. \A i \in 0..k : g[i] = f[i]
    BY <2>1 DEF Holds
  <2>3. \A i \in 0..(k + 1) : Holding(S, mode, order, f, i) = Holding(S, mode, order, g, i)
    <3>. HIDE DEF g
    <3>1. \A i \in 0..(k + 1) : i # 0 => i - 1 \in 0..k
      OBVIOUS
    <3>. QED BY <2>2, <3>1 DEF Holding
  <2>4. Holds(g, S, mode, order, k + 1)
    BY <2>3 DEF Holds
  <2>. QED BY <2>4
<1>3. T = Nat
  <2>. HIDE DEF T
  <2>1. T \in SUBSET Nat
    BY DEF T
  <2>. QED BY <1>1, <1>2, <2>1, AllNaturals
<1>. QED BY <1>3

(* A SKU that none of another sort displaces. *)
NoWorse(s, t, mode) ==
  \/ Rank(s, mode) < Rank(t, mode)
  \/ Rank(s, mode) = Rank(t, mode) /\ s.price <= t.price
Best(s, S, mode) == s \in S /\ \A t \in S : NoWorse(s, t, mode)
(* A SKU that takes a rate over from another is no worse than it. *)
LEMMA Ordered ==
  ASSUME NEW s \in Skus, NEW t \in Skus, NEW mode
  PROVE  /\ Rank(s, mode) \in Nat /\ Rank(t, mode) \in Nat
         /\ s.price \in Nat /\ t.price \in Nat
         /\ Claims(s, t, mode) => NoWorse(s, t, mode)
         /\ ~Claims(s, t, mode) => NoWorse(t, s, mode)
         /\ NoWorse(s, s, mode)
         /\ \A u \in Skus : NoWorse(s, t, mode) /\ NoWorse(t, u, mode) => NoWorse(s, u, mode)
<1>1. \A u \in Skus : Rank(u, mode) \in Nat
  BY DEF Rank
<1>2. \A u \in Skus : u.price \in Nat
  BY PriceAssumption
<1>. QED BY <1>1, <1>2 DEF Claims, NoWorse

(* After n SKUs the best of those that count holds the dimension, if there is one. *)
Leads(H, S, mode, order, n) ==
  \/ H = {} /\ \A i \in 1..n : order[i] \notin S
  \/ \E s \in S : H = {s} /\ \A i \in 1..n : order[i] \in S => NoWorse(s, order[i], mode)
(* Who holds a rate is no worse than any candidate so far. *)
LEMMA HolderLeads ==
  ASSUME NEW S \in SUBSET Skus, NEW mode, NEW order \in Seq(Skus), NEW f,
         Holds(f, S, mode, order, Len(order)), NEW n \in 0..Len(order)
  PROVE  Leads(f[n], S, mode, order, n)
<1>. DEFINE T == {k \in Nat : k <= Len(order) => Leads(f[k], S, mode, order, k)}
<1>0. Len(order) \in Nat
  OBVIOUS
<1>1. \A k \in 0..Len(order) : f[k] = Holding(S, mode, order, f, k)
  BY DEF Holds
<1>2. 0 \in T
  <2>1. f[0] = {}
    <3>1. f[0] = Holding(S, mode, order, f, 0)
      BY <1>0, <1>1
    <3>. QED BY <3>1 DEF Holding
  <2>2. \A i \in 1..0 : FALSE
    OBVIOUS
  <2>3. Leads(f[0], S, mode, order, 0)
    BY <2>1, <2>2 DEF Leads
  <2>. QED BY <2>3
<1>3. ASSUME NEW k \in T PROVE k + 1 \in T
  <2>. SUFFICES ASSUME k + 1 <= Len(order) PROVE Leads(f[k + 1], S, mode, order, k + 1)
    OBVIOUS
  <2>. DEFINE t == order[k + 1]
  <2>1. k \in Nat /\ k + 1 \in 0..Len(order) /\ (k + 1) - 1 = k /\ k + 1 # 0
        /\ Leads(f[k], S, mode, order, k) /\ t \in Skus
    BY <1>0
  <2>2. f[k + 1] = IF t \in S /\ \A h \in f[k] : Claims(t, h, mode) THEN {t} ELSE f[k]
    BY <1>1, <2>1 DEF Holding
  <2>3. \A i \in 1..(k + 1) : i \in 1..k \/ i = k + 1
    BY <2>1
  <2>4. \A i \in 1..k : order[i] \in Skus
    BY <1>0, <2>1
  <2>. DEFINE seen == {order[i] : i \in 1..k}
  <2>5. seen \subseteq Skus /\ \A i \in 1..(k + 1) : order[i] \in seen \/ order[i] = t
    BY <2>3, <2>4
  <2>6. \/ f[k] = {} /\ \A u \in seen : u \notin S
        \/ \E s \in S : f[k] = {s} /\ \A u \in seen : u \in S => NoWorse(s, u, mode)
    BY <2>1 DEF Leads
  <2>. HIDE DEF seen, t
  <2>7. \/ f[k + 1] = {} /\ t \notin S /\ \A u \in seen : u \notin S
        \/ \E s \in S : /\ f[k + 1] = {s}
                        /\ t \in S => NoWorse(s, t, mode)
                        /\ \A u \in seen : u \in S => NoWorse(s, u, mode)
    <3>1. CASE t \notin S
      BY <2>2, <2>6, <3>1
    <3>2. CASE t \in S /\ f[k] = {}
      BY <2>1, <2>2, <2>6, <3>2, Ordered
    <3>3. ASSUME t \in S, NEW s \in S, f[k] = {s},
                 \A u \in seen : u \in S => NoWorse(s, u, mode)
          PROVE  \E r \in S : /\ f[k + 1] = {r} /\ NoWorse(r, t, mode)
                              /\ \A u \in seen : u \in S => NoWorse(r, u, mode)
      <4>1. CASE Claims(t, s, mode)
        <5>1. f[k + 1] = {t} /\ NoWorse(t, t, mode) /\ NoWorse(t, s, mode)
          BY <2>2, <3>3, <4>1, Ordered
        <5>2. \A u \in seen : u \in S => NoWorse(t, u, mode)
          BY <3>3, <5>1, Ordered
        <5>. QED BY <3>3, <5>1, <5>2
      <4>2. CASE ~Claims(t, s, mode)
        <5>1. f[k + 1] = {s} /\ NoWorse(s, t, mode)
          BY <2>2, <3>3, <4>2, Ordered
        <5>. QED BY <3>3, <5>1
      <4>. QED BY <4>1, <4>2
    <3>. QED BY <2>6, <3>1, <3>2, <3>3
  <2>8. CASE f[k + 1] = {} /\ t \notin S /\ \A u \in seen : u \notin S
    BY <2>5, <2>8 DEF Leads
  <2>9. ASSUME NEW s \in S, f[k + 1] = {s}, t \in S => NoWorse(s, t, mode),
               \A u \in seen : u \in S => NoWorse(s, u, mode)
        PROVE  Leads(f[k + 1], S, mode, order, k + 1)
    <3>1. \A i \in 1..(k + 1) : order[i] \in S => NoWorse(s, order[i], mode)
      BY <2>5, <2>9
    <3>2. \E r \in S : /\ f[k + 1] = {r}
                       /\ \A i \in 1..(k + 1) : order[i] \in S => NoWorse(r, order[i], mode)
      BY <2>9, <3>1
    <3>. QED BY <3>2 DEF Leads
  <2>. QED BY <2>7, <2>8, <2>9
<1>4. T = Nat
  <2>. HIDE DEF T
  <2>1. T \in SUBSET Nat
    BY DEF T
  <2>. QED BY <1>2, <1>3, <2>1, AllNaturals
<1>5. n \in Nat /\ n <= Len(order)
  OBVIOUS
<1>. QED BY <1>4, <1>5

(* Whatever order the SKUs come in, the one that holds a dimension in the end is the
   best, at the price of the best. *)
LEMMA WinnerIsBest ==
  ASSUME NEW S \in SUBSET Skus, S # {}, NEW mode, NEW order \in FileOrders
  PROVE  Winner(S, mode, order).price = BestOf(S, mode)
<1>1. order \in Seq(Skus) /\ Range(order) = Skus /\ Len(order) \in Nat
  BY PriceAssumption
<1>. DEFINE f == Holders(S, mode, order)
            last == Len(order)
<1>2. Holds(f, S, mode, order, last)
  <2>1. PICK g : Holds(g, S, mode, order, last)
    BY <1>1, HoldersExist
  <2>2. f = CHOOSE it : Holds(it, S, mode, order, last)
    BY DEF Holders, Holds, Holding
  <2>. HIDE DEF f, last
  <2>. QED BY <2>1, <2>2
<1>. HIDE DEF f
<1>3. Leads(f[last], S, mode, order, last)
  <2>1. last \in 0..Len(order)
    BY <1>1
  <2>. QED BY <1>1, <1>2, <2>1, HolderLeads
<1>4. \A s \in Skus : \E i \in 1..last : order[i] = s
  BY <1>1 DEF Range
<1>5. PICK s \in S : f[last] = {s} /\ Best(s, S, mode)
  BY <1>3, <1>4 DEF Leads, Best
<1>6. Winner(S, mode, order) = s
  BY <1>5 DEF Winner, f
<1>. DEFINE b == CHOOSE x \in S : \A t \in S : NoWorse(x, t, mode)
<1>7. Best(b, S, mode)
  BY <1>5 DEF Best
<1>8. BestOf(S, mode) = b.price
  BY DEF BestOf, NoWorse
<1>. HIDE DEF b
<1>9. s.price = b.price
  <2>1. NoWorse(s, b, mode) /\ NoWorse(b, s, mode) /\ s \in Skus /\ b \in Skus
    BY <1>5, <1>7 DEF Best
  <2>2. Rank(s, mode) \in Nat /\ Rank(b, mode) \in Nat /\ s.price \in Nat /\ b.price \in Nat
    BY <2>1, Ordered
  <2>. QED BY <2>1, <2>2 DEF NoWorse
<1>. QED BY <1>6, <1>8, <1>9

(* The rates in hand are those of the run's own files, for a model a region lists. *)
Derived(got, m, files) ==
  \E idx, failed : \E order \in FileOrders : got = Resolved(m, files, idx, failed, order)
RatesOK(r) ==
  r.pc # "idle" =>
    /\ IsRun(r) /\ r.files \subseteq Skus /\ r.todo \subseteq r.byId
    /\ \A m \in r.named : m \notin r.byId
    /\ r.pc = "write" /\ r.model \in r.byId => Derived(r.got, r.model, r.files)
RatesInv == offer \subseteq Skus /\ RatesOK(run)

(* Every step keeps the rates in hand those of the run's own files. *)
LEMMA RatesStep ==
  ASSUME RatesInv, [PriceNext]_priceVars
  PROVE  RatesInv'
<1>1. CASE UNCHANGED <<offer, run>>
  BY <1>1 DEF RatesInv, RatesOK
<1>2. CASE UNCHANGED offer /\ run' = Asleep
  BY <1>2 DEF RatesInv, RatesOK, Asleep
<1>3. CASE Starts
  <2>1. PICK unlisted \in SUBSET RegionSet, lost \in SUBSET RegionSet :
          run' = [pc |-> "walk", todo |-> UNION {ListedIn[g] : g \in RegionSet \ unlisted},
                  byId |-> UNION {ListedIn[g] : g \in RegionSet \ unlisted},
                  named |-> Static \ UNION {ListedIn[g] : g \in RegionSet \ unlisted},
                  missed |-> {}, files |-> Downloaded(lost),
                  gaps |-> {}, incomplete |-> unlisted # {}, since |-> day,
                  model |-> "none", got |-> NoRates]
    BY <1>3 DEF Starts
  <2>. DEFINE listed == UNION {ListedIn[g] : g \in RegionSet \ unlisted}
  <2>2. IsRun(run')
    BY <2>1 DEF IsRun, RunFields
  <2>3. /\ run'.pc = "walk" /\ run'.todo = listed /\ run'.byId = listed
        /\ run'.named = Static \ listed /\ run'.files = Downloaded(lost)
    BY <2>1
  <2>. HIDE DEF listed
  <2>4. Downloaded(lost) \subseteq Skus /\ UNCHANGED offer
    BY <1>3 DEF Starts, catalog, RatesInv, Downloaded
  <2>. QED BY <2>2, <2>3, <2>4 DEF RatesInv, RatesOK
<1>4. ASSUME NEW m \in Models, Resolves(m) PROVE RatesInv'
  <2>1. PICK order \in FileOrders, failed \in Failing(m) :
          LET got == Resolved(m, run.files, index, failed, order) IN
          \/ run' = [run EXCEPT !.pc = "write", !.todo = @ \ {m}, !.model = m, !.got = got]
          \/ run' = [run EXCEPT !.todo = @ \ {m}, !.gaps = @ \union {m}]
    BY <1>4 DEF Resolves
  <2>. DEFINE got == Resolved(m, run.files, index, failed, order)
  <2>2. Derived(got, m, run.files)
    <3>1. got = Resolved(m, run.files, index, failed, order)
      OBVIOUS
    <3>. HIDE DEF got
    <3>. QED BY <3>1 DEF Derived
  <2>. HIDE DEF got
  <2>3. run.pc = "walk" /\ RatesOK(run) /\ IsRun(run) /\ UNCHANGED offer
    BY <1>4 DEF Resolves, RatesInv, RatesOK, catalog
  <2>4. CASE run' = [run EXCEPT !.pc = "write", !.todo = @ \ {m}, !.model = m, !.got = got]
    <3>1. /\ IsRun(run') /\ run'.pc = "write" /\ run'.todo = run.todo \ {m}
          /\ run'.model = m /\ run'.got = got /\ run'.byId = run.byId
          /\ run'.named = run.named /\ run'.files = run.files
      BY <2>3, <2>4 DEF IsRun, RunFields
    <3>. QED BY <2>2, <2>3, <3>1 DEF RatesInv, RatesOK
  <2>5. CASE run' = [run EXCEPT !.todo = @ \ {m}, !.gaps = @ \union {m}]
    <3>1. /\ IsRun(run') /\ run'.pc = "walk" /\ run'.todo = run.todo \ {m}
          /\ run'.byId = run.byId /\ run'.named = run.named /\ run'.files = run.files
      BY <2>3, <2>5 DEF IsRun, RunFields
    <3>. QED BY <2>3, <3>1 DEF RatesInv, RatesOK
  <2>. QED BY <2>1, <2>4, <2>5 DEF got
<1>5. ASSUME NEW m \in Models, ResolvesByName(m) PROVE RatesInv'
  <2>1. \E got :
          \/ run' = [run EXCEPT !.pc = "write", !.named = @ \ {m}, !.model = m, !.got = got]
          \/ run' = [run EXCEPT !.named = @ \ {m}, !.missed = @ \union {m}]
    BY <1>5 DEF ResolvesByName
  <2>2. run.pc = "walk" /\ RatesOK(run) /\ IsRun(run) /\ m \notin run.byId /\ UNCHANGED offer
    BY <1>5 DEF ResolvesByName, RatesInv, RatesOK, catalog
  <2>3. /\ IsRun(run') /\ run'.todo = run.todo /\ run'.byId = run.byId
        /\ run'.named = run.named \ {m} /\ run'.files = run.files
        /\ run'.pc = "walk" \/ run'.model = m
    BY <2>1, <2>2 DEF IsRun, RunFields
  <2>. QED BY <2>2, <2>3 DEF RatesInv, RatesOK
<1>6. CASE Writes
  <2>1. RatesOK(run) /\ IsRun(run) /\ run.pc = "write" /\ UNCHANGED offer
    BY <1>6 DEF Writes, RatesInv, RatesOK, catalog
  <2>2. /\ IsRun(run') /\ run'.pc = "walk" /\ run'.todo = run.todo /\ run'.byId = run.byId
        /\ run'.named = run.named /\ run'.files = run.files
    BY <1>6, <2>1 DEF Writes, Resumed, IsRun, RunFields
  <2>. QED BY <2>1, <2>2 DEF RatesInv, RatesOK
<1>7. CASE OutOfTime
  <2>1. RatesOK(run) /\ IsRun(run) /\ run.pc = "walk" /\ UNCHANGED offer
    BY <1>7 DEF OutOfTime, RatesInv, RatesOK, catalog
  <2>2. /\ IsRun(run') /\ run'.pc = "walk" /\ run'.todo = {} /\ run'.byId = run.byId
        /\ run'.named = run.named /\ run'.files = run.files
    BY <1>7, <2>1 DEF OutOfTime, Truncated, IsRun, RunFields
  <2>. QED BY <2>1, <2>2 DEF RatesInv, RatesOK
<1>8. ASSUME NEW s \in Changing, Publishes(s) PROVE RatesInv'
  <2>1. s \in Skus
    BY RefreshAssumption
  <2>2. offer' \subseteq Skus /\ UNCHANGED run
    BY <1>8, <2>1 DEF Publishes, RatesInv
  <2>. QED BY <2>2 DEF RatesInv, RatesOK
<1>9. ASSUME NEW o \in Forms, SaveReads(o) \/ SaveWrites(o) PROVE RatesInv'
  BY <1>1, <1>9 DEF SaveReads, SaveWrites, catalog
<1>10. ASSUME NEW o \in Forms, NEW m \in Models, OpensEditor(o, m) PROVE RatesInv'
  BY <1>1, <1>10 DEF OpensEditor, catalog
<1>11. ASSUME NEW m \in Models, Deletes(m) PROVE RatesInv'
  BY <1>1, <1>11 DEF Deletes, catalog
<1>12. CASE Dies \/ Reports
  BY <1>2, <1>12 DEF Dies, Reports, catalog
<1>13. CASE NextDay \/ UNCHANGED priceVars
  BY <1>1, <1>13 DEF NextDay, catalog, priceVars
<1>14. CASE Refresher
  BY <1>3, <1>4, <1>5, <1>6, <1>12, <1>14 DEF Refresher
<1>. QED
  BY <1>7, <1>8, <1>9, <1>10, <1>11, <1>12, <1>13, <1>14 DEF PriceNext

(* The SKUs of the files that are looked at for a rate. *)
Bulk(m, g, files) ==
  Found(files, "AmazonBedrock", m, g) \union Found(files, "FoundationModels", m, g)
(* The candidates of the resolver are the eligible SKUs. *)
LEMMA EligibleAre ==
  ASSUME NEW m, NEW g, NEW files \in SUBSET Skus, NEW k, NEW ctx \in Contexts, NEW mode
  PROVE  Candidates(Bulk(m, g, files), ctx, mode, k) = Eligible(m, g, files, k, ctx, mode)
<1>1. ASSUME NEW s \in Skus
      PROVE  /\ s.svc \in {"AmazonBedrock", "FoundationModels"}
             /\ s.class \in Classes /\ s.long \in BOOLEAN
  BY PriceAssumption
<1>2. \A s \in Skus : Usable(s) <=> (s.kind \in TokenKinds =>
                                       /\ s.class \in {"plain", "flex"}
                                       /\ s.long => s.svc = "FoundationModels" /\ HasTier(s.model))
  BY <1>1 DEF Usable, Recordable, Token, Classes
<1>3. \A s \in Skus : Context(s) = ctx <=> (IF s.kind \in TokenKinds THEN s.long = (ctx = "long")
                                              ELSE ctx = "short")
  BY <1>1 DEF Context, Contexts, Token
<1>4. Bulk(m, g, files) = {s \in files : s.model = m /\ s.region = g}
  BY <1>1 DEF Bulk, Found
<1>. QED BY <1>2, <1>3, <1>4 DEF Candidates, Eligible

(* Where the files have a rate of a model, what is resolved is the files' rates and
   what the reviewed card adds for long prompts. *)
LEMMA FilesFirst ==
  ASSUME NEW m, NEW files, NEW idx, NEW failed, NEW order, NEW g \in RegionSet,
         Priced(Recorded(Bulk(m, g, files), order))
  PROVE  Resolved(m, files, idx, failed, order)[g].rates
           = Filled(Recorded(Bulk(m, g, files), order), m)
BY DEF Resolved, InRegion, Bulk

(* Each rate of a region that has a standard one is what it should be. *)
LEMMA RatesAre ==
  ASSUME NEW m, NEW files \in SUBSET Skus, NEW got, Derived(got, m, files),
         NEW g \in RegionSet,
         NEW j \in Kinds, Eligible(m, g, files, j, "short", "regional") # {},
         NEW k \in Kinds, NEW ctx \in Contexts, NEW mode \in Modes
  PROVE  RateIs(got[g].rates[ctx][mode], m, Eligible(m, g, files, k, ctx, mode), k, ctx, mode)
<1>1. PICK idx, failed : \E order \in FileOrders : got = Resolved(m, files, idx, failed, order)
  BY DEF Derived
<1>2. PICK order \in FileOrders : got = Resolved(m, files, idx, failed, order)
  BY <1>1
<1>. DEFINE bulk == Bulk(m, g, files)
            r == Recorded(bulk, order)
            of == Eligible(m, g, files, k, ctx, mode)
            rates == got[g].rates[ctx][mode]
<1>3. /\ DOMAIN r[ctx][mode] = {i \in Kinds : Candidates(bulk, ctx, mode, i) # {}}
      /\ \A i \in DOMAIN r[ctx][mode] :
           r[ctx][mode][i] = Winner(Candidates(bulk, ctx, mode, i), mode, order).price
  BY DEF Recorded
<1>4. Priced(r)
  <2>1. "short" \in Contexts /\ "regional" \in Modes
    BY DEF Contexts, Modes
  <2>2. DOMAIN r["short"]["regional"]
          = {i \in Kinds : Candidates(bulk, "short", "regional", i) # {}}
    BY <2>1 DEF Recorded
  <2>3. Candidates(bulk, "short", "regional", j) # {}
    BY <2>1, EligibleAre
  <2>. QED BY <2>2, <2>3 DEF Priced
<1>5. got[g].rates = Filled(r, m)
  BY <1>2, <1>4, FilesFirst
<1>6. Candidates(bulk, ctx, mode, k) = of
  BY EligibleAre
<1>7. of # {} => k \in DOMAIN r[ctx][mode] /\ r[ctx][mode][k] = BestOf(of, mode)
  <2>1. of \in SUBSET Skus
    BY DEF Eligible
  <2>. HIDE DEF of, r, bulk
  <2>. QED BY <1>3, <1>6, <2>1, WinnerIsBest
<1>8. of = {} => k \notin DOMAIN r[ctx][mode]
  <2>. HIDE DEF of, r, bulk
  <2>. QED BY <1>3, <1>6
<1>9. DOMAIN r = Contexts
  BY DEF Recorded
<1>. HIDE DEF r, of, bulk
<1>10. CASE ctx = "short"
  <2>1. rates = r[ctx][mode]
    BY <1>5, <1>9, <1>10 DEF Filled, Contexts
  <2>. QED BY <1>7, <1>8, <2>1 DEF of, RateIs
<1>11. CASE ctx = "long"
  <2>1. rates = Over(r[ctx][mode], Card(m, ctx, mode))
    BY <1>5, <1>9, <1>11 DEF Filled, Contexts
  <2>. HIDE DEF rates
  <2>2. of # {} => rates[k] = BestOf(of, mode)
    BY <1>7, <2>1 DEF Over
  <2>3. of = {} => (k \in DOMAIN rates => ctx = "long" /\ rates[k] = Card(m, ctx, mode)[k])
    BY <1>8, <1>11, <2>1 DEF Over
  <2>. QED BY <2>2, <2>3 DEF rates, of, RateIs
<1>. QED BY <1>10, <1>11 DEF Contexts

(* Whatever order SKUs come in, a resolved rate is the price of the cheapest of the
   best ranked SKUs of its region, and a reviewed rate only fills what the catalog
   leaves open: resolveModelPricing. *)
THEOREM RatesAreBestAlways == PriceSpec => []RatesAreBest
<1>1. PriceInit => RatesInv
  BY RefreshAssumption DEF PriceInit, RatesInv, RatesOK, Asleep
<1>2. RatesInv /\ [PriceNext]_priceVars => RatesInv'
  BY RatesStep
<1>3. RatesInv => RatesAreBest
  <2>. SUFFICES ASSUME RatesInv, run.pc = "write", run.model \in run.byId PROVE RatesAreBest
    BY DEF RatesAreBest
  <2>1. run.files \in SUBSET Skus /\ Derived(run.got, run.model, run.files)
    BY DEF RatesInv, RatesOK
  <2>2. ASSUME NEW g \in RegionSet, NEW j \in Kinds,
               Eligible(run.model, g, run.files, j, "short", "regional") # {},
               NEW k \in Kinds, NEW ctx \in Contexts, NEW mode \in Modes
        PROVE  RateIs(run.got[g].rates[ctx][mode], run.model,
                      Eligible(run.model, g, run.files, k, ctx, mode), k, ctx, mode)
    BY <2>1, <2>2, RatesAre
  <2>. QED BY <2>2 DEF RatesAreBest
<1>. QED BY <1>1, <1>2, <1>3, PTL DEF PriceSpec
================================================================================
