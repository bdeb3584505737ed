------------------------------- MODULE MailingList ------------------------------
(***************************************************************************)
(* The people notify mails: users of the Cognito pool, the two pages on    *)
(* which they and administrators edit what they want to hear of, and the   *)
(* list of them that notify keeps for five minutes.                        *)
(***************************************************************************)
EXTENDS Integers, Sequences, FiniteSets, FiniteSetsExt, TLC

CONSTANTS
  FirstPool,    \* user -> [arn, lens, verified, admin, off, prefs]: the role it
                \* is mapped to, the identity lens of its address, the old
                \* toggles switched off, and the preferences it has set
  Mappings,     \* user -> the roles administrators may map it to
  Nobody,       \* no role, no lens, no form, no fallback mailbox
  Offered,      \* the floors the pages offer, Never among them
  Ops,          \* the fallback mailbox, or Nobody
  MaxEdits      \* a bound on changes of the pool

Members  == DOMAIN FirstPool
Editors  == Members \union {"administrator"}
Never    == 101

ASSUME ListAssumption ==
  /\ MaxEdits \in Nat /\ Never \in Offered /\ Offered \subseteq 0..Never
  /\ Ops \notin Members /\ "administrator" \notin Members
  /\ \A u \in Members : "floor" \in DOMAIN FirstPool[u].prefs => FirstPool[u].prefs["floor"] \in Offered

VARIABLES
  pools,   \* the pool now, last, after what it has been before
  form,    \* editor -> the page it has open, or Nobody
  visits,  \* how many pages were opened
  list,    \* notify's copy: [state, admins, people]
  begun    \* history: index of the pool at which the list was begun

listVars == <<pools, form, visits, list, begun>>

pool   == pools[Len(pools)]
recent == {pools[n] : n \in begun..Len(pools)}
AdminsOf(a) == {u \in Members : a[u].admin}

Toggles == {50, 80, 100}
Set(a, k, default) == IF k \in DOMAIN a.prefs THEN a.prefs[k] ELSE default

(* What the pages show of a user: the floor, from the old toggles while it *)
(* is not set, and whether it wants mails of its own and of all denies.    *)
ShownFloor(a) == Set(a, "floor", Min({Never} \union {t \in Toggles : t \notin a.off}))
WantsDeny(a)  == Set(a, "deny", TRUE)
Watches(a)    == Set(a, "watch", FALSE)

(* A slip: the lowest toggle that is off, not the lowest that is on.       *)
LegacyInverted(off) == Min({Never} \union off)
(* deriveLegacyFloor: what notify goes by while no floor is set.           *)
LegacyFloor(off) ==
  IF 50 \notin off THEN 50 ELSE IF 80 \notin off THEN 80 ELSE IF 100 \notin off THEN 100 ELSE Never
Floor(a) == Set(a, "floor", LegacyFloor(a.off))

ListInit ==
  /\ pools = <<FirstPool>> /\ begun = 1
  /\ form = [e \in Editors |-> Nobody] /\ visits = 0
  /\ list = [state |-> "stale", admins |-> {}, people |-> <<>>]

(***************************************************************************)
(* The pages.                                                              *)
(***************************************************************************)
Changes(u, attributes) ==
  /\ IF attributes = pool[u] THEN UNCHANGED pools
     ELSE Len(pools) <= MaxEdits /\ pools' = Append(pools, [pool EXCEPT ![u] = attributes])
  /\ UNCHANGED <<list, begun>>
Shows(e, page) == form' = [form EXCEPT ![e] = page] /\ UNCHANGED visits
Opens(e, page) ==
  /\ form' = [form EXCEPT ![e] = page] /\ visits' = visits + 1
  /\ UNCHANGED <<pools, list, begun>>

(* The profile page loads its user's attributes, once.                     *)
OpensProfile(u) ==
  Opens(u, [of |-> u, prefs |-> pool[u].prefs, off |-> pool[u].off, admin |-> pool[u].admin,
           pending |-> FALSE])

(* Choosing means choosing something else than is shown.                   *)
Choosable(page) ==
  {"floor" :> f : f \in Offered \ {ShownFloor(page)}} \union {"deny" :> ~WantsDeny(page)}
    \union (IF page.admin THEN {"watch" :> ~Watches(page)} ELSE {})

(* Saved are all preferences the page has a value for, the ones it loaded  *)
(* as well as the one that was changed.                                    *)
SavesProfile(u) ==
  /\ form[u] # Nobody
  /\ \E c \in Choosable(form[u]) :
       /\ Changes(u, [pool[u] EXCEPT !.prefs = c @@ form[u].prefs @@ @])
       /\ Shows(u, [form[u] EXCEPT !.prefs = c @@ @])

(* A new address is nobody's until the code mailed to it is entered, on    *)
(* the page that asked for it.                                             *)
Readdresses(u) ==
  /\ form[u] # Nobody /\ ~form[u].pending
  /\ Changes(u, [pool[u] EXCEPT !.prefs = form[u].prefs @@ @, !.verified = FALSE, !.lens = Nobody])
  /\ Shows(u, [form[u] EXCEPT !.pending = TRUE])
Confirms(u) ==
  /\ form[u] # Nobody /\ form[u].pending
  /\ Changes(u, [pool[u] EXCEPT !.verified = TRUE])
  /\ Shows(u, [form[u] EXCEPT !.pending = FALSE])

(* The administrator's modal, opened on a row of the page's list, has      *)
(* values for everything and saves them all, one of them edited: attributes,*)
(* then groups.                                                            *)
OpensEdit(u) ==
  LET a == pool[u] IN
  Opens("administrator", [of |-> u, arn |-> a.arn, off |-> a.off, admin |-> a.admin, step |-> "form",
    prefs |-> "floor" :> ShownFloor(a) @@ "deny" :> WantsDeny(a) @@ "watch" :> Watches(a)])
Edits(page) ==
  {[page EXCEPT !.prefs = c @@ @] : c \in Choosable(page)}
    \union {[page EXCEPT !.arn = p] : p \in Mappings[page.of]} \union {[page EXCEPT !.admin = ~@]}
SavesEdit ==
  LET page == form["administrator"]  u == page.of IN
  /\ page # Nobody /\ page.step = "form"
  /\ \E new \in Edits(page) :
       /\ Changes(u, [pool[u] EXCEPT !.prefs = new.prefs @@ @, !.arn = new.arn])
       /\ Shows("administrator", [new EXCEPT !.step = "groups"])
SavesGroups ==
  LET page == form["administrator"] IN
  /\ page # Nobody /\ page.step = "groups"
  /\ Shows("administrator", Nobody)
  /\ Changes(page.of, [pool[page.of] EXCEPT !.admin = page.admin])

PagesNext ==
  \/ \E u \in Members : OpensProfile(u) \/ SavesProfile(u) \/ Readdresses(u) \/ Confirms(u) \/ OpensEdit(u)
  \/ SavesEdit \/ SavesGroups

(***************************************************************************)
(* The list: cleared, then the Admins group, then the users.               *)
(***************************************************************************)
(* Five minutes are over; a list that is still what the pool is may as     *)
(* well stay.                                                              *)
Expires ==
  /\ list.state = "good" /\ begun < Len(pools)
  /\ list' = [list EXCEPT !.state = "stale"]
  /\ UNCHANGED <<pools, form, visits, begun>>
ListsAdmins ==
  /\ list.state = "stale"
  /\ list' = [state |-> "reading", admins |-> AdminsOf(pool), people |-> <<>>]
  /\ begun' = Len(pools)
  /\ UNCHANGED <<pools, form, visits>>
ListsUsers ==
  /\ list.state = "reading"
  /\ list' = [list EXCEPT !.state = "good", !.people = pool]
  /\ UNCHANGED <<pools, form, visits, begun>>
(* A call fails: the list stays what it is by then, and is stale.          *)
ListFails == list' = IF list.state = "reading" THEN [list EXCEPT !.state = "stale"] ELSE list

(* Whom a list with given admins and people maps a principal to, and who   *)
(* watches.                                                                *)
Mapped(p, people) ==
  {u \in DOMAIN people : people[u].verified /\ p \in {people[u].arn, people[u].lens}}
Watchers(admins, people) ==
  {u \in admins \intersect DOMAIN people : people[u].verified /\ Watches(people[u])}
================================================================================
