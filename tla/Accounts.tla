---- MODULE Accounts ----
(* User accounts: administrators create users, put them into groups, disable, *)
(* enable and delete them, through an API that makes one Cognito call after   *)
(* another and then writes the event to the user's activity timeline; the     *)
(* timelines are read through the central feed. Cognito knows a user by an    *)
(* immutable id and answers to the e-mail address as well.                    *)
EXTENDS ActivityFeed

CONSTANTS
    Ids, Emails,    \* Cognito's ids, in no order, and e-mail addresses
    Groups,         \* the pool's groups
    Sessions,       \* administrators' requests in flight at once
    FirstUser,      \* the id, and
    FirstEmail,     \* the address, of the user there is at the start
    Earlier,        \* rows of other events on the timelines, by day
    MaxRequests, MaxDays,
    MaxFaults

(* An id is no address, and the rows there are at first are in order.         *)
ASSUME AccountsAssumption ==
    /\ FirstUser \in Ids /\ FirstEmail \in Emails /\ Ids \cap Emails = {}
    /\ MaxDays \in Nat /\ IsFiniteSet(Earlier)
    /\ \A n \in Ids \cup Emails, e \in BOOLEAN : [name |-> n, excused |-> e] # None
    /\ \A r \in Earlier :
        /\ r.day \in Int /\ r.day <= 0 /\ r.sk \in 1..Cardinality(Earlier)
        /\ r.excused \/ r.key = [kind |-> "user", name |-> r.who]
        /\ \A q \in Earlier : q.sk = r.sk => q = r

VARIABLES
    users,          \* id |-> [email, groups, enabled]
    gone,           \* id of a deleted user |-> the session that deleted it
    call,           \* session |-> its request, or None
    used            \* requests and faults so far

own == <<users, gone, call, used>>
vars == <<own, rows, today, feed>>

UserKey(name) == [kind |-> "user", name |-> name]

(* Cognito resolves an id or an address.                                      *)
Named(name) == {u \in DOMAIN users : u = name \/ users[u].email = name}
Without(f, x) == [y \in DOMAIN f \ {x} |-> f[y]]
With(f, x, v) == [y \in DOMAIN f \cup {x} |-> IF y = x THEN v ELSE f[y]]

Init ==
    /\ users = [u \in {FirstUser} |-> [email |-> FirstEmail, groups |-> Groups, enabled |-> TRUE]]
    /\ gone = << >>
    /\ call = [s \in Sessions |-> None]
    /\ used = [request |-> 0, fault |-> 0]
    /\ rows = Earlier /\ today = 0
    /\ FeedInit

Fault == used.fault < MaxFaults /\ used' = [used EXCEPT !.fault = @ + 1]
Ends(s) == call' = [call EXCEPT ![s] = None]
Goes(s, step) == call' = [call EXCEPT ![s].step = step]

(* canonicalUsername: the id, or on any error the name it was given.          *)
Canonical(name) == IF Named(name) = {} THEN name ELSE CHOOSE u \in Named(name) : TRUE

(* A row of the timeline keyed by key, about user who. Excused: the look-up   *)
(* failed, or another request had deleted the user before it.                 *)
Recorded(s, key, excused) ==
    /\ rows' = rows \cup {[ day |-> today, sk |-> Cardinality(rows) + 1, type |-> call[s].kind,
                            key |-> UserKey(key), who |-> call[s].who, excused |-> excused ]}
    /\ UNCHANGED <<today, feed>>

(* A deletion or a change of address that is not the request's own came first,*)
(* or the request replaced the very address it named.                         *)
Excused(s) ==
    LET who == call[s].who
    IN  IF who \in DOMAIN users THEN call[s].name \notin {who, users[who].email} ELSE gone[who] # s

----------------------------------------------------------------------------

Request(kind, name, who, step) ==
    [kind |-> kind, name |-> name, who |-> who, step |-> step, canonical |-> None,
     adds |-> {}, removes |-> {}, target |-> {}, alone |-> TRUE]

(* Requests of the group step that would reach the user of an id and address. *)
Changing(u, e) == {s \in Sessions : call[s] # None /\ call[s].step = "groups" /\ call[s].name \in {u, e}}

(* The request comes to overlap the others, which are not alone from now on.  *)
Sends(s, request, others) ==
    /\ call[s] = None /\ used.request < MaxRequests
    /\ call' = [t \in Sessions |->
                  IF t = s THEN [request EXCEPT !.alone = others = {}]
                  ELSE IF t \in others THEN [call[t] EXCEPT !.alone = FALSE] ELSE call[t]]
    /\ used' = [used EXCEPT !.request = @ + 1]
    /\ UNCHANGED <<rows, today, feed>>

(* AdminCreateUser, refused for an address in use. The groups follow.         *)
Creates(s) ==
    \E e \in Emails, u \in Ids \ (DOMAIN users \cup DOMAIN gone), gs \in SUBSET Groups :
        /\ Named(e) = {}
        /\ Sends(s, [Request("created", e, u, "groups") EXCEPT !.adds = gs, !.target = gs,
                        !.canonical = [name |-> u, excused |-> FALSE]], Changing(u, e))
        /\ users' = With(users, u, [email |-> e, groups |-> {}, enabled |-> TRUE])
        /\ UNCHANGED gone

(* PUT groups: the difference to what the user has now.                       *)
PutsGroups(s) ==
    \E u \in DOMAIN users, target \in SUBSET Groups :
        \E name \in {u, users[u].email} :
            /\ target # users[u].groups
            /\ Sends(s, [Request("groups", name, u, "groups") EXCEPT !.target = target,
                            !.adds = target \ users[u].groups,
                            !.removes = users[u].groups \ target], Changing(u, users[u].email))
            /\ UNCHANGED <<users, gone>>

Switches(s) ==
    \E u \in DOMAIN users : \E name \in {u, users[u].email} :
        /\ Sends(s, Request("switched", name, u, "record"), {})
        /\ users' = [users EXCEPT ![u].enabled = ~@]
        /\ UNCHANGED gone

(* PUT of the attributes, a new address among them: the event of a request    *)
(* that named the user by the address it replaces misses the timeline. One    *)
(* that changes groups by the new address comes to reach this user.           *)
Reached(u, e) == IF \E s \in Changing(u, e) : call[s].name = e THEN Changing(u, e) ELSE {}
Readdresses(s) ==
    \E u \in DOMAIN users, e \in Emails : \E name \in {u, users[u].email} :
        /\ Named(e) = {}
        /\ Sends(s, Request("updated", name, u, "record"), Reached(u, e))
        /\ users' = [users EXCEPT ![u].email = e]
        /\ UNCHANGED gone

(* A slip: a deletion looks the user up only when it records the event.       *)
LooksUpLate == "delete"
(* DELETE looks the id up before the user is gone.                            *)
DeletionOrder == "lookup"

Deletes(s) ==
    \E u \in DOMAIN users : \E name \in {u, users[u].email} :
        /\ Sends(s, Request("deleted", name, u, DeletionOrder), {})
        /\ UNCHANGED <<users, gone>>

(* A slip: groups are taken away before the new ones are given.               *)
RemovesFirst(c) == IF c.removes # {} THEN "remove" ELSE "add"
(* Additions come before removals.                                            *)
NextChange(c) == IF c.adds # {} THEN "add" ELSE "remove"

ChangesGroup(s) ==
    /\ call[s] # None /\ call[s].step = "groups"
    /\ LET c == call[s] IN
       \/ /\ c.adds \cup c.removes = {}
          /\ Goes(s, "record")
          /\ UNCHANGED users
       \/ \E u \in Named(c.name) :
          \/ \E g \in c.adds :
               /\ NextChange(c) = "add"
               /\ users' = [users EXCEPT ![u].groups = @ \cup {g}]
               /\ call' = [call EXCEPT ![s].adds = @ \ {g}]
          \/ \E g \in c.removes :
               /\ NextChange(c) = "remove"
               /\ users' = [users EXCEPT ![u].groups = @ \ {g}]
               /\ call' = [call EXCEPT ![s].removes = @ \ {g}]
       \/ c.adds \cup c.removes # {} /\ Named(c.name) = {} /\ Ends(s) /\ UNCHANGED users
    /\ UNCHANGED <<gone, used, rows, today, feed>>

LooksUp(s) ==
    /\ call[s] # None /\ call[s].step = "lookup"
    /\ \/ /\ call' = [call EXCEPT ![s].step = "delete",
                         ![s].canonical = [name |-> Canonical(call[s].name), excused |-> Excused(s)]]
          /\ UNCHANGED used
       \/ /\ Fault
          /\ call' = [call EXCEPT ![s].step = "delete",
                         ![s].canonical = [name |-> call[s].name, excused |-> TRUE]]
    /\ UNCHANGED <<users, gone, rows, today, feed>>

Removes(s) ==
    /\ call[s] # None /\ call[s].step = "delete"
    /\ IF Named(call[s].name) = {} THEN Ends(s) /\ UNCHANGED <<users, gone>>
       ELSE LET u == CHOOSE u \in Named(call[s].name) : TRUE
                home == call[s].canonical
            IN  /\ users' = Without(users, u)
                /\ gone' = With(gone, u, s)
                /\ call' = [call EXCEPT ![s].step = "record", ![s].who = u, ![s].canonical =
                     IF home = None THEN None ELSE [home EXCEPT !.excused = home.excused \/ home.name # u]]
    /\ UNCHANGED <<used, rows, today, feed>>

(* The event goes to the timeline of the id; recording never fails a request. *)
Records(s) ==
    /\ call[s] # None /\ call[s].step = "record"
    /\ Ends(s)
    /\ \/ /\ IF call[s].canonical # None
             THEN Recorded(s, call[s].canonical.name, call[s].canonical.excused)
             ELSE Recorded(s, Canonical(call[s].name), Excused(s))
          /\ UNCHANGED used
       \/ /\ Fault
          /\ call[s].canonical = None
          /\ Recorded(s, call[s].name, TRUE)
       \/ Fault /\ UNCHANGED <<rows, today, feed>>
    /\ UNCHANGED <<users, gone>>

(* A Cognito call fails or the function dies: what was done stays done.       *)
RequestDies(s) ==
    /\ call[s] # None
    /\ Fault
    /\ Ends(s)
    /\ UNCHANGED <<users, gone, rows, today, feed>>

Midnight ==
    /\ today < MaxDays
    /\ today' = today + 1
    /\ UNCHANGED <<own, rows, feed>>

Admin(s) == Creates(s) \/ PutsGroups(s) \/ Switches(s) \/ Readdresses(s) \/ Deletes(s)
Handler(s) == ChangesGroup(s) \/ LooksUp(s) \/ Removes(s) \/ Records(s) \/ RequestDies(s)

Next ==
    \/ \E s \in Sessions : Admin(s) \/ Handler(s)
    \/ Midnight
    \/ Feed /\ UNCHANGED own

Spec == Init /\ [][Next]_vars

----------------------------------------------------------------------------

(* Every event of a user is on the timeline of the user's id, whether the     *)
(* request named the user by id or by address and even when the event is the  *)
(* deletion; unless the look-up failed, or the name the request used no       *)
(* longer named that user when it looked (canonicalUsername, DELETE).         *)
OneTimeline == \A r \in rows : r.excused \/ r.key = UserKey(r.who)

(* A user who is moved from one group to another is never without any group   *)
(* in between, and is not left without one by a request that dies half way:   *)
(* only a request that asks for no group takes the last one, or one that      *)
(* overlapped another (PUT groups).                                           *)
NeverStripped ==
    [][\A u \in DOMAIN users \cap DOMAIN users' :
         users[u].groups # {} /\ users'[u].groups = {} =>
            \E s \in Changing(u, users[u].email) : call[s].target = {} \/ ~call[s].alone]_vars
====
