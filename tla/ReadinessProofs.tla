---- MODULE ReadinessProofs ----
(* Proofs about the readiness check: for any accounts, environments, threads, *)
(* deliveries and faults, a finished sweep has every account in its report    *)
(* once, and compared each with the latest audit on record before it.         *)
EXTENDS Readiness, FiniteSetTheorems, WellFoundedInduction, TLAPS

(* A bounded set of naturals that is not empty has a maximum.              *)
LEMMA MaxOf ==
  ASSUME NEW n \in Nat, NEW S \in SUBSET (0..n), S # {}
  PROVE  Max(S) \in S /\ \A y \in S : y <= Max(S)
<1>. DEFINE R == OpToRel(<, Nat)
            T == {n - x : x \in S}
<1>1. IsWellFoundedOn(R, Nat) /\ T \subseteq Nat /\ T # {}
  <2>1. IsWellFoundedOn(R, Nat)
    BY NatLessThanWellFounded
  <2>2. \A x \in S : n - x \in Nat
    OBVIOUS
  <2>3. PICK x : x \in S
    OBVIOUS
  <2>4. n - x \in T
    BY <2>3
  <2>. HIDE DEF R
  <2>5. T \subseteq Nat /\ T # {}
    BY <2>2, <2>4
  <2>. QED BY <2>1, <2>5
<1>2. PICK t \in T : \A y \in T : ~ (<<y, t>> \in R)
  <2>. HIDE DEF R, T
  <2>. QED BY <1>1, WFMin
<1>3. \A y \in T : ~ (y < t)
  BY <1>1, <1>2 DEF OpToRel
<1>4. PICK x \in S : t = n - x
  BY <1>2
<1>5. \A y \in S : x >= y
  BY <1>3, <1>4
<1>6. \E z \in S : \A y \in S : z >= y
  BY <1>4, <1>5
<1>7. Max(S) \in S /\ \A y \in S : Max(S) >= y
  BY <1>6 DEF Max
<1>. QED BY <1>7

(* What a comparison ought to say.                                            *)
Compared(f) ==
    IF f.known = {} THEN f.previous = None
    ELSE f.previous \in f.known \ {f.started} /\ \A s \in f.known : s <= f.previous

(* The file of an account: audits in the order in which they began, all of    *)
(* them before c.                                                             *)
Filed(h, c) ==
    /\ h \in Seq(Nat)
    /\ \A n \in 1..Len(h) : h[n] < c
    /\ \A m, n \in 1..Len(h) : m <= n => h[m] <= h[n]

(* An environment's files, at the clock's time.                               *)
FilesOK(h, c) == DOMAIN h = Accounts /\ h = [a \in Accounts |-> h[a]] /\ \A a \in Accounts : Filed(h[a], c)

(* A worker hands each account on from one of four places to another, and its *)
(* running audits began after everything on record.                           *)
Shape(w) ==
    w = [job |-> w.job, scope |-> w.scope, outcome |-> w.outcome, running |-> w.running,
         todo |-> w.todo, audited |-> w.audited, skipped |-> w.skipped]
Apart(w) ==
    /\ w.todo \cap (DOMAIN w.running \cup DOMAIN w.audited \cup w.skipped) = {}
    /\ DOMAIN w.running \cap (DOMAIN w.audited \cup w.skipped \cup Inactive) = {}
    /\ DOMAIN w.audited \cap (w.skipped \cup Inactive) = {}
    /\ w.todo \cup DOMAIN w.running \cup DOMAIN w.audited \cup w.skipped \subseteq Accounts
Whole(w) == w.todo \cup DOMAIN w.running \cup DOMAIN w.audited \cup w.skipped = Accounts
Running(w, h, c) ==
    \A a \in DOMAIN w.running : w.running[a] \in Nat /\ w.running[a] < c /\ Filed(h[a], w.running[a])
Findings(w) == \A a \in DOMAIN w.audited : Compared(w.audited[a])
WorkOK(w, h, c) ==
    /\ Shape(w) /\ w.scope \in {"org", "account"}
    /\ Apart(w) /\ Running(w, h, c)
    /\ w.scope = "org" => Whole(w) /\ Findings(w)
    /\ w.outcome = "SUCCEEDED" => w.todo = {} /\ DOMAIN w.running = {}

ReportOK(r) ==
    r.scope = "org" =>
        /\ DOMAIN r.audited \cup r.skipped = Accounts
        /\ DOMAIN r.audited \cap (r.skipped \cup Inactive) = {}
        /\ \A a \in DOMAIN r.audited : Compared(r.audited[a])

Files ==
    /\ clock \in Nat /\ DOMAIN history = Envs /\ history = [e \in Envs |-> history[e]]
    /\ \A e \in Envs : FilesOK(history[e], clock)
Workers == DOMAIN worker = Envs /\ \A e \in Envs : worker[e] # None => WorkOK(worker[e], history[e], clock)
Stored ==
    /\ DOMAIN store = Jobs
    /\ \A j \in Jobs : store[j] # None /\ store[j].state = "SUCCEEDED" => ReportOK(store[j].report)
Inv == Files /\ Workers /\ Stored

----------------------------------------------------------------------------
(* The comparison: all that is on record began before the audit, so the last  *)
(* line of the file is the latest.                                            *)
LEMMA LatestIsLast ==
    ASSUME NEW started \in Nat, NEW h, Filed(h, started)
    PROVE  Compared([started |-> started, previous |-> PreviousRun(h, started), known |-> ToSet(h)])
<1>. DEFINE N == Len(h)
<1>1. N \in Nat /\ DOMAIN h = 1..N /\ \A n \in 1..N : h[n] \in Nat /\ h[n] < started
  BY DEF Filed
<1>2. Earlier(h, started) = 1..N
  BY <1>1 DEF Earlier
<1>3. ToSet(h) = {h[n] : n \in 1..N}
  BY <1>1 DEF ToSet
<1>. HIDE DEF N
<1>4. CASE N = 0
  <2>1. 1..N = {}
    BY <1>4
  <2>2. ToSet(h) = {} /\ PreviousRun(h, started) = None
    BY <2>1, <1>2, <1>3 DEF PreviousRun
  <2>. QED BY <2>2 DEF Compared
<1>5. CASE N # 0
  <2>1. N \in 1..N /\ 1..N \in SUBSET (0..N) /\ 1..N # {}
    BY <1>1, <1>5
  <2>2. Max(1..N) \in 1..N /\ \A n \in 1..N : n <= Max(1..N)
    BY <1>1, <2>1, MaxOf
  <2>3. Max(1..N) = N
    BY <1>1, <2>1, <2>2
  <2>4. PreviousRun(h, started) = h[N]
    BY <1>2, <2>1, <2>3 DEF PreviousRun
  <2>5. \A n \in 1..N : h[n] <= h[N]
    BY <1>1, <2>1 DEF Filed, N
  <2>6. h[N] \in ToSet(h) /\ h[N] # started /\ \A s \in ToSet(h) : s <= h[N]
    BY <1>1, <1>3, <2>1, <2>5
  <2>. QED BY <2>4, <2>6 DEF Compared
<1>. QED BY <1>4, <1>5

(* The file after it has been recorded.                                       *)
LEMMA RecordedIsFiled ==
    ASSUME NEW started \in Nat, NEW c \in Nat, started < c, NEW h, Filed(h, started)
    PROVE  Filed(RecordRun(h, started), c)
<1>. DEFINE g == Append(h, started)
<1>1. h \in Seq(Nat) /\ Len(h) \in Nat /\ DOMAIN h = 1..Len(h)
  BY DEF Filed
<1>2. \A n \in 1..Len(h) : h[n] \in Nat /\ h[n] < started
  BY <1>1 DEF Filed
<1>3. Filed(h, c)
  BY <1>1, <1>2 DEF Filed
<1>4. /\ g \in Seq(Nat) /\ Len(g) = Len(h) + 1 /\ g[Len(h) + 1] = started
      /\ \A n \in 1..Len(h) : g[n] = h[n]
  BY <1>1
<1>. HIDE DEF g
<1>5. \A n \in 1..Len(g) : n \in 1..Len(h) \/ n = Len(h) + 1
  BY <1>1, <1>4
<1>6. \A n \in 1..Len(g) : g[n] < c
  BY <1>1, <1>2, <1>4, <1>5
<1>7. ASSUME NEW m \in 1..Len(g), NEW n \in 1..Len(g), m <= n
      PROVE  g[m] <= g[n]
  <2>1. CASE n = Len(h) + 1
    <3>1. CASE m = Len(h) + 1
      BY <1>4, <2>1, <3>1
    <3>2. CASE m \in 1..Len(h)
      <4>1. g[m] = h[m] /\ g[n] = started /\ h[m] \in Nat /\ h[m] < started
        BY <1>2, <1>4, <2>1, <3>2
      <4>. QED BY <4>1
    <3>. QED BY <1>5, <3>1, <3>2
  <2>2. CASE n \in 1..Len(h)
    <3>1. m \in 1..Len(h)
      BY <1>1, <1>7, <2>2
    <3>2. g[m] = h[m] /\ g[n] = h[n]
      BY <1>4, <2>2, <3>1
    <3>3. h[m] <= h[n]
      BY <1>7, <2>2, <3>1 DEF Filed
    <3>. QED BY <3>2, <3>3
  <2>. QED BY <1>5, <2>1, <2>2
<1>8. Filed(g, c)
  BY <1>4, <1>6, <1>7 DEF Filed
<1>. QED BY <1>3, <1>8 DEF RecordRun, g

(* A file stays in order while time goes on.                                  *)
LEMMA FiledLater ==
    ASSUME NEW c \in Nat, NEW d \in Nat, c <= d, NEW h, Filed(h, c)
    PROVE  Filed(h, d)
<1>1. \A n \in 1..Len(h) : h[n] \in Nat
  BY DEF Filed
<1>. QED BY <1>1 DEF Filed

(* An empty file is in order. *)
LEMMA EmptyFiled == ASSUME NEW c \in Nat PROVE Filed(<< >>, c)
BY DEF Filed

----------------------------------------------------------------------------
(* The worker, one step after another.                                        *)

(* A worker that begins has everything still to do. *)
LEMMA Begun ==
    ASSUME ReadinessAssumption, NEW j, NEW scope \in {"org", "account"}, NEW h, NEW c
    PROVE  WorkOK([ job |-> j, scope |-> scope, outcome |-> None, running |-> << >>,
                    todo |-> IF scope = "org" THEN Accounts ELSE {Home},
                    audited |-> << >>, skipped |-> {} ], h, c)
<1>. DEFINE w == [ job |-> j, scope |-> scope, outcome |-> None, running |-> << >>,
                   todo |-> IF scope = "org" THEN Accounts ELSE {Home},
                   audited |-> << >>, skipped |-> {} ]
<1>1. Shape(w) /\ w.scope \in {"org", "account"}
  BY DEF Shape
<1>2. DOMAIN w.running = {} /\ DOMAIN w.audited = {} /\ w.skipped = {} /\ w.todo \subseteq Accounts
  BY DEF ReadinessAssumption
<1>3. w.scope = "org" => w.todo = Accounts
  OBVIOUS
<1>4. w.outcome # "SUCCEEDED"
  BY DEF ReadinessAssumption
<1>. HIDE DEF w
<1>5. Apart(w) /\ Running(w, h, c) /\ (w.scope = "org" => Whole(w) /\ Findings(w))
  BY <1>2, <1>3 DEF Apart, Running, Whole, Findings
<1>6. WorkOK(w, h, c)
  BY <1>1, <1>4, <1>5 DEF WorkOK
<1>. QED BY <1>6 DEF w

(* A thread takes an account: its audit begins after all on record. *)
LEMMA Taken ==
    ASSUME NEW c \in Nat, NEW h, FilesOK(h, c), NEW w, WorkOK(w, h, c), NEW a \in w.todo \ Inactive,
           w.outcome = None, ReadinessAssumption,
           NEW v, v = [w EXCEPT !.todo = @ \ {a}, !.running = With(@, a, c)]
    PROVE  WorkOK(v, h, c + 1)
<1>1. Shape(w) /\ Apart(w) /\ Running(w, h, c) /\ (w.scope = "org" => Whole(w) /\ Findings(w))
  BY DEF WorkOK
<1>2. /\ Shape(v) /\ v.scope = w.scope /\ v.outcome = None /\ v.todo = w.todo \ {a}
      /\ v.running = With(w.running, a, c) /\ v.audited = w.audited /\ v.skipped = w.skipped
  BY <1>1 DEF Shape
<1>3. DOMAIN v.running = DOMAIN w.running \cup {a} /\ v.running[a] = c
  BY <1>2 DEF With, Without
<1>4. \A b \in DOMAIN w.running \ {a} : v.running[b] = w.running[b]
  BY <1>2 DEF With, Without
<1>5. Apart(v)
  BY <1>1, <1>2, <1>3 DEF Apart
<1>6. a \in Accounts /\ Filed(h[a], c)
  BY <1>1 DEF Apart, FilesOK
<1>7. Running(v, h, c + 1)
  <2>. SUFFICES ASSUME NEW b \in DOMAIN v.running
                PROVE  v.running[b] \in Nat /\ v.running[b] < c + 1 /\ Filed(h[b], v.running[b])
    BY DEF Running
  <2>1. CASE b = a
    BY <1>3, <1>6, <2>1
  <2>2. CASE b # a
    <3>1. v.running[b] = w.running[b] /\ b \in DOMAIN w.running
      BY <1>3, <1>4, <2>2
    <3>2. w.running[b] \in Nat /\ w.running[b] < c /\ Filed(h[b], w.running[b])
      BY <1>1, <3>1 DEF Running
    <3>. QED BY <3>1, <3>2
  <2>. QED BY <2>1, <2>2
<1>8. w.scope = "org" => Whole(v) /\ Findings(v)
  BY <1>1, <1>2, <1>3 DEF Whole, Findings
<1>9. None # "SUCCEEDED"
  BY DEF ReadinessAssumption
<1>. QED BY <1>2, <1>5, <1>7, <1>8, <1>9 DEF WorkOK

(* An account that is passed over. *)
LEMMA Passed ==
    ASSUME NEW c \in Nat, NEW h, NEW w, WorkOK(w, h, c), NEW a \in w.todo, w.outcome = None, ReadinessAssumption,
           NEW v, v = [w EXCEPT !.todo = @ \ {a}, !.skipped = @ \cup {a}]
    PROVE  WorkOK(v, h, c)
<1>1. Shape(w) /\ Apart(w) /\ Running(w, h, c) /\ (w.scope = "org" => Whole(w) /\ Findings(w))
  BY DEF WorkOK
<1>2. /\ Shape(v) /\ v.scope = w.scope /\ v.outcome = None /\ v.todo = w.todo \ {a}
      /\ v.running = w.running /\ v.audited = w.audited /\ v.skipped = w.skipped \cup {a}
  BY <1>1 DEF Shape
<1>3. Apart(v)
  BY <1>1, <1>2 DEF Apart
<1>4. Running(v, h, c) /\ (w.scope = "org" => Whole(v) /\ Findings(v))
  BY <1>1, <1>2 DEF Whole, Findings, Running
<1>5. None # "SUCCEEDED"
  BY DEF ReadinessAssumption
<1>. QED BY <1>2, <1>3, <1>4, <1>5 DEF WorkOK

(* An audit that has run through: compared with the latest, and recorded. *)
FinishedIn(w, a, finding) == [w EXCEPT !.running = Without(@, a), !.audited = With(@, a, finding)]
RecordedIn(w, h, a) ==
    IF w.scope = "org" THEN [h EXCEPT ![a] = RecordRun(@, w.running[a])] ELSE h
(* A record leaves the files in order, and those of other accounts alone. *)
LEMMA RecordedFiles ==
    ASSUME NEW c \in Nat, NEW h, FilesOK(h, c), NEW w, WorkOK(w, h, c), NEW a \in DOMAIN w.running
    PROVE  FilesOK(RecordedIn(w, h, a), c) /\ \A b \in Accounts \ {a} : RecordedIn(w, h, a)[b] = h[b]
<1>. DEFINE g == RecordedIn(w, h, a)
<1>0. g = h \/ g = [h EXCEPT ![a] = RecordRun(@, w.running[a])]
  BY DEF RecordedIn
<1>1. Apart(w) /\ Running(w, h, c)
  BY DEF WorkOK
<1>. HIDE DEF g
<1>2. \A b \in Accounts \ {a} : g[b] = h[b]
  BY <1>0 DEF FilesOK
<1>3. CASE g = h
  BY <1>2, <1>3 DEF g
<1>4. CASE g = [h EXCEPT ![a] = RecordRun(@, w.running[a])]
  <2>1. a \in Accounts /\ DOMAIN h = Accounts /\ \A b \in Accounts : Filed(h[b], c)
    BY <1>1 DEF Apart, FilesOK
  <2>2. w.running[a] \in Nat /\ w.running[a] < c /\ Filed(h[a], w.running[a])
    BY <1>1 DEF Running
  <2>3. Filed(RecordRun(h[a], w.running[a]), c)
    BY <2>2, RecordedIsFiled
  <2>4. g = [b \in Accounts |-> IF b = a THEN RecordRun(h[a], w.running[a]) ELSE h[b]]
    BY <1>4, <2>1
  <2>5. DOMAIN g = Accounts /\ g = [b \in Accounts |-> g[b]]
    BY <2>4
  <2>6. \A b \in Accounts : Filed(g[b], c)
    BY <2>1, <2>3, <2>4
  <2>7. FilesOK(g, c)
    BY <2>5, <2>6 DEF FilesOK
  <2>. QED BY <1>2, <2>7 DEF g
<1>. QED BY <1>0, <1>3, <1>4

(* A finished audit leaves its worker and the files in order. *)
LEMMA Finished ==
    ASSUME NEW c \in Nat, NEW h, FilesOK(h, c), NEW w, WorkOK(w, h, c), w.outcome = None, ReadinessAssumption,
           NEW a \in DOMAIN w.running,
           NEW finding, w.scope = "org" => Compared(finding)
    PROVE  WorkOK(FinishedIn(w, a, finding), RecordedIn(w, h, a), c) /\ FilesOK(RecordedIn(w, h, a), c)
<1>. DEFINE v == FinishedIn(w, a, finding)
            g == RecordedIn(w, h, a)
<1>1. Shape(w) /\ Apart(w) /\ Running(w, h, c) /\ (w.scope = "org" => Whole(w) /\ Findings(w))
  BY DEF WorkOK
<1>12. v = [w EXCEPT !.running = Without(@, a), !.audited = With(@, a, finding)]
  BY DEF FinishedIn
<1>. HIDE DEF v, g
<1>2. /\ Shape(v) /\ v.scope = w.scope /\ v.outcome = None /\ v.todo = w.todo
      /\ v.running = Without(w.running, a) /\ v.audited = With(w.audited, a, finding)
      /\ v.skipped = w.skipped
  BY <1>1, <1>12 DEF Shape
<1>3. /\ DOMAIN v.running = DOMAIN w.running \ {a}
      /\ \A b \in DOMAIN v.running : v.running[b] = w.running[b]
  BY <1>2 DEF With, Without
<1>4. /\ DOMAIN v.audited = DOMAIN w.audited \cup {a} /\ v.audited[a] = finding
      /\ \A b \in DOMAIN w.audited \ {a} : v.audited[b] = w.audited[b]
  BY <1>2 DEF With, Without
<1>5. Apart(v)
  BY <1>1, <1>2, <1>3, <1>4 DEF Apart
<1>6. \A b \in Accounts \ {a} : g[b] = h[b]
  BY RecordedFiles DEF g
<1>7. Running(v, g, c)
  <2>. SUFFICES ASSUME NEW b \in DOMAIN v.running
                PROVE  v.running[b] \in Nat /\ v.running[b] < c /\ Filed(g[b], v.running[b])
    BY DEF Running
  <2>1. b \in DOMAIN w.running /\ b # a /\ v.running[b] = w.running[b]
    BY <1>3
  <2>2. b \in Accounts
    BY <1>1, <2>1 DEF Apart
  <2>3. w.running[b] \in Nat /\ w.running[b] < c /\ Filed(h[b], w.running[b])
    BY <1>1, <2>1 DEF Running
  <2>. QED BY <1>6, <2>1, <2>2, <2>3
<1>8. w.scope = "org" => Whole(v) /\ Findings(v)
  <2>. SUFFICES ASSUME w.scope = "org" PROVE Whole(v) /\ Findings(v)
    OBVIOUS
  <2>1. Whole(v)
    BY <1>1, <1>2, <1>3, <1>4 DEF Whole
  <2>2. \A b \in DOMAIN v.audited : Compared(v.audited[b])
    <3>1. \A b \in DOMAIN w.audited : Compared(w.audited[b])
      BY <1>1 DEF Findings
    <3>. QED BY <1>4, <3>1
  <2>. QED BY <2>1, <2>2 DEF Findings
<1>9. FilesOK(g, c)
  BY RecordedFiles DEF g
<1>10. None # "SUCCEEDED"
  BY DEF ReadinessAssumption
<1>11. WorkOK(v, g, c)
  BY <1>2, <1>5, <1>7, <1>8, <1>10 DEF WorkOK
<1>. QED BY <1>9, <1>11 DEF v, g

(* An audit that raises: skipped in a sweep, the end of a single one. *)
Stopped(w, a) == [w EXCEPT !.running = Without(@, a)]
RaisedIn(w, a) ==
    IF Stopped(w, a).scope = "org" THEN [Stopped(w, a) EXCEPT !.skipped = @ \cup {a}]
    ELSE [Stopped(w, a) EXCEPT !.outcome = "FAILED"]
(* An account whose audit raises is skipped, or fails the job. *)
LEMMA Raised ==
    ASSUME NEW c \in Nat, NEW h, NEW w, WorkOK(w, h, c), w.outcome = None, ReadinessAssumption,
           NEW a \in DOMAIN w.running, NEW g, \A b \in Accounts \ {a} : g[b] = h[b]
    PROVE  WorkOK(RaisedIn(w, a), g, c)
<1>. DEFINE u == Stopped(w, a)
            v == RaisedIn(w, a)
<1>1. Shape(w) /\ Apart(w) /\ Running(w, h, c) /\ (w.scope = "org" => Whole(w) /\ Findings(w))
  BY DEF WorkOK
<1>2. /\ Shape(u) /\ u.scope = w.scope /\ u.outcome = None /\ u.todo = w.todo
      /\ u.running = Without(w.running, a) /\ u.audited = w.audited /\ u.skipped = w.skipped
  BY <1>1 DEF Shape, Stopped
<1>. HIDE DEF u
<1>3. /\ Shape(v) /\ v.scope = w.scope /\ v.todo = w.todo
      /\ v.running = Without(w.running, a) /\ v.audited = w.audited
  BY <1>2 DEF Shape, RaisedIn, u
<1>4. /\ v.outcome \in {None, "FAILED"}
      /\ w.scope = "org" => v.skipped = w.skipped \cup {a}
      /\ w.scope # "org" => v.skipped = w.skipped
  BY <1>2 DEF Shape, RaisedIn, u
<1>. HIDE DEF v
<1>5. /\ DOMAIN v.running = DOMAIN w.running \ {a}
      /\ \A b \in DOMAIN v.running : v.running[b] = w.running[b]
  BY <1>3 DEF With, Without
<1>6. Apart(v)
  <2>1. CASE w.scope = "org"
    BY <1>1, <1>3, <1>4, <1>5, <2>1 DEF Apart
  <2>2. CASE w.scope # "org"
    BY <1>1, <1>3, <1>4, <1>5, <2>2 DEF Apart
  <2>. QED BY <2>1, <2>2
<1>7. Running(v, g, c)
  <2>1. DOMAIN w.running \subseteq Accounts
    BY <1>1 DEF Apart
  <2>. QED BY <1>1, <1>5, <2>1 DEF Running
<1>8. w.scope = "org" => Whole(v) /\ Findings(v)
  BY <1>1, <1>3, <1>4, <1>5 DEF Whole, Findings
<1>9. None # "SUCCEEDED" /\ w.scope \in {"org", "account"}
  BY DEF ReadinessAssumption, WorkOK
<1>10. WorkOK(v, g, c)
  BY <1>3, <1>4, <1>6, <1>7, <1>8, <1>9 DEF WorkOK
<1>. QED BY <1>10 DEF v

(* An outcome: success when nothing is left, and failure at any time. *)
LEMMA Decided ==
    ASSUME NEW c \in Nat, NEW h, NEW w, WorkOK(w, h, c),
           NEW outcome, outcome = "SUCCEEDED" => AllDone(w),
           NEW v, v = [w EXCEPT !.outcome = outcome]
    PROVE  WorkOK(v, h, c)
<1>1. Shape(w) /\ Apart(w) /\ Running(w, h, c) /\ (w.scope = "org" => Whole(w) /\ Findings(w))
  BY DEF WorkOK
<1>2. /\ Shape(v) /\ v.scope = w.scope /\ v.outcome = outcome /\ v.todo = w.todo
      /\ v.running = w.running /\ v.audited = w.audited /\ v.skipped = w.skipped
  BY <1>1 DEF Shape
<1>3. Apart(v) /\ Running(v, h, c) /\ (w.scope = "org" => Whole(v) /\ Findings(v))
  BY <1>1, <1>2 DEF Apart, Running, Whole, Findings
<1>4. outcome = "SUCCEEDED" => v.todo = {} /\ DOMAIN v.running = {}
  BY <1>2 DEF AllDone
<1>5. w.scope \in {"org", "account"}
  BY DEF WorkOK
<1>. QED BY <1>2, <1>3, <1>4, <1>5 DEF WorkOK

(* The report of a worker that succeeded. *)
LEMMA Reported ==
    ASSUME NEW c, NEW h, NEW w, WorkOK(w, h, c), w.outcome = "SUCCEEDED"
    PROVE  ReportOK([scope |-> w.scope, audited |-> w.audited, skipped |-> w.skipped])
<1>1. /\ w.scope = "org" => Whole(w) /\ Findings(w)
      /\ Apart(w) /\ w.todo = {} /\ DOMAIN w.running = {}
  BY DEF WorkOK
<1>2. w.scope = "org" =>
        /\ DOMAIN w.audited \cup w.skipped = Accounts
        /\ DOMAIN w.audited \cap (w.skipped \cup Inactive) = {}
        /\ \A a \in DOMAIN w.audited : Compared(w.audited[a])
  BY <1>1 DEF Whole, Findings, Apart
<1>. QED BY <1>2 DEF ReportOK

(* Time going on, and a worker at rest meanwhile. *)
LEMMA Later ==
    ASSUME NEW c \in Nat, NEW h, FilesOK(h, c)
    PROVE  FilesOK(h, c + 1) /\ \A w : WorkOK(w, h, c) => WorkOK(w, h, c + 1)
<1>1. \A a \in Accounts : Filed(h[a], c + 1)
  <2>. SUFFICES ASSUME NEW a \in Accounts PROVE Filed(h[a], c + 1)
    OBVIOUS
  <2>1. Filed(h[a], c) /\ c + 1 \in Nat /\ c <= c + 1
    BY DEF FilesOK
  <2>. QED BY <2>1, FiledLater
<1>2. FilesOK(h, c + 1)
  BY <1>1 DEF FilesOK
<1>3. ASSUME NEW w, WorkOK(w, h, c) PROVE WorkOK(w, h, c + 1)
  <2>1. Running(w, h, c + 1)
    BY <1>3 DEF WorkOK, Running
  <2>. QED BY <1>3, <2>1 DEF WorkOK
<1>. QED BY <1>2, <1>3

----------------------------------------------------------------------------
(* The invariant.                                                             *)

(* A step of one environment, which leaves the clock and the store alone. *)
LEMMA OneWorker ==
    ASSUME Inv, NEW e \in Envs, NEW v, NEW g,
           FilesOK(g, clock), v # None => WorkOK(v, g, clock),
           worker' = [worker EXCEPT ![e] = v], history' = [history EXCEPT ![e] = g],
           clock' = clock
    PROVE  Files' /\ Workers'
<1>1. DOMAIN worker' = Envs /\ DOMAIN history' = Envs /\ clock' \in Nat
  BY DEF Inv, Files, Workers
<1>2. ASSUME NEW d \in Envs
      PROVE  FilesOK(history'[d], clock') /\ (worker'[d] # None => WorkOK(worker'[d], history'[d], clock'))
  <2>1. CASE d = e
    <3>1. worker'[d] = v /\ history'[d] = g
      BY <2>1 DEF Inv, Files, Workers
    <3>. QED BY <3>1
  <2>2. CASE d # e
    <3>1. worker'[d] = worker[d] /\ history'[d] = history[d]
      BY <2>2 DEF Inv, Files, Workers
    <3>2. FilesOK(history[d], clock) /\ (worker[d] # None => WorkOK(worker[d], history[d], clock))
      BY DEF Inv, Files, Workers
    <3>. QED BY <3>1, <3>2
  <2>. QED BY <2>1, <2>2
<1>. QED BY <1>1, <1>2 DEF Files, Workers

(* One that leaves the files alone too. *)
LEMMA OneAtWork ==
    ASSUME Inv, NEW e \in Envs, NEW v, v # None => WorkOK(v, history[e], clock),
           worker' = [worker EXCEPT ![e] = v], UNCHANGED <<history, clock>>
    PROVE  Files' /\ Workers'
<1>1. FilesOK(history[e], clock) /\ DOMAIN history = Envs
  BY DEF Inv, Files
<1>2. ASSUME NEW d \in Envs
      PROVE  worker'[d] # None => WorkOK(worker'[d], history[d], clock)
  <2>1. CASE d = e
    <3>1. worker'[d] = v
      BY <2>1 DEF Inv, Workers
    <3>. QED BY <3>1, <2>1
  <2>2. CASE d # e
    <3>1. worker'[d] = worker[d]
      BY <2>2 DEF Inv, Workers
    <3>. QED BY <3>1 DEF Inv, Workers
  <2>. QED BY <2>1, <2>2
<1>3. DOMAIN worker' = Envs
  BY DEF Inv, Workers
<1>. QED BY <1>2, <1>3 DEF Inv, Files, Workers

(* Nothing is finished, and nobody at work, to begin with. *)
LEMMA InitInv == Init => Inv
<1>. SUFFICES ASSUME Init PROVE Inv
  OBVIOUS
<1>1. /\ clock \in Nat /\ clock = 0
      /\ DOMAIN history = Envs /\ history = [e \in Envs |-> history[e]]
  BY DEF Init
<1>2. ASSUME NEW e \in Envs PROVE FilesOK(history[e], clock)
  <2>1. history[e] = [a \in Accounts |-> << >>]
    BY DEF Init
  <2>2. Filed(<< >>, clock)
    BY <1>1, EmptyFiled
  <2>. QED BY <2>1, <2>2 DEF FilesOK
<1>3. Workers
  BY DEF Init, Workers
<1>4. Stored
  BY DEF Init, Stored
<1>. QED BY <1>1, <1>2, <1>3, <1>4 DEF Inv, Files

(* The page and the API write markers only. *)
LEMMA StartsInv == ASSUME Inv, Starts PROVE Inv'
<1>1. Files' /\ Workers'
  BY DEF Starts, Inv, Files, Workers
<1>2. Stored'
  <2>1. CASE UNCHANGED store
    BY <2>1 DEF Inv, Stored
  <2>2. CASE store' = [store EXCEPT ![page.job] = Object("RUNNING", NoReport)]
    <3>1. DOMAIN store' = Jobs /\ \A j \in Jobs : store'[j] = store[j] \/ store'[j] = Object("RUNNING", NoReport)
      BY <2>2 DEF Inv, Stored
    <3>2. Object("RUNNING", NoReport).state # "SUCCEEDED"
      BY DEF Object
    <3>. QED BY <3>1, <3>2 DEF Inv, Stored
  <2>3. store' = store \/ store' = [store EXCEPT ![page.job] = Object("RUNNING", NoReport)]
    BY DEF Starts
  <2>. QED BY <2>1, <2>2, <2>3
<1>. QED BY <1>1, <1>2 DEF Inv

(* An invocation begins. *)
LEMMA BeginsInv == ASSUME ReadinessAssumption, Inv, NEW e \in Envs, Begins(e) PROVE Inv'
<1>1. PICK j \in Free, scope \in {"org", "account"} :
        worker' = [worker EXCEPT ![e] =
              [ job |-> j, scope |-> scope, outcome |-> None, running |-> << >>,
                todo |-> IF scope = "org" THEN Accounts ELSE {Home},
                audited |-> << >>, skipped |-> {} ]]
  BY DEF Begins
<1>. DEFINE v == [ job |-> j, scope |-> scope, outcome |-> None, running |-> << >>,
                   todo |-> IF scope = "org" THEN Accounts ELSE {Home},
                   audited |-> << >>, skipped |-> {} ]
<1>2. WorkOK(v, history[e], clock)
  BY Begun
<1>. HIDE DEF v
<1>3. UNCHANGED <<history, clock, store>>
  BY DEF Begins, browser
<1>4. worker' = [worker EXCEPT ![e] = v]
  BY <1>1 DEF v
<1>5. Files' /\ Workers'
  BY <1>2, <1>3, <1>4, OneAtWork
<1>. QED BY <1>3, <1>5 DEF Inv, Stored

(* A thread takes an account. *)
LEMMA TakesAccountInv ==
    ASSUME ReadinessAssumption, Inv, NEW e \in Envs, NEW a \in Accounts, TakesAccount(e, a) PROVE Inv'
<1>. DEFINE v == [worker[e] EXCEPT !.todo = @ \ {a}, !.running = With(@, a, clock)]
<1>1. /\ worker[e] # None /\ worker[e].outcome = None /\ a \in worker[e].todo \ Inactive
      /\ clock' = clock + 1 /\ UNCHANGED <<history, store>>
  BY DEF TakesAccount, Auditing, browser
<1>2. worker' = [worker EXCEPT ![e] = v]
  BY DEF TakesAccount
<1>3. clock \in Nat /\ FilesOK(history[e], clock) /\ WorkOK(worker[e], history[e], clock)
  BY <1>1 DEF Inv, Files, Workers
<1>4. WorkOK(v, history[e], clock + 1)
  BY <1>1, <1>3, Taken
<1>. HIDE DEF v
<1>5. ASSUME NEW d \in Envs
      PROVE  /\ FilesOK(history[d], clock + 1)
             /\ worker'[d] # None => WorkOK(worker'[d], history[d], clock + 1)
  <2>1. FilesOK(history[d], clock)
    BY DEF Inv, Files
  <2>2. FilesOK(history[d], clock + 1) /\ \A w : WorkOK(w, history[d], clock) => WorkOK(w, history[d], clock + 1)
    BY <1>3, <2>1, Later
  <2>3. CASE d = e
    <3>1. worker'[d] = v
      BY <1>2, <2>3 DEF Inv, Workers
    <3>. QED BY <1>4, <2>2, <2>3, <3>1
  <2>4. CASE d # e
    <3>1. worker'[d] = worker[d]
      BY <1>2, <2>4 DEF Inv, Workers
    <3>2. worker[d] # None => WorkOK(worker[d], history[d], clock)
      BY DEF Inv, Workers
    <3>. QED BY <2>2, <3>1, <3>2
  <2>. QED BY <2>3, <2>4
<1>6. DOMAIN worker' = Envs /\ DOMAIN history = Envs
  BY <1>2 DEF Inv, Workers, Files
<1>. QED BY <1>1, <1>3, <1>5, <1>6 DEF Inv, Files, Workers, Stored

(* An account is passed over. *)
LEMMA PassesOverInv ==
    ASSUME ReadinessAssumption, Inv, NEW e \in Envs, NEW a \in Accounts, PassesOver(e, a) PROVE Inv'
<1>. DEFINE v == [worker[e] EXCEPT !.todo = @ \ {a}, !.skipped = @ \cup {a}]
<1>1. /\ worker[e] # None /\ worker[e].outcome = None /\ a \in worker[e].todo
      /\ UNCHANGED <<history, clock, store>>
  BY DEF PassesOver, Auditing, browser
<1>2. worker' = [worker EXCEPT ![e] = v]
  BY DEF PassesOver
<1>3. clock \in Nat /\ WorkOK(worker[e], history[e], clock)
  BY <1>1 DEF Inv, Files, Workers
<1>4. WorkOK(v, history[e], clock)
  BY <1>1, <1>3, Passed
<1>. HIDE DEF v
<1>5. Files' /\ Workers'
  BY <1>1, <1>2, <1>4, OneAtWork
<1>. QED BY <1>1, <1>5 DEF Inv, Stored

(* An audit is compared and recorded. *)
LEMMA FinishesAccountInv ==
    ASSUME ReadinessAssumption, Inv, NEW e \in Envs, NEW a \in Accounts, FinishesAccount(e, a) PROVE Inv'
<1>. DEFINE started == worker[e].running[a]
            org == worker[e].scope = "org"
            finding == [ started |-> started,
                         previous |-> IF org THEN PreviousRun(history[e][a], started) ELSE None,
                         known |-> ToSet(history[e][a]) ]
            v == FinishedIn(worker[e], a, finding)
            g == RecordedIn(worker[e], history[e], a)
<1>1. /\ worker[e] # None /\ worker[e].outcome = None /\ a \in DOMAIN worker[e].running
      /\ UNCHANGED <<clock, store>>
  BY DEF FinishesAccount, Auditing, browser
<1>2. worker' = [worker EXCEPT ![e] = v]
  BY DEF FinishesAccount, FinishedIn
<1>3. history' = [history EXCEPT ![e] = g]
  <2>1. CASE org
    <3>1. history' = [history EXCEPT ![e][a] = RecordRun(@, started)]
      BY <2>1 DEF FinishesAccount
    <3>. QED BY <2>1, <3>1 DEF RecordedIn
  <2>2. CASE ~org
    <3>1. history' = history /\ g = history[e]
      BY <2>2 DEF FinishesAccount, RecordedIn
    <3>2. history = [history EXCEPT ![e] = history[e]]
      BY DEF Inv, Files
    <3>. QED BY <3>1, <3>2
  <2>. QED BY <2>1, <2>2
<1>4. clock \in Nat /\ FilesOK(history[e], clock) /\ WorkOK(worker[e], history[e], clock)
  BY <1>1 DEF Inv, Files, Workers
<1>5. started \in Nat /\ Filed(history[e][a], started)
  BY <1>1, <1>4 DEF WorkOK, Running
<1>6. worker[e].scope = "org" => Compared(finding)
  <2>. SUFFICES ASSUME org PROVE Compared(finding)
    OBVIOUS
  <2>1. finding = [ started |-> started, previous |-> PreviousRun(history[e][a], started),
                    known |-> ToSet(history[e][a]) ]
    OBVIOUS
  <2>. HIDE DEF finding, started
  <2>. QED BY <1>5, <2>1, LatestIsLast
<1>. HIDE DEF finding, started
<1>9. WorkOK(v, g, clock) /\ FilesOK(g, clock)
  BY <1>1, <1>4, <1>6, Finished
<1>. HIDE DEF v, g
<1>10. Files' /\ Workers'
  BY <1>1, <1>2, <1>3, <1>9, OneWorker
<1>. QED BY <1>1, <1>10 DEF Inv, Stored

(* An audit raises. *)
LEMMA AuditRaisesInv ==
    ASSUME ReadinessAssumption, Inv, NEW e \in Envs, NEW a \in Accounts, AuditRaises(e, a) PROVE Inv'
<1>. DEFINE v == RaisedIn(worker[e], a)
            recorded == RecordedIn(worker[e], history[e], a)
<1>1. /\ worker[e] # None /\ worker[e].outcome = None /\ a \in DOMAIN worker[e].running
      /\ UNCHANGED <<clock, store>>
  BY DEF AuditRaises, Auditing, browser
<1>2. worker' = [worker EXCEPT ![e] = v]
  BY DEF AuditRaises, RaisedIn, Stopped
<1>3. \E g \in {history[e], recorded} : history' = [history EXCEPT ![e] = g]
  <2>1. history = [history EXCEPT ![e] = history[e]]
    BY DEF Inv, Files
  <2>2. UNCHANGED history \/ (worker[e].scope = "org" /\ history' = [history EXCEPT ![e][a] = RecordRun(@, worker[e].running[a])])
    BY DEF AuditRaises
  <2>. QED BY <2>1, <2>2 DEF RecordedIn
<1>4. PICK g \in {history[e], recorded} : history' = [history EXCEPT ![e] = g]
  BY <1>3
<1>5. clock \in Nat /\ FilesOK(history[e], clock) /\ WorkOK(worker[e], history[e], clock)
  BY <1>1 DEF Inv, Files, Workers
<1>6. FilesOK(g, clock) /\ \A b \in Accounts \ {a} : g[b] = history[e][b]
  BY <1>1, <1>5, RecordedFiles
<1>7. WorkOK(v, g, clock)
  BY <1>1, <1>5, <1>6, Raised
<1>. HIDE DEF v, recorded
<1>8. Files' /\ Workers'
  BY <1>1, <1>2, <1>4, <1>6, <1>7, OneWorker
<1>. QED BY <1>1, <1>8 DEF Inv, Stored

(* The audit is over. *)
LEMMA CompletesInv == ASSUME Inv, NEW e \in Envs, Completes(e) PROVE Inv'
<1>1. /\ worker[e] # None /\ UNCHANGED <<history, clock, store>>
      /\ \E outcome \in {"SUCCEEDED", "FAILED"} :
           /\ outcome = "SUCCEEDED" => AllDone(worker[e])
           /\ worker' = [worker EXCEPT ![e].outcome = outcome]
  BY DEF Completes, Auditing, browser
<1>2. PICK outcome \in {"SUCCEEDED", "FAILED"} :
           /\ outcome = "SUCCEEDED" => AllDone(worker[e])
           /\ worker' = [worker EXCEPT ![e].outcome = outcome]
  BY <1>1
<1>. DEFINE v == [worker[e] EXCEPT !.outcome = outcome]
<1>3. worker' = [worker EXCEPT ![e] = v]
  BY <1>2
<1>4. clock \in Nat /\ WorkOK(worker[e], history[e], clock)
  BY <1>1 DEF Inv, Files, Workers
<1>5. WorkOK(v, history[e], clock)
  BY <1>2, <1>4, Decided
<1>. HIDE DEF v
<1>6. Files' /\ Workers'
  BY <1>1, <1>3, <1>5, OneAtWork
<1>. QED BY <1>1, <1>6 DEF Inv, Stored

(* Its result is written, or a failure in its place. *)
LEMMA PersistsInv == ASSUME Inv, NEW e \in Envs, Persists(e) PROVE Inv'
<1>. DEFINE w == worker[e]
            report == IF w.outcome = "FAILED" THEN NoReport
                      ELSE [scope |-> w.scope, audited |-> w.audited, skipped |-> w.skipped]
<1>1. /\ w # None /\ w.outcome \in {"SUCCEEDED", "FAILED"} /\ UNCHANGED <<history, clock>>
      /\ \/ /\ store' = [store EXCEPT ![w.job] = Object(w.outcome, report)]
            /\ worker' = [worker EXCEPT ![e].outcome = "returned"]
         \/ /\ worker' = [worker EXCEPT ![e].outcome = "FAILED"]
            /\ UNCHANGED store
  BY DEF Persists
<1>2. PICK outcome \in {"returned", "FAILED"} : worker' = [worker EXCEPT ![e].outcome = outcome]
  BY <1>1
<1>. DEFINE v == [worker[e] EXCEPT !.outcome = outcome]
<1>3. worker' = [worker EXCEPT ![e] = v] /\ outcome # "SUCCEEDED"
  BY <1>2
<1>4. clock \in Nat /\ WorkOK(worker[e], history[e], clock)
  BY <1>1 DEF Inv, Files, Workers
<1>5. WorkOK(v, history[e], clock)
  BY <1>3, <1>4, Decided
<1>. HIDE DEF v
<1>6. Files' /\ Workers'
  BY <1>1, <1>3, <1>5, OneAtWork
<1>7. Object(w.outcome, report).state = "SUCCEEDED" => ReportOK(Object(w.outcome, report).report)
  <2>1. Object(w.outcome, report).state = w.outcome /\ Object(w.outcome, report).report = report
    BY DEF Object
  <2>2. w.outcome = "SUCCEEDED" => ReportOK([scope |-> w.scope, audited |-> w.audited, skipped |-> w.skipped])
    BY <1>4, Reported
  <2>. QED BY <2>1, <2>2
<1>8. Stored'
  <2>1. CASE UNCHANGED store
    BY <2>1 DEF Inv, Stored
  <2>2. CASE store' = [store EXCEPT ![w.job] = Object(w.outcome, report)]
    <3>. HIDE DEF w, report
    <3>1. DOMAIN store' = Jobs /\ \A j \in Jobs : store'[j] = store[j] \/ store'[j] = Object(w.outcome, report)
      BY <2>2 DEF Inv, Stored
    <3>. QED BY <1>7, <3>1 DEF Inv, Stored
  <2>. QED BY <1>1, <2>1, <2>2
<1>. QED BY <1>6, <1>8 DEF Inv

(* An invocation ends. *)
LEMMA ReturnsInv == ASSUME Inv, NEW e \in Envs, Returns(e) PROVE Inv'
<1>1. worker' = [worker EXCEPT ![e] = None] /\ UNCHANGED <<history, clock, store>>
  BY DEF Returns, browser
<1>2. Files' /\ Workers'
  BY <1>1, OneAtWork
<1>. QED BY <1>1, <1>2 DEF Inv, Stored

(* It dies, and its environment keeps its files or loses them. *)
LEMMA DiesInv == ASSUME Inv, NEW e \in Envs, Dies(e) PROVE Inv'
<1>1. /\ worker' = [worker EXCEPT ![e] = None] /\ UNCHANGED <<clock, store>>
      /\ history' \in {history, [history EXCEPT ![e] = [a \in Accounts |-> << >>]]}
  BY DEF Dies, browser
<1>2. clock \in Nat /\ FilesOK(history[e], clock)
  BY DEF Inv, Files
<1>3. PICK g : FilesOK(g, clock) /\ history' = [history EXCEPT ![e] = g]
  <2>1. CASE history' = history
    <3>1. history = [history EXCEPT ![e] = history[e]]
      BY DEF Inv, Files
    <3>. QED BY <1>2, <2>1, <3>1
  <2>2. CASE history' = [history EXCEPT ![e] = [a \in Accounts |-> << >>]]
    <3>1. Filed(<< >>, clock)
      BY <1>2, EmptyFiled
    <3>2. FilesOK([a \in Accounts |-> << >>], clock)
      BY <3>1 DEF FilesOK
    <3>. QED BY <2>2, <3>2
  <2>. QED BY <1>1, <2>1, <2>2
<1>4. Files' /\ Workers'
  BY <1>1, <1>3, OneWorker
<1>. QED BY <1>1, <1>4 DEF Inv, Stored

(* Every step keeps the invariant. *)
LEMMA NextInv == ASSUME ReadinessAssumption, Inv, [Next]_vars PROVE Inv'
<1>1. CASE UNCHANGED vars
  BY <1>1 DEF Inv, Files, Workers, Stored, vars
<1>2. CASE Runs \/ \E q \in Polls : PollSends(q) \/ PollReads(q) \/ PollArrives(q)
  <2>1. UNCHANGED <<worker, history, clock, store>>
    BY <1>2 DEF Runs, PollSends, PollReads, PollArrives, lambda
  <2>. QED BY <2>1 DEF Inv, Files, Workers, Stored
<1>3. CASE Starts
  BY <1>3, StartsInv
<1>4. ASSUME NEW e \in Envs, Begins(e) PROVE Inv'
  BY <1>4, BeginsInv
<1>5. ASSUME NEW e \in Envs, NEW a \in Accounts, TakesAccount(e, a) PROVE Inv'
  BY <1>5, TakesAccountInv
<1>6. ASSUME NEW e \in Envs, NEW a \in Accounts, PassesOver(e, a) PROVE Inv'
  BY <1>6, PassesOverInv
<1>7. ASSUME NEW e \in Envs, NEW a \in Accounts, FinishesAccount(e, a) PROVE Inv'
  BY <1>7, FinishesAccountInv
<1>8. ASSUME NEW e \in Envs, NEW a \in Accounts, AuditRaises(e, a) PROVE Inv'
  BY <1>8, AuditRaisesInv
<1>9. ASSUME NEW e \in Envs, Completes(e) PROVE Inv'
  BY <1>9, CompletesInv
<1>10. ASSUME NEW e \in Envs, Persists(e) PROVE Inv'
  BY <1>10, PersistsInv
<1>11. ASSUME NEW e \in Envs, Returns(e) PROVE Inv'
  BY <1>11, ReturnsInv
<1>12. ASSUME NEW e \in Envs, Dies(e) PROVE Inv'
  BY <1>12, DiesInv
<1>. QED
  BY <1>1, <1>2, <1>3, <1>4, <1>5, <1>6, <1>7, <1>8, <1>9, <1>10, <1>11, <1>12 DEF Next, Page, Worker

(* The invariant, for any accounts, environments, threads, deliveries and     *)
(* faults: files in order, workers that lose no account, sound reports.       *)
THEOREM InvHolds == Spec => []Inv
<1>1. Init => Inv
  BY InitInv
<1>2. Inv /\ [Next]_vars => Inv'
  BY NextInv, ReadinessAssumption
<1>. QED BY <1>1, <1>2, PTL DEF Spec

----------------------------------------------------------------------------
(* The properties.                                                            *)

(* A report that can be read is a sound one. *)
LEMMA ReportsSound == ASSUME Inv, NEW r \in Reports PROVE ReportOK(r)
<1>1. PICK j \in Jobs : store[j] # None /\ store[j].state = "SUCCEEDED" /\ r = store[j].report
  BY DEF Reports
<1>. QED BY <1>1 DEF Inv, Stored

(* SweepAccounts for any Organization, pool and faults: every account is in   *)
(* the report of a sweep exactly once (audit_organization).                   *)
THEOREM SweepAccountsHolds == Spec => []SweepAccounts
<1>1. Inv => SweepAccounts
  BY ReportsSound DEF SweepAccounts, ReportOK
<1>. QED BY <1>1, InvHolds, PTL

(* ComparedWithLatest for any history that earlier sweeps, whole or cut       *)
(* short, have left: an audit is compared with the latest one before it       *)
(* (load_previous_run, record_run).                                           *)
THEOREM ComparedWithLatestHolds == Spec => []ComparedWithLatest
<1>1. Inv => ComparedWithLatest
  <2>. SUFFICES ASSUME Inv, NEW r \in Reports, r.scope = "org", NEW a \in DOMAIN r.audited
                PROVE  LET f == r.audited[a] IN
                       IF f.known = {} THEN f.previous = None
                       ELSE f.previous \in f.known \ {f.started} /\ \A s \in f.known : s <= f.previous
    BY DEF ComparedWithLatest
  <2>1. Compared(r.audited[a])
    BY ReportsSound DEF ReportOK
  <2>. QED BY <2>1 DEF Compared
<1>. QED BY <1>1, InvHolds, PTL

====
