---- MODULE Readiness ----
(* The readiness check: the page starts a job and polls for its result, the   *)
(* API leaves a marker and invokes itself asynchronously, and the worker      *)
(* audits one account or sweeps the Organization with a pool of threads. Each *)
(* audit of a sweep is compared with the one before it, from a history kept   *)
(* in the execution environment. Lambda redelivers the event of a worker that *)
(* died.                                                                      *)
EXTENDS Naturals, FiniteSets, Sequences, SequencesExt

CONSTANTS
    Accounts, Home,     \* accounts of the Organization, the deployed-to one first
    Inactive,           \* accounts that are not ACTIVE
    Jobs,               \* job ids, taken once each
    Envs,               \* execution environments of the function
    Polls,              \* polls of the page in flight at once
    Pool,               \* audits in parallel
    Attempts,           \* deliveries of an asynchronous event
    MaxFaults,
    None

ASSUME ReadinessAssumption ==
    /\ Home \in Accounts \ Inactive /\ Pool \in Nat \ {0} /\ Attempts \in Nat \ {0}
    /\ None \notin {"SUCCEEDED", "FAILED", "returned"}

VARIABLES
    page,       \* what the page shows, the job it polls for, and its request
    poll,       \* poll |-> [job, answer], or None
    store,      \* job |-> its object in S3: state and report, or None
    event,      \* job |-> deliveries so far of its queued or running event
    worker,     \* environment |-> the audit it is running, or None
    history,    \* environment |-> account |-> audits recorded, in file order
    clock,      \* audits begun
    abandoned,  \* jobs whose event Lambda gave up
    faults

vars == <<page, poll, store, event, worker, history, clock, abandoned, faults>>
browser == <<page, poll>>
lambda == <<event, worker, history, clock, abandoned>>

Fault == faults < MaxFaults /\ faults' = faults + 1
Object(state, report) == [state |-> state, report |-> report]
NoReport == [scope |-> None]
Without(f, x) == [y \in DOMAIN f \ {x} |-> f[y]]
With(f, x, v) == [y \in DOMAIN f \cup {x} |-> IF y = x THEN v ELSE f[y]]

Init ==
    /\ page = [state |-> "idle", job |-> None, todo |-> << >>, interval |-> None]
    /\ poll = [q \in Polls |-> None]
    /\ store = [j \in Jobs |-> None]
    /\ event = << >>
    /\ worker = [e \in Envs |-> None]
    /\ history = [e \in Envs |-> [a \in Accounts |-> << >>]]
    /\ clock = 0 /\ abandoned = {} /\ faults = 0

----------------------------------------------------------------------------
(* The page and the API.                                                      *)

(* A slip: the job is invoked before its marker is written. *)
InvokesFirst == <<"invoke", "marker">>
StartOrder == <<"marker", "invoke">>

(* The button waits while the page is running.                                *)
Runs ==
    /\ page.state # "RUNNING" /\ page.todo = << >>
    /\ \E j \in Jobs :
         /\ store[j] = None /\ j \notin DOMAIN event \cup abandoned
         /\ page' = [page EXCEPT !.state = "RUNNING", !.job = j, !.todo = StartOrder]
    /\ UNCHANGED <<poll, store, lambda, faults>>

Starts ==
    /\ page.todo # << >>
    /\ \/ /\ page' = [page EXCEPT !.todo = Tail(@), !.interval = IF Tail(page.todo) = << >> THEN page.job ELSE @]
          /\ \/ /\ Head(page.todo) = "marker"
                /\ store' = [store EXCEPT ![page.job] = Object("RUNNING", NoReport)]
                /\ UNCHANGED event
             \/ /\ Head(page.todo) = "invoke"
                /\ event' = With(event, page.job, 0)
                /\ UNCHANGED store
          /\ UNCHANGED faults
       \/ /\ Fault
          /\ page' = [page EXCEPT !.state = "FAILED", !.todo = << >>]
          /\ UNCHANGED <<store, event>>
    /\ UNCHANGED <<poll, worker, history, clock, abandoned>>

(* The interval fires whether or not earlier polls have been answered.        *)
PollSends(q) ==
    /\ page.interval # None /\ poll[q] = None
    /\ poll' = [poll EXCEPT ![q] = [job |-> page.interval, answer |-> None]]
    /\ UNCHANGED <<page, store, lambda, faults>>

PollReads(q) ==
    /\ poll[q] # None /\ poll[q].answer = None
    /\ \/ /\ poll' = [poll EXCEPT ![q].answer =
                        IF store[poll[q].job] = None THEN "NOT_FOUND" ELSE store[poll[q].job].state]
          /\ UNCHANGED faults
       \/ Fault /\ poll' = [poll EXCEPT ![q].answer = "FAILED"]
    /\ UNCHANGED <<page, store, lambda>>

(* An answer stops whatever interval there is by then.                        *)
PollArrives(q) ==
    /\ poll[q] # None /\ poll[q].answer # None
    /\ poll' = [poll EXCEPT ![q] = None]
    /\ page' = IF poll[q].answer \in {"SUCCEEDED", "FAILED"}
               THEN [page EXCEPT !.state = poll[q].answer, !.interval = None] ELSE page
    /\ UNCHANGED <<store, lambda, faults>>

----------------------------------------------------------------------------
(* The worker.                                                                *)

Idle(e) == worker[e] = None
Free == {j \in DOMAIN event : \A e \in Envs : Idle(e) \/ worker[e].job # j}

(* The management account sweeps the Organization, if it can tell that it is. *)
Begins(e) ==
    /\ Idle(e)
    /\ \E j \in Free, scope \in {"org", "account"} :
         /\ IF scope = "org" THEN UNCHANGED faults ELSE Fault
         /\ event' = [event EXCEPT ![j] = @ + 1]
         /\ worker' = [worker EXCEPT ![e] =
              [ job |-> j, scope |-> scope, outcome |-> None, running |-> << >>,
                todo |-> IF scope = "org" THEN Accounts ELSE {Home},
                audited |-> << >>, skipped |-> {} ]]
    /\ UNCHANGED <<browser, store, history, clock, abandoned>>

Auditing(e) == worker[e] # None /\ worker[e].outcome = None

(* A thread takes an account and begins its audit.                            *)
TakesAccount(e, a) ==
    /\ Auditing(e) /\ a \in worker[e].todo \ Inactive
    /\ Cardinality(DOMAIN worker[e].running) < Pool
    /\ worker' = [worker EXCEPT ![e].todo = @ \ {a}, ![e].running = With(@, a, clock)]
    /\ clock' = clock + 1
    /\ UNCHANGED <<browser, store, event, history, abandoned, faults>>

(* It passes over one that is not active, or whose role cannot be assumed.    *)
PassesOver(e, a) ==
    /\ Auditing(e) /\ a \in worker[e].todo
    /\ Cardinality(DOMAIN worker[e].running) < Pool
    /\ \/ a \in Inactive /\ UNCHANGED faults
       \/ a \notin Inactive \cup {Home} /\ Fault
    /\ worker' = [worker EXCEPT ![e].todo = @ \ {a}, ![e].skipped = @ \cup {a}]
    /\ UNCHANGED <<browser, store, event, history, clock, abandoned>>

(* The places in the file of the audits that began before this one.           *)
Earlier(h, started) == {n \in DOMAIN h : h[n] < started}
(* A slip: the comparison is with the first audit on record.                  *)
FirstRun(h, started) ==
    IF Earlier(h, started) = {} THEN None ELSE h[Min(Earlier(h, started))]
(* load_previous_run: the last audit on record that began before this one.    *)
PreviousRun(h, started) ==
    IF Earlier(h, started) = {} THEN None ELSE h[Max(Earlier(h, started))]
(* record_run: once per audit.                                                *)
RecordRun(h, started) == IF h # << >> /\ Last(h) = started THEN h ELSE Append(h, started)

(* The audit of a sweep that has run through is compared and recorded.        *)
FinishesAccount(e, a) ==
    /\ Auditing(e) /\ a \in DOMAIN worker[e].running
    /\ LET started == worker[e].running[a]
           org == worker[e].scope = "org"
           finding == [ started |-> started,
                        previous |-> IF org THEN PreviousRun(history[e][a], started) ELSE None,
                        known |-> ToSet(history[e][a]) ]
       IN  /\ worker' = [worker EXCEPT ![e].running = Without(@, a),
                                       ![e].audited = With(@, a, finding)]
           /\ history' = IF org THEN [history EXCEPT ![e][a] = RecordRun(@, started)] ELSE history
    /\ UNCHANGED <<browser, store, event, clock, abandoned, faults>>

(* One whose audit raises, before it is recorded or after, is skipped; a      *)
(* single account's fails the job.                                            *)
AuditRaises(e, a) ==
    /\ Auditing(e) /\ a \in DOMAIN worker[e].running
    /\ Fault
    /\ LET done == [worker[e] EXCEPT !.running = Without(@, a)] IN
       worker' = [worker EXCEPT ![e] = IF done.scope = "org" THEN [done EXCEPT !.skipped = @ \cup {a}]
                                       ELSE [done EXCEPT !.outcome = "FAILED"]]
    /\ \/ UNCHANGED history
       \/ /\ worker[e].scope = "org"
          /\ history' = [history EXCEPT ![e][a] = RecordRun(@, worker[e].running[a])]
    /\ UNCHANGED <<browser, store, event, clock, abandoned>>

(* A slip: the sweep ends when its last audit has been handed to a thread.    *)
AllTaken(w) == w.todo = {}
AllDone(w) == w.todo = {} /\ w.running = << >>

(* No thread is at work before the pool is there nor once it is left, which   *)
(* waits for all audits; what raises outside it fails the job.                *)
OutsidePool(w) ==
    /\ w.running = << >>
    /\ w.todo = {} \/ (w.audited = << >> /\ w.skipped = {})
Completes(e) ==
    /\ Auditing(e)
    /\ \/ AllDone(worker[e]) /\ worker' = [worker EXCEPT ![e].outcome = "SUCCEEDED"] /\ UNCHANGED faults
       \/ /\ OutsidePool(worker[e]) /\ Fault
          /\ worker' = [worker EXCEPT ![e].outcome = "FAILED"]
    /\ UNCHANGED <<browser, store, event, history, clock, abandoned>>

(* A result that cannot be written is followed by a failure.                  *)
Persists(e) ==
    /\ worker[e] # None /\ worker[e].outcome \in {"SUCCEEDED", "FAILED"}
    /\ LET w == worker[e]
           report == IF w.outcome = "FAILED" THEN NoReport
                     ELSE [scope |-> w.scope, audited |-> w.audited, skipped |-> w.skipped]
       IN  \/ /\ store' = [store EXCEPT ![w.job] = Object(w.outcome, report)]
              /\ worker' = [worker EXCEPT ![e].outcome = "returned"]
              /\ UNCHANGED faults
           \/ /\ w.outcome = "SUCCEEDED" /\ Fault
              /\ worker' = [worker EXCEPT ![e].outcome = "FAILED"]
              /\ UNCHANGED store
    /\ UNCHANGED <<browser, event, history, clock, abandoned>>

Returns(e) ==
    /\ worker[e] # None /\ worker[e].outcome = "returned"
    /\ worker' = [worker EXCEPT ![e] = None]
    /\ event' = Without(event, worker[e].job)
    /\ UNCHANGED <<browser, store, history, clock, abandoned, faults>>

(* A worker times out or its environment fails; /tmp may survive.             *)
Dies(e) ==
    /\ worker[e] # None
    /\ Fault
    /\ LET j == worker[e].job IN
       IF event[j] < Attempts THEN UNCHANGED <<event, abandoned>>
       ELSE event' = Without(event, j) /\ abandoned' = abandoned \cup {j}
    /\ worker' = [worker EXCEPT ![e] = None]
    /\ history' \in {history, [history EXCEPT ![e] = [a \in Accounts |-> << >>]]}
    /\ UNCHANGED <<browser, store, clock>>

----------------------------------------------------------------------------

Page == Starts \/ \E q \in Polls : PollSends(q) \/ PollReads(q) \/ PollArrives(q)
Worker(e) ==
    \/ Begins(e) \/ Completes(e) \/ Persists(e) \/ Returns(e)
    \/ \E a \in Accounts :
         TakesAccount(e, a) \/ PassesOver(e, a) \/ FinishesAccount(e, a) \/ AuditRaises(e, a)

Next == Runs \/ Page \/ \E e \in Envs : Worker(e) \/ Dies(e)

Spec == Init /\ [][Next]_vars
FairSpec ==
    /\ Spec
    /\ WF_vars(Starts)
    /\ \A q \in Polls : WF_vars(PollReads(q) \/ PollArrives(q))
    /\ WF_vars(\E q \in Polls : PollSends(q))
    /\ WF_vars(\E e \in Envs : Worker(e))

----------------------------------------------------------------------------

(* A page that waits for a check comes to show its end, although the answer   *)
(* is written by another invocation, a call fails and workers die and are     *)
(* run again; unless Lambda gives the job up (handler _start, _run_audit).    *)
PageSettles == page.state = "RUNNING" ~> page.state # "RUNNING" \/ page.job \in abandoned

Reports == {store[j].report : j \in {i \in Jobs : store[i] # None /\ store[i].state = "SUCCEEDED"}}

(* Every account of the Organization is in the report of a sweep exactly once,*)
(* audited or skipped, whatever order the threads finish in and whichever of  *)
(* them fail (audit_organization).                                            *)
SweepAccounts ==
    \A r \in Reports : r.scope = "org" =>
        /\ DOMAIN r.audited \cup r.skipped = Accounts
        /\ DOMAIN r.audited \cap (r.skipped \cup Inactive) = {}

(* An audit is compared with the latest one on record that began before it,   *)
(* never with itself, also when the sweep before it was cut short and ran     *)
(* again (load_previous_run, record_run).                                     *)
ComparedWithLatest ==
    \A r \in Reports : r.scope = "org" =>
        \A a \in DOMAIN r.audited : LET f == r.audited[a] IN
            IF f.known = {} THEN f.previous = None
            ELSE f.previous \in f.known \ {f.started} /\ \A s \in f.known : s <= f.previous
====
