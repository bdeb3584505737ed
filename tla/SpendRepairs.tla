------------------------------ MODULE SpendRepairs ------------------------------
(***************************************************************************)
(* apply-spend-repairs.ts: a reviewed plan of corrections, each a          *)
(* conditional transaction on a request's rows followed by an object of    *)
(* ledger lines under a fixed key.  Runs of the same plan may overlap, die *)
(* anywhere and be started again.                                          *)
(***************************************************************************)
EXTENDS SpendTable

CONSTANTS
  Plan,    \* sequence of [id, req, known, source]: known says that the rows
           \* list the request, source is a legacy row the request moves from
  Runs     \* operators running the script

(* Ids are unique, which the script checks; that what it prices was not    *)
(* priced, and is corrected once, is up to those who review the plan.      *)
ASSUME PlanAssumption ==
  /\ DOMAIN Plan = 1..Len(Plan) /\ Len(Plan) \in Nat \ {0}
  /\ \A n \in DOMAIN Plan :
       /\ Plan[n].req \in Requests /\ Plan[n].known \in BOOLEAN
       /\ Plan[n].known => Plan[n].req \in NoPrice
       /\ Plan[n].source = Nil \/ ~Plan[n].known
       /\ Plan[n].id # Nil
       /\ \A m \in DOMAIN Plan :
            Plan[m].id = Plan[n].id \/ Plan[m].req = Plan[n].req => m = n

VARIABLES
  run,        \* what each operator's run is about to do
  objects,    \* corrections whose ledger object exists
  completed   \* the plan's completed.json exists

repairVars == <<run, objects, completed>>

NotRunning == [pc |-> "idle", n |-> 0]
RepairInit == run = [o \in Runs |-> NotRunning] /\ objects = {} /\ completed = FALSE

ToFix(c)   == ItemsOf(c.req)
Usd(c)     == Req[c.req].usd
Fixed(r, c) ==
  [r EXCEPT !.spend = @ + Usd(c), !.fixes = @ \union {c.id},
            !.regions[Req[c.req].region] = @ + Usd(c),
            !.fix = c.id, !.fixDay = Req[c.req].day,
            !.last = IF @ = 0 THEN Req[c.req].day ELSE @,
            !.unpriced = @ - IF c.known THEN 1 ELSE 0,
            !.reqs = IF c.known THEN @ ELSE @ \union {c.req}]
(* Mutant of Fixable: processedRequestIds is not looked at. *)
FixableOnce(r, c) == c.id \notin r.fixes /\ (c.known => r.unpriced >= 1)
Fixable(r, c) ==
  /\ c.id \notin r.fixes
  /\ c.known <=> c.req \in r.reqs
  /\ c.known => r.unpriced >= 1
SourceUntouched(c) ==
  c.source # Nil => /\ rows[c.source] = OldRows[c.source]
                    /\ c.source \in DOMAIN OldRows

At(o, pc)   == run[o].pc = pc
Goto(o, pc) == run' = [run EXCEPT ![o].pc = pc]
Ends(o)     == run' = [run EXCEPT ![o] = NotRunning]
Current(o)  == Plan[run[o].n]
NextCorrection(o) ==
  IF run[o].n < Len(Plan)
  THEN run' = [run EXCEPT ![o] = [pc |-> "check", n |-> @.n + 1]]
  ELSE Goto(o, "complete")

(* A plan is of usage there has been.                                      *)
Historical == \A n \in DOMAIN Plan : Req[Plan[n].req].day <= today
RepairStarts(o) ==
  /\ At(o, "idle") /\ ~completed /\ Historical
  /\ run' = [run EXCEPT ![o] = [pc |-> "check", n |-> 1]]
  /\ UNCHANGED <<tableVars, objects, completed>>

(* Mutant of RepairChecks: what is marked is taken to be in the ledger. *)
RepairSkips(o) ==
  LET c == Current(o)
      marked == {i \in ToFix(c) : c.id \in rows[i].fixes}
  IN /\ At(o, "check")
     /\ \/ marked = ToFix(c) /\ NextCorrection(o)
        \/ marked = {} /\ Goto(o, "write")
        \/ marked \notin {{}, ToFix(c)} /\ Ends(o)
     /\ UNCHANGED <<tableVars, objects, completed>>
(* All marked: only the ledger object may be missing.  Some: the run stops.*)
RepairChecks(o) ==
  LET c == Current(o)
      marked == {i \in ToFix(c) : c.id \in rows[i].fixes}
  IN /\ At(o, "check")
     /\ \/ marked = ToFix(c) /\ Goto(o, "put")
        \/ marked = {} /\ Goto(o, "write")
        \/ marked \notin {{}, ToFix(c)} /\ Ends(o)
     /\ UNCHANGED <<tableVars, objects, completed>>

(* One transaction; a failed condition ends the run.                       *)
RepairWrites(o) ==
  LET c == Current(o) IN
  /\ At(o, "write")
  /\ IF (\A i \in ToFix(c) : Fixable(rows[i], c)) /\ SourceUntouched(c)
     THEN /\ Write([i \in ToFix(c) \union ({c.source} \ {Nil}) |->
                      IF i \in ToFix(c) THEN Fixed(rows[i], c) ELSE NoRow])
          /\ Goto(o, "put")
     ELSE Ends(o) /\ UNCHANGED <<rows, stream>>
  /\ UNCHANGED <<today, stamps, faults, objects, completed>>

(* putOnce: an object that exists already is left.                         *)
RepairPuts(o) ==
  /\ At(o, "put")
  /\ objects' = objects \union {Current(o).id}
  /\ NextCorrection(o)
  /\ UNCHANGED <<tableVars, completed>>

RepairCompletes(o) ==
  /\ At(o, "complete")
  /\ completed' = TRUE
  /\ Ends(o)
  /\ UNCHANGED <<tableVars, objects>>

RepairDies(o) ==
  /\ ~At(o, "idle") /\ faults < MaxFaults
  /\ faults' = faults + 1
  /\ Ends(o)
  /\ UNCHANGED <<today, rows, stream, stamps, objects, completed>>

RepairNext ==
  \E o \in Runs : \/ RepairStarts(o) \/ RepairChecks(o) \/ RepairWrites(o)
                  \/ RepairPuts(o) \/ RepairCompletes(o) \/ RepairDies(o)
================================================================================
