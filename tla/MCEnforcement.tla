----------------------------- MODULE MCEnforcement -----------------------------
(* Instances of Enforcement for TLC. *)
EXTENDS Enforcement

CONSTANTS p1, m1, m2, any, x1, x2

MCWildOf   == [t \in Targets |-> any]
Attachable == [p \in Principals |-> "attach"]

(* Budgets: block at n dollars; the same with a rate limit, unlimited.     *)
Usd(n)    == [enabled |-> TRUE, unlimited |-> FALSE, rated |-> FALSE,
              blocks |-> TRUE, blockAt |-> n]
Rated     == [Usd(2) EXCEPT !.rated = TRUE]
Unlimited == [Usd(1) EXCEPT !.unlimited = TRUE]
AlertOnly == [Usd(1) EXCEPT !.blocks = FALSE]
Disabled  == [Usd(1) EXCEPT !.enabled = FALSE]
MCBudgets == {Usd(0), Usd(1), Usd(2), Rated, Unlimited, AlertOnly, Disabled}
EditBudgets == {Usd(1), Usd(2), Disabled}

(* Contents of the Budgets table, by target of the only principal.         *)
Table(f) == [k \in BudgetKeys |-> IF k[2] \in DOMAIN f THEN f[k[2]] ELSE NoBudget]
ExactOnly == {Table([t \in Targets |-> Usd(1)])}
(* Any exact budget against any wildcard budget.                           *)
Mixed == {Table([t \in {m1, any} |-> IF t = m1 THEN b ELSE w]) :
            b \in MCBudgets, w \in {Usd(1), Usd(2)}}

Uses(a, m, f, c) == [admin |-> a, manual |-> m, faults |-> f, crashes |-> c]
Manual   == Uses(0, 2, 0, 1)
Every    == Uses(1, 1, 1, 1)
================================================================================
