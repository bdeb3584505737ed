--------------------------------- MODULE Billing ---------------------------------
(***************************************************************************)
(* What metering promises about a bill, whatever its steps: a line of a    *)
(* request (its model, its inference profile, an identity lens) is charged *)
(* to at most one row and at most once, and no view of a request is        *)
(* charged before the model line that the others are views of.             *)
(***************************************************************************)
EXTENDS Naturals

CONSTANTS Requests, Rows, LineOf(_)
VARIABLES charges, total

HasLine(r, l) == \E row \in Rows : <<r, row>> \in charges /\ LineOf(row) = l

Init == charges = {} /\ total = [row \in Rows |-> 0]

Charge(r, row) ==
  /\ ~HasLine(r, LineOf(row))
  /\ LineOf(row) # "model" => HasLine(r, "model")
  /\ charges' = charges \union {<<r, row>>}
  /\ total' = [total EXCEPT ![row] = @ + 1]

Next == \E r \in Requests, row \in Rows : Charge(r, row)

Spec == Init /\ [][Next]_<<charges, total>>
================================================================================
