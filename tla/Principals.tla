------------------------------- MODULE Principals -------------------------------
(***************************************************************************)
(* What a principal's name says of the account it is of:                   *)
(* accountForDisplay.                                                      *)
(***************************************************************************)
CONSTANTS
  AccountOf(_),   \* account of a principal, Unknown unless it is an ARN
  Unknown         \* "(unknown)", and "(unattributed)" of a region
================================================================================
