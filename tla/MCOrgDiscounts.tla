----------------------------- MODULE MCOrgDiscounts ----------------------------
(* Instances of OrgDiscounts for TLC: a root with one unit below it, and   *)
(* accounts in the unit or directly below the root.                        *)
EXTENDS OrgDiscounts

CONSTANTS a1, a2, root, ou, x1, x2

Tree == {<<root, ou>>, <<root>>}
================================================================================
