---- MODULE MCReadiness ----
(* A home account and two members, one of them suspended; two jobs and the    *)
(* environment of one worker at a time.                                       *)
EXTENDS Readiness
====
