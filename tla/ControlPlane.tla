------------------------------ MODULE ControlPlane ------------------------------
(***************************************************************************)
(* The Budgets table with its writers and its mirror in AWS Budgets.       *)
(***************************************************************************)
EXTENDS ActionSync

vars == <<apiVars, syncVars>>

Init == ApiInit /\ SyncInit
Next == (ApiNext /\ UNCHANGED syncVars) \/ Sync \/ NextMonth

(* The event source mapping polls the stream for as long as it has records.*)
Spec == Init /\ [][Next]_vars /\ WF_vars(Sync)

Mirrored(k) ==
  LET row == budget[k] IN
  IF Mirrors(row)
  THEN Amount(row) => /\ native[k] = row.limit
                      /\ ActionDue(k, row) => actions[k] # {}
  ELSE native[k] = NoRow /\ actions[k] = {}

(* While no call has failed, AWS Budgets holds exactly the enabled limited *)
(* budgets, with their limits and with an action where they block, as soon *)
(* as the stream is drained: whatever the order in which administrators,   *)
(* manifests and the meter wrote, toggled and deleted rows.                *)
MirrorConverges ==
  stream = <<>> /\ faults = 0 => \A k \in Keys : Mirrored(k)

(* ... and it is drained: once the writers stop, every row is mirrored and *)
(* stays so, unless a call failed.                                         *)
MirrorCatchesUp == <>[](faults > 0 \/ \A k \in Keys : Mirrored(k))

(* A default budget never takes the place of a row: whatever the meter     *)
(* read, and however long before its write, it only fills absent keys.     *)
DefaultReplacesNothing ==
  [][\A k \in Keys : lookup # Idle /\ lookup' = Idle /\ budget[k] # NoRow
                       => budget'[k] = budget[k]]_vars

(* A principal whose wildcard budget the meter could see when it looked is *)
(* not given a default budget that shadows it, except after a read that    *)
(* failed (the source counts a failed read as no budget).                  *)
DefaultRespectsWildcard ==
  [][\A k \in Keys :
       /\ lookup # Idle /\ lookup.key = k /\ lookup.wild
       /\ Covered(k) /\ lookup' = Idle /\ budget'[k] # budget[k]
       => faults > 0]_vars

Says(m, r) ==
  /\ IsUnlimited(r) = m.unlimited /\ FieldOf(r, "enabled", TRUE) = m.enabled
  /\ m.unlimited \/ FieldOf(r, "limit", 0) = m.limit
  /\ \A f \in {"th", "cond", "rpm"} : FieldOf(r, f, Null) = FieldOf(m, f, Null)

(* A manifest run that ends, a run again after one that died half way      *)
(* included, leaves every listed budget as the manifest says and every     *)
(* removal gone, unless another writer interfered.                         *)
ManifestTakesHold ==
  job.op = "done" /\ job.alone =>
    LET m == editor.m IN
    /\ \A k \in Listed(m) \ m.delete : budget[k] # NoRow /\ Says(m.budgets[k], budget[k])
    /\ \A k \in m.delete \ Listed(m) : budget[k] = NoRow
================================================================================
