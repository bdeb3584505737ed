------------------------------- MODULE BudgetRows -------------------------------
(***************************************************************************)
(* One item of the Budgets table and what each writer makes of it.  An     *)
(* item, a request body and a manifest entry are partial functions from    *)
(* field names to values: a field the code leaves undefined is not in the  *)
(* domain.  Fields: limit (limitUsd), unlimited, action, th (thresholds:   *)
(* "block" when the last one blocks, "warn" when none does), enabled, cond *)
(* (the session-tag condition), rpm (which stands for rpm, tpm and         *)
(* rateWindowSeconds) and source.                                          *)
(***************************************************************************)
EXTENDS Integers, Sequences, FiniteSets, TLC, Functions

CONSTANTS
  Principals, Targets,
  Wild,          \* the wildcard target all the targets fall under
  Keys,         \* (principal, target) pairs that budgets are written for
  NoRow,        \* no item under a key
  Null,         \* the JSON null a PUT clears a rate field with
  Accounts,
  AccountOf,    \* accountFromPrincipal: an account, or NoAccount
  NoAccount,
  Enforceable,  \* principals a deny can be attached to or conditioned on
  Attachable,   \* those whose ARN names an IAM user or role
  Tags          \* session-tag conditions

ASSUME KeysAssumption ==
  /\ Wild \in Targets
  /\ Keys \subseteq Principals \X Targets
  /\ AccountOf \in [Principals -> Accounts \union {NoAccount}]
  /\ NoAccount \notin Accounts
  /\ Attachable \subseteq Enforceable /\ Enforceable \subseteq Principals

FieldOf(r, f, d) == IF f \in DOMAIN r THEN r[f] ELSE d
Nulls(r)         == {f \in DOMAIN r : r[f] = Null}
Without(r, fs)   == Restrict(r, DOMAIN r \ fs)
Only(r, fs)      == Restrict(r, DOMAIN r \intersect fs)
(* Object spread: what f has, and what g has besides.                      *)
Over(f, g) ==
  [x \in DOMAIN f \union DOMAIN g |-> IF x \in DOMAIN f THEN f[x] ELSE g[x]]
WildKey(k)       == <<k[1], Wild>>

(* The values the validators let through: rates are positive, and only a   *)
(* rate can be null, in a body.  The limit of a POST is any number; those  *)
(* of a manifest and of the defaults are not negative.                     *)
Value ==
  [limit |-> Int, unlimited |-> BOOLEAN, enabled |-> BOOLEAN,
   action |-> {"alert", "deny"}, th |-> {"block", "warn"}, cond |-> Tags,
   rpm |-> Nat \ {0}, source |-> {"manifest", "default"}]
BodyValue == [Value EXCEPT !.rpm = @ \union {Null}]
Typed(r, value) ==
  /\ DOMAIN r \subseteq DOMAIN value
  /\ r = [f \in DOMAIN r |-> r[f]] /\ \A f \in DOMAIN r : r[f] \in value[f]
(* An entry as validateManifest returns it.                                *)
EntryTyped(m) == {"limit", "unlimited", "enabled"} \subseteq DOMAIN m /\ Typed(m, Value)
DefaultsTyped(d) ==
  /\ DOMAIN d \subseteq {"limit", "enabled", "rpm"} /\ Typed(d, Value)

Scalars ==
  Int \union BOOLEAN \union Value["action"] \union Value["th"] \union Value["source"] \union Tags

ASSUME ValuesAssumption ==
  /\ \A D \in SUBSET DOMAIN Value : NoRow \notin [D -> Scalars]
  /\ Null \notin Scalars /\ "none" \notin Tags

IsUnlimited(r) == FieldOf(r, "unlimited", FALSE)
(* resolveThresholds and blockThreshold: an explicit list wins over action.*)
Blocks(r) == IF "th" \in DOMAIN r THEN r.th = "block"
             ELSE FieldOf(r, "action", "deny") # "alert"

(***************************************************************************)
(* The budgets API.                                                        *)
(***************************************************************************)
HasRate(b) == "rpm" \in DOMAIN b /\ b.rpm # Null
(* What POST and PUT both refuse: only the body is looked at.              *)
BodyAccepted(b) ==
  IsUnlimited(b) => ~HasRate(b) /\ FieldOf(b, "th", "warn") # "block"
PrincipalAccepted(k, action) == action = "alert" \/ k[1] \in Enforceable
PostAccepted(k, b) ==
  /\ "limit" \in DOMAIN b
  /\ BodyAccepted(b)
  /\ PrincipalAccepted(k, FieldOf(b, "action", "deny"))
  /\ b.limit # 0 \/ "rpm" \in DOMAIN b \/ IsUnlimited(b)

PostRow(b) ==
  Over([limit |-> b.limit, action |-> FieldOf(b, "action", "deny"),
        enabled |-> FieldOf(b, "enabled", TRUE)],
       Only(Without(b, Nulls(b)),
            {"th", "cond", "rpm"} \union IF IsUnlimited(b) THEN {"unlimited"} ELSE {}))

PutAccepted(k, old, b) ==
  PrincipalAccepted(k, FieldOf(b, "action", FieldOf(old, "action", "deny")))
PutRow(old, b) == Without(Over(b, old), Nulls(b))

(* The edit form of the Budgets page: it sends every field, the unedited   *)
(* ones as they were when the row was read.                                *)
FormBody(row, edit) ==
  LET shown == [limit |-> row.limit, unlimited |-> IsUnlimited(row),
                th |-> IF Blocks(row) THEN "block" ELSE "warn",
                rpm |-> FieldOf(row, "rpm", Null),
                enabled |-> FieldOf(row, "enabled", TRUE)]
      sent  == Over(edit, shown)
  IN Over([action |-> IF IsUnlimited(sent) \/ sent.th # "block"
                      THEN "alert" ELSE "deny"], sent)

(***************************************************************************)
(* Manifests.  An entry always has unlimited, enabled and limit, which     *)
(* validateManifest fills in.                                              *)
(***************************************************************************)
EntryAccepted(m) ==
  /\ "limit" \in DOMAIN m \/ IsUnlimited(m)
  /\ IsUnlimited(m) => "rpm" \notin DOMAIN m /\ FieldOf(m, "th", "warn") # "block"
Entry(m) ==
  Over([unlimited |-> IsUnlimited(m), enabled |-> FieldOf(m, "enabled", TRUE),
        limit |-> IF IsUnlimited(m) THEN 0 ELSE m.limit],
       Only(m, {"th", "cond", "rpm"}))

EntryRow(m) ==
  Over([limit |-> m.limit, enabled |-> m.enabled, source |-> "manifest",
        action |-> IF ~m.unlimited /\ FieldOf(m, "th", "none") = "block"
                   THEN "deny" ELSE "alert"],
       Only(m, {"th", "cond", "rpm"} \union IF m.unlimited THEN {"unlimited"} ELSE {}))

(* Mutant of SameBudget: the session-tag condition is not compared either. *)
SameButCondition(m, r) ==
  /\ m.unlimited = IsUnlimited(r)
  /\ m.unlimited \/ m.limit = FieldOf(r, "limit", 0)
  /\ m.enabled = FieldOf(r, "enabled", TRUE)
  /\ FieldOf(m, "th", "none") = FieldOf(r, "th", "none")
  /\ FieldOf(m, "rpm", 0) = FieldOf(r, "rpm", 0)
(* action and source are not compared.                                     *)
SameBudget(m, r) ==
  /\ m.unlimited = IsUnlimited(r)
  /\ m.unlimited \/ m.limit = FieldOf(r, "limit", 0)
  /\ m.enabled = FieldOf(r, "enabled", TRUE)
  /\ FieldOf(m, "th", "none") = FieldOf(r, "th", "none")
  /\ FieldOf(m, "cond", "none") = FieldOf(r, "cond", "none")
  /\ FieldOf(m, "rpm", 0) = FieldOf(r, "rpm", 0)

(* What the Manifest page writes into the editor for a row.                *)
Exported(r) ==
  Entry(Over(Over([enabled |-> r.enabled],
                  IF IsUnlimited(r) THEN [unlimited |-> TRUE]
                  ELSE [limit |-> FieldOf(r, "limit", 0)]),
             Only(r, {"th"})))

(***************************************************************************)
(* The default-budget sentinel.                                            *)
(***************************************************************************)
NoDefaults == [enabled |-> FALSE, limit |-> 0]   \* a missing row reads so
DefaultsPut(old, b) ==
  Without(Over([enabled |-> FieldOf(b, "enabled", FieldOf(old, "enabled", FALSE)),
                limit |-> FieldOf(b, "limit", FieldOf(old, "limit", 0))],
               Over(Only(b, {"rpm"}), old)),
          Nulls(b))
DefaultsChanged(old, d) ==
  \/ old = NoRow
  \/ FieldOf(d, "enabled", FALSE) # old.enabled
  \/ FieldOf(d, "limit", old.limit) # old.limit
  \/ FieldOf(d, "rpm", FieldOf(old, "rpm", Null)) # FieldOf(old, "rpm", Null)
DefaultRow(d) ==
  Over([limit |-> d.limit, enabled |-> TRUE, action |-> "deny", th |-> "block",
        source |-> "default"], Only(d, {"rpm"}))
================================================================================
