---------------------------- MODULE ControlPlaneProofs ---------------------------
(* Proofs about ControlPlane, for every value of its constants. *)
EXTENDS ControlPlane, TLAPS

Rows == {r \in UNION {[D -> Scalars] : D \in SUBSET DOMAIN Value} :
           Typed(r, Value) /\ "enabled" \in DOMAIN r}

(* The fields of a budget row and the values each may take, in a stored row and in
   a request. *)
LEMMA Fields ==
  /\ DOMAIN Value = {"limit", "unlimited", "enabled", "action", "th", "cond", "rpm", "source"}
  /\ DOMAIN BodyValue = DOMAIN Value
  /\ Value["limit"] = Int /\ Value["unlimited"] = BOOLEAN /\ Value["enabled"] = BOOLEAN
  /\ Value["action"] = {"alert", "deny"} /\ Value["th"] = {"block", "warn"}
  /\ Value["cond"] = Tags /\ Value["rpm"] = Nat \ {0}
  /\ Value["source"] = {"manifest", "default"}
  /\ BodyValue["rpm"] = (Nat \ {0}) \union {Null}
  /\ \A f \in DOMAIN Value : f # "rpm" => BodyValue[f] = Value[f]
BY DEF Value, BodyValue

(* A stored row is one whose fields have their types and that says whether it is
   enabled. *)
LEMMA InRows ==
  ASSUME NEW r
  PROVE  r \in Rows <=> Typed(r, Value) /\ "enabled" \in DOMAIN r
<1>1. \A f \in DOMAIN Value : Value[f] \subseteq Scalars
  BY Fields DEF Scalars
<1>2. ASSUME Typed(r, Value)
      PROVE  r \in UNION {[D -> Scalars] : D \in SUBSET DOMAIN Value}
  <2>1. r \in [DOMAIN r -> Scalars]
    BY <1>1, <1>2 DEF Typed
  <2>. QED BY <1>2, <2>1 DEF Typed
<1>. QED BY <1>2 DEF Rows

(* The mark of an absent row is no row. *)
LEMMA NoRowIsNone == NoRow \notin Rows
BY ValuesAssumption DEF Rows

(* Laying f over g takes the fields of f, and of g those that f lacks. *)
LEMMA Overlay ==
  ASSUME NEW f, NEW g
  PROVE  /\ DOMAIN Over(f, g) = DOMAIN f \union DOMAIN g
         /\ \A x \in DOMAIN f : Over(f, g)[x] = f[x]
         /\ \A x \in DOMAIN g \ DOMAIN f : Over(f, g)[x] = g[x]
BY DEF Over
(* What is laid over something is a function on its domain. *)
LEMMA OverlayFcn ==
  ASSUME NEW f, NEW g
  PROVE  Over(f, g) = [x \in DOMAIN Over(f, g) |-> Over(f, g)[x]]
BY DEF Over
(* Typed fields laid over typed fields are typed. *)
LEMMA OverlayTyped ==
  ASSUME NEW value, NEW f, NEW g, Typed(f, value), Typed(g, value)
  PROVE  Typed(Over(f, g), value)
<1>1. DOMAIN f \subseteq DOMAIN value /\ DOMAIN g \subseteq DOMAIN value
  BY DEF Typed
<1>2. DOMAIN Over(f, g) \subseteq DOMAIN value
  BY <1>1 DEF Over
<1>3. \A x \in DOMAIN f : f[x] \in value[x]
  BY DEF Typed
<1>4. \A x \in DOMAIN g : g[x] \in value[x]
  BY DEF Typed
<1>5. \A x \in DOMAIN Over(f,g) : Over(f, g)[x] \in value[x]
  BY <1>3, <1>4 DEF Over
<1>. QED BY <1>5, <1>2, OverlayFcn DEF Typed

(* A part of a row is typed as the row is.                                 *)
LEMMA PartTyped ==
  ASSUME NEW value, NEW r, Typed(r, value), NEW D, D \subseteq DOMAIN r
  PROVE  Typed(Restrict(r, D), value) /\ DOMAIN Restrict(r, D) = D
BY DEF Typed, Restrict

(* A selection of the fields of a typed row is typed and keeps their values. *)
LEMMA OnlyTyped ==
  ASSUME NEW value, NEW r, Typed(r, value), NEW fs
  PROVE  /\ Typed(Only(r, fs), value)
         /\ DOMAIN Only(r, fs) = DOMAIN r \intersect fs
         /\ \A f \in DOMAIN r \intersect fs : Only(r, fs)[f] = r[f]
         /\ Typed(Without(r, fs), value)
         /\ DOMAIN Without(r, fs) = DOMAIN r \ fs
         /\ \A f \in DOMAIN r \ fs : Without(r, fs)[f] = r[f]
BY PartTyped DEF Only, Without, Restrict

(* A body without its nulls is typed as a row.                             *)
LEMMA NullsRemoved ==
  ASSUME NEW b, Typed(b, BodyValue)
  PROVE  Typed(Without(b, Nulls(b)), Value) /\ Nulls(b) \subseteq {"rpm"}
<1>1. \A f \in DOMAIN Value : Null \notin Value[f]
  BY Fields, ValuesAssumption DEF Scalars
<1>2. Nulls(b) \subseteq {"rpm"}
  BY <1>1, Fields DEF Typed, Nulls
<1>3. DOMAIN Without(b, Nulls(b)) = DOMAIN b \ Nulls(b)
  BY OnlyTyped
<1>4. ASSUME NEW f \in DOMAIN b \ Nulls(b) PROVE b[f] \in Value[f]
  BY <1>1, Fields DEF Typed, Nulls
<1>5. \A f \in DOMAIN b \ Nulls(b) : Without(b, Nulls(b))[f] = b[f]
  BY DEF Without, Restrict
<1>6. DOMAIN b \subseteq DOMAIN Value
  BY Fields DEF Typed
<1>7. Without(b, Nulls(b)) = [f \in DOMAIN Without(b, Nulls(b)) |-> Without(b, Nulls(b))[f]]
  BY DEF Without, Restrict
<1>. QED BY <1>2, <1>3, <1>4, <1>5, <1>6, <1>7 DEF Typed

(* What each writer makes of a row is a row.                               *)
LEMMA PostRowTyped ==
  ASSUME NEW k, NEW b, Typed(b, BodyValue), PostAccepted(k, b)
  PROVE  PostRow(b) \in Rows
<1>. DEFINE fixed == [limit |-> b.limit, action |-> FieldOf(b, "action", "deny"),
                      enabled |-> FieldOf(b, "enabled", TRUE)]
            rest == Only(Without(b, Nulls(b)),
                         {"th", "cond", "rpm"} \union IF IsUnlimited(b) THEN {"unlimited"} ELSE {})
<1>1. b.limit \in Int
  BY Fields DEF PostAccepted, Typed
<1>2. FieldOf(b, "action", "deny") \in {"alert", "deny"}
  BY Fields DEF FieldOf, Typed
<1>3. FieldOf(b, "enabled", TRUE) \in BOOLEAN
  BY Fields DEF FieldOf, Typed
<1>4. Typed(fixed, Value)
  <2>1. DOMAIN fixed = {"limit", "action", "enabled"}
    OBVIOUS
  <2>2. /\ fixed.limit \in Value["limit"] /\ fixed.action \in Value["action"]
        /\ fixed.enabled \in Value["enabled"]
    BY <1>1, <1>2, <1>3, Fields
  <2>3. fixed = [f \in DOMAIN fixed |-> fixed[f]]
    OBVIOUS
  <2>. QED BY <2>1, <2>2, <2>3, Fields DEF Typed
<1>5. Typed(rest, Value)
  BY NullsRemoved, OnlyTyped
<1>6. Typed(Over(fixed, rest), Value)
  BY <1>4, <1>5, OverlayTyped
<1>7. "enabled" \in DOMAIN Over(fixed, rest)
  BY DEF Over
<1>8. PostRow(b) = Over(fixed, rest)
  BY DEF PostRow
<1>. QED BY <1>6, <1>7, <1>8, InRows
(* The row that a PUT of a budget builds is a row. *)
LEMMA PutRowTyped ==
  ASSUME NEW old \in Rows, NEW b, Typed(b, BodyValue)
  PROVE  PutRow(old, b) \in Rows
<1>1. Typed(old, Value) /\ "enabled" \in DOMAIN old
  BY InRows
<1>2. Typed(old, BodyValue)
  BY <1>1, Fields DEF Typed
<1>. DEFINE both == Over(b, old)
<1>3. Typed(both, BodyValue)
  BY <1>2, OverlayTyped
<1>4. DOMAIN both = DOMAIN b \union DOMAIN old
  BY DEF Over
<1>5. Null \notin Nat /\ Null \notin Int /\ \A f \in DOMAIN Value : Null \notin Value[f]
  BY Fields, ValuesAssumption DEF Scalars
<1>6. Nulls(both) = Nulls(b)
  <2>1. \A f \in DOMAIN both : both[f] = IF f \in DOMAIN b THEN b[f] ELSE old[f]
    BY DEF Over
  <2>2. \A f \in DOMAIN old : old[f] # Null
    BY <1>1, <1>5 DEF Typed
  <2>. QED BY <2>1, <2>2, <1>4 DEF Nulls
<1>7. PutRow(old, b) = Without(both, Nulls(both))
  BY <1>6 DEF PutRow
<1>8. Typed(PutRow(old, b), Value) /\ Nulls(both) \subseteq {"rpm"}
  BY <1>3, <1>7, NullsRemoved
<1>9. "enabled" \in DOMAIN Without(both, Nulls(both))
  <2>1. DOMAIN Without(both, Nulls(both)) = DOMAIN both \ Nulls(both)
    BY <1>3, OnlyTyped
  <2>. QED BY <1>1, <1>4, <1>8, <2>1
<1>. QED BY <1>7, <1>8, <1>9, InRows
(* The body that the budget form sends is one the route accepts. *)
LEMMA FormBodyTyped ==
  ASSUME NEW row \in Rows, "limit" \in DOMAIN row, NEW edit, Typed(edit, BodyValue)
  PROVE  Typed(FormBody(row, edit), BodyValue)
<1>. DEFINE shown == [limit |-> row.limit, unlimited |-> IsUnlimited(row),
                      th |-> IF Blocks(row) THEN "block" ELSE "warn",
                      rpm |-> FieldOf(row, "rpm", Null),
                      enabled |-> FieldOf(row, "enabled", TRUE)]
            sent  == Over(edit, shown)
            act   == [action |-> IF IsUnlimited(sent) \/ sent.th # "block"
                                 THEN "alert" ELSE "deny"]
<1>1. Typed(row, Value)
  BY InRows
<1>2. /\ row.limit \in Int /\ IsUnlimited(row) \in BOOLEAN
      /\ FieldOf(row, "rpm", Null) \in (Nat \ {0}) \union {Null}
      /\ FieldOf(row, "enabled", TRUE) \in BOOLEAN
  BY <1>1, Fields DEF Typed, IsUnlimited, FieldOf
<1>3. Typed(shown, BodyValue)
  <2>1. DOMAIN shown = {"limit", "unlimited", "th", "rpm", "enabled"}
    OBVIOUS
  <2>2. /\ shown.limit \in BodyValue["limit"]
        /\ shown.unlimited \in BodyValue["unlimited"]
        /\ shown.th \in BodyValue["th"]
        /\ shown.rpm \in BodyValue["rpm"]
        /\ shown.enabled \in BodyValue["enabled"]
    BY <1>2, Fields
  <2>3. shown = [f \in DOMAIN shown |-> shown[f]]
    OBVIOUS
  <2>. QED BY <2>1, <2>2, <2>3, Fields DEF Typed
<1>4. Typed(sent, BodyValue)
  BY <1>3, OverlayTyped
<1>5. Typed(act, BodyValue)
  <2>1. DOMAIN act = {"action"} /\ act = [f \in DOMAIN act |-> act[f]]
    OBVIOUS
  <2>2. act.action \in {"alert", "deny"}
    OBVIOUS
  <2>. HIDE DEF act
  <2>. QED BY <2>1, <2>2, Fields DEF Typed
<1>6. FormBody(row, edit) = Over(act, sent)
  BY DEF FormBody
<1>. HIDE DEF act, sent, shown
<1>. QED BY <1>4, <1>5, <1>6, OverlayTyped
(* The enable switch makes a row of any row, and of none. *)
LEMMA ToggledTyped ==
  ASSUME NEW next \in BOOLEAN
  PROVE  /\ [enabled |-> next] \in Rows
         /\ \A row \in Rows : Over([enabled |-> next], row) \in Rows
<1>. DEFINE set == [enabled |-> next]
<1>1. DOMAIN set = {"enabled"} /\ set = [f \in DOMAIN set |-> set[f]] /\ set.enabled \in BOOLEAN
  OBVIOUS
<1>. HIDE DEF set
<1>2. Typed(set, Value)
  BY <1>1, Fields DEF Typed
<1>3. ASSUME NEW row \in Rows PROVE Over(set, row) \in Rows
  <2>1. Typed(Over(set, row), Value)
    BY <1>2, InRows, OverlayTyped
  <2>2. "enabled" \in DOMAIN Over(set, row)
    BY <1>1 DEF Over
  <2>. QED BY <2>1, <2>2, InRows
<1>4. set \in Rows
  BY <1>1, <1>2, InRows
<1>. QED BY <1>3, <1>4 DEF set
(* The row that the apply script builds from an entry of the manifest is a row. *)
LEMMA EntryRowTyped ==
  ASSUME NEW m, EntryTyped(m)
  PROVE  EntryRow(m) \in Rows
<1>. DEFINE fixed == [limit |-> m.limit, enabled |-> m.enabled, source |-> "manifest",
                      action |-> IF ~m.unlimited /\ FieldOf(m, "th", "none") = "block"
                                 THEN "deny" ELSE "alert"]
            rest == Only(m, {"th", "cond", "rpm"} \union IF m.unlimited THEN {"unlimited"} ELSE {})
<1>1. m.limit \in Int /\ m.enabled \in BOOLEAN
  BY Fields DEF EntryTyped, Typed
<1>2. Typed(fixed, Value)
  <2>1. DOMAIN fixed = {"limit", "enabled", "source", "action"}
    OBVIOUS
  <2>2. \A f \in DOMAIN fixed : fixed[f] \in Value[f]
    BY <1>1, Fields
  <2>3. fixed = [f \in DOMAIN fixed |-> fixed[f]]
    OBVIOUS
  <2>. QED BY <2>1, <2>2, <2>3, Fields DEF Typed
<1>3. Typed(rest, Value)
  BY OnlyTyped DEF EntryTyped
<1>4. Typed(Over(fixed, rest), Value) /\ "enabled" \in DOMAIN Over(fixed, rest)
  <2>1. "enabled" \in DOMAIN fixed
    OBVIOUS
  <2>. HIDE DEF fixed, rest
  <2>2. Typed(Over(fixed, rest), Value)
    BY <1>2, <1>3, OverlayTyped
  <2>3. DOMAIN Over(fixed, rest) = DOMAIN fixed \union DOMAIN rest
    BY DEF Over
  <2>. QED BY <2>1, <2>2, <2>3
<1>5. EntryRow(m) = Over(fixed, rest)
  BY DEF EntryRow
<1>. QED BY <1>4, <1>5, InRows

(* What an entry is written as says what the entry says, and so does a row *)
(* the diff counts as unchanged.                                           *)
LEMMA EntryRowSays ==
  ASSUME NEW m, EntryTyped(m)
  PROVE  Says(m, EntryRow(m))
<1>. DEFINE fixed == [limit |-> m.limit, enabled |-> m.enabled, source |-> "manifest",
                      action |-> IF ~m.unlimited /\ FieldOf(m, "th", "none") = "block"
                                 THEN "deny" ELSE "alert"]
            kept == {"th", "cond", "rpm"} \union IF m.unlimited THEN {"unlimited"} ELSE {}
            r    == EntryRow(m)
<1>1. r = Over(fixed, Only(m, kept))
  BY DEF EntryRow
<1>2. DOMAIN Only(m, kept) = DOMAIN m \intersect kept
      /\ \A f \in DOMAIN m \intersect kept : Only(m, kept)[f] = m[f]
  BY DEF Only, Restrict
<1>3. DOMAIN r = DOMAIN fixed \union (DOMAIN m \intersect kept)
      /\ r = [f \in DOMAIN r |-> IF f \in DOMAIN fixed THEN fixed[f] ELSE Only(m, kept)[f]]
  BY <1>1, <1>2 DEF Over
<1>4. DOMAIN fixed = {"limit", "enabled", "source", "action"}
      /\ fixed.limit = m.limit /\ fixed.enabled = m.enabled
  OBVIOUS
<1>5. \A f \in {"th", "cond", "rpm"} : f \in DOMAIN r <=> f \in DOMAIN m
  BY <1>3, <1>4
<1>6. \A f \in {"th", "cond", "rpm"} : f \in DOMAIN m => r[f] = m[f]
  BY <1>2, <1>3, <1>4
<1>7. m.unlimited \in BOOLEAN /\ {"limit", "unlimited", "enabled"} \subseteq DOMAIN m
  BY Fields DEF EntryTyped, Typed
<1>8. "unlimited" \in DOMAIN r <=> m.unlimited
  BY <1>3, <1>4, <1>7
<1>9. m.unlimited => r.unlimited = m.unlimited
  BY <1>2, <1>3, <1>4, <1>7
<1>10. r.limit = m.limit /\ r.enabled = m.enabled /\ {"limit", "enabled"} \subseteq DOMAIN r
  BY <1>3, <1>4
<1>. HIDE DEF r, fixed, kept
<1>11. IsUnlimited(r) = m.unlimited
  BY <1>7, <1>8, <1>9 DEF IsUnlimited, FieldOf
<1>12. FieldOf(r, "enabled", TRUE) = m.enabled /\ FieldOf(r, "limit", 0) = m.limit
  BY <1>10 DEF FieldOf
<1>13. \A f \in {"th", "cond", "rpm"} : FieldOf(r, f, Null) = FieldOf(m, f, Null)
  BY <1>5, <1>6 DEF FieldOf
<1>14. Says(m, r)
  BY <1>11, <1>12, <1>13 DEF Says
<1>. QED BY <1>14 DEF r
(* A row that the apply script compares as equal to its entry says what the entry
   says. *)
LEMMA SameSays ==
  ASSUME NEW m, EntryTyped(m), NEW r \in Rows, SameBudget(m, r)
  PROVE  Says(m, r)
<1>1. Typed(r, Value) /\ Typed(m, Value)
  BY InRows DEF EntryTyped
<1>2. "none" \notin Value["th"] /\ "none" \notin Value["cond"] /\ 0 \notin Value["rpm"]
  BY Fields, ValuesAssumption
<1>3. "none" \notin Value["th"] =>
        FieldOf(r, "th", Null) = FieldOf(m, "th", Null)
  BY <1>1 DEF SameBudget, FieldOf, Typed
<1>4. "none" \notin Value["cond"] =>
        FieldOf(r, "cond", Null) = FieldOf(m, "cond", Null)
  BY <1>1 DEF SameBudget, FieldOf, Typed
<1>5. FieldOf(r, "rpm", Null) = FieldOf(m, "rpm", Null)
  BY <1>1, <1>2 DEF SameBudget, FieldOf, Typed
<1>6. \A f \in {"th", "cond", "rpm"} : FieldOf(r, f, Null) = FieldOf(m, f, Null)
  BY <1>2, <1>3, <1>4, <1>5
<1>. QED BY <1>6 DEF Says, SameBudget
(* An exported row is an entry that the manifest may hold. *)
LEMMA ExportedTyped ==
  ASSUME NEW r \in Rows
  PROVE  EntryTyped(Exported(r))
<1>. DEFINE en == [enabled |-> r.enabled]
            li == IF IsUnlimited(r) THEN [unlimited |-> TRUE]
                  ELSE [limit |-> FieldOf(r, "limit", 0)]
            m  == Over(Over(en, li), Only(r, {"th"}))
            fixed == [unlimited |-> IsUnlimited(m), enabled |-> FieldOf(m, "enabled", TRUE),
                      limit |-> IF IsUnlimited(m) THEN 0 ELSE m.limit]
<1>1. Typed(r, Value) /\ r.enabled \in BOOLEAN
  BY InRows, Fields DEF Typed
<1>2. Typed(en, Value)
  <2>1. DOMAIN en = {"enabled"} /\ en = [f \in DOMAIN en |-> en[f]] /\ en.enabled = r.enabled
    OBVIOUS
  <2>. HIDE DEF en
  <2>. QED BY <1>1, <2>1, Fields DEF Typed
<1>3. Typed(li, Value) /\ (DOMAIN li = {"unlimited"} \/ DOMAIN li = {"limit"})
      /\ (DOMAIN li = {"unlimited"} => li.unlimited = TRUE)
  <2>1. CASE IsUnlimited(r)
    <3>1. DOMAIN li = {"unlimited"} /\ li = [f \in DOMAIN li |-> li[f]] /\ li.unlimited = TRUE
      BY <2>1
    <3>. HIDE DEF li
    <3>2. li.unlimited \in BOOLEAN
      BY <3>1
    <3>3. Typed(li, Value)
      BY <3>1, <3>2, Fields DEF Typed
    <3>. QED BY <3>1, <3>3
  <2>2. CASE ~IsUnlimited(r)
    <3>1. DOMAIN li = {"limit"} /\ li = [f \in DOMAIN li |-> li[f]] /\ li.limit = FieldOf(r, "limit", 0)
      BY <2>2
    <3>2. FieldOf(r, "limit", 0) \in Int
      BY <1>1, Fields DEF Typed, FieldOf
    <3>. HIDE DEF li
    <3>3. Typed(li, Value)
      BY <3>1, <3>2, Fields DEF Typed
    <3>4. {"limit"} # {"unlimited"}
      OBVIOUS
    <3>. QED BY <3>1, <3>3, <3>4
  <2>. HIDE DEF li
  <2>. QED BY <2>1, <2>2
<1>4. DOMAIN en = {"enabled"}
  OBVIOUS
<1>. HIDE DEF en, li
<1>5. Typed(Only(r, {"th"}), Value) /\ DOMAIN Only(r, {"th"}) = DOMAIN r \intersect {"th"}
  <2>1. Typed(Only(r, {"th"}), Value)
    BY <1>1, OnlyTyped
  <2>2. DOMAIN Only(r, {"th"}) = DOMAIN r \intersect {"th"}
    BY DEF Only, Restrict
  <2>. QED BY <2>1, <2>2
<1>6. Typed(m, Value)
  BY <1>2, <1>3, <1>5, OverlayTyped
<1>7. DOMAIN m = {"enabled"} \union DOMAIN li \union (DOMAIN r \intersect {"th"})
  BY <1>4, <1>5 DEF Over
<1>8. DOMAIN li = {"unlimited"} => m.unlimited = TRUE
  BY <1>3, <1>4, <1>5 DEF Over
<1>. HIDE DEF m
<1>9. IsUnlimited(m) \in BOOLEAN /\ FieldOf(m, "enabled", TRUE) \in BOOLEAN
  BY <1>6, Fields DEF Typed, FieldOf, IsUnlimited
<1>10. ~IsUnlimited(m) => m.limit \in Int
  <2>1. ~IsUnlimited(m) => "limit" \in DOMAIN m
    BY <1>3, <1>7, <1>8 DEF IsUnlimited, FieldOf
  <2>. QED BY <2>1, <1>6, Fields DEF Typed
<1>11. DOMAIN fixed = {"unlimited", "enabled", "limit"} /\ fixed = [f \in DOMAIN fixed |-> fixed[f]]
      /\ fixed.unlimited \in BOOLEAN /\ fixed.enabled \in BOOLEAN /\ fixed.limit \in Int
  <2>1. (IF IsUnlimited(m) THEN 0 ELSE m.limit) \in Int
    BY <1>9, <1>10
  <2>2. DOMAIN fixed = {"unlimited", "enabled", "limit"} /\ fixed = [f \in DOMAIN fixed |-> fixed[f]]
    OBVIOUS
  <2>3. fixed.limit \in Int
    BY <2>1
  <2>4. fixed.unlimited \in BOOLEAN /\ fixed.enabled \in BOOLEAN
    BY <1>9
  <2>. QED BY <2>2, <2>3, <2>4
<1>. HIDE DEF fixed
<1>12. Typed(fixed, Value)
  BY <1>11, Fields DEF Typed
<1>13. Typed(Only(m, {"th", "cond", "rpm"}), Value)
  BY <1>6, OnlyTyped
<1>14. Typed(Over(fixed, Only(m, {"th", "cond", "rpm"})), Value)
  BY <1>12, <1>13, OverlayTyped
<1>15. DOMAIN fixed \subseteq DOMAIN Over(fixed, Only(m, {"th", "cond", "rpm"}))
  BY DEF Over
<1>16. EntryTyped(Over(fixed, Only(m, {"th", "cond", "rpm"})))
  BY <1>11, <1>14, <1>15 DEF EntryTyped
<1>17. Exported(r) = Over(fixed, Only(m, {"th", "cond", "rpm"}))
  BY DEF Exported, Entry, m, en, li, fixed
<1>. QED BY <1>16, <1>17

(* The sentinel keeps its two fields through whatever a super-admin puts,  *)
(* and the row it materialises is a row.                                   *)
Defaults == {d \in UNION {[D -> Scalars] : D \in SUBSET DOMAIN Value} :
               DefaultsTyped(d) /\ {"limit", "enabled"} \subseteq DOMAIN d}
(* Default budgets are typed and hold a limit and a switch. *)
LEMMA InDefaults ==
  ASSUME NEW d
  PROVE  d \in Defaults <=> DefaultsTyped(d) /\ {"limit", "enabled"} \subseteq DOMAIN d
<1>1. \A f \in DOMAIN Value : Value[f] \subseteq Scalars
  BY Fields DEF Scalars
<1>2. ASSUME Typed(d, Value)
      PROVE  d \in UNION {[D -> Scalars] : D \in SUBSET DOMAIN Value}
  <2>1. d \in [DOMAIN d -> Scalars]
    BY <1>1, <1>2 DEF Typed
  <2>. QED BY <1>2, <2>1 DEF Typed
<1>. QED BY <1>2 DEF Defaults, DefaultsTyped
(* The mark of an absent row is no default budget. *)
LEMMA NoRowIsNoDefault == NoRow \notin Defaults
BY ValuesAssumption DEF Defaults
(* The initial default budgets are default budgets. *)
LEMMA NoDefaultsTyped == NoDefaults \in Defaults
<1>1. DOMAIN NoDefaults = {"enabled", "limit"} /\ NoDefaults = [f \in DOMAIN NoDefaults |-> NoDefaults[f]]
      /\ NoDefaults.enabled \in BOOLEAN /\ NoDefaults.limit \in Int
  BY DEF NoDefaults
<1>2. Typed(NoDefaults, Value)
  BY <1>1, Fields DEF Typed
<1>. QED BY <1>1, <1>2, InDefaults DEF DefaultsTyped
(* The PUT of the default budgets keeps them default budgets. *)
LEMMA DefaultsPutTyped ==
  ASSUME NEW old \in Defaults, NEW b, Typed(b, BodyValue), DOMAIN b \subseteq {"limit", "enabled", "rpm"}
  PROVE  DefaultsPut(old, b) \in Defaults
<1>. DEFINE fixed == [enabled |-> FieldOf(b, "enabled", FieldOf(old, "enabled", FALSE)),
                      limit |-> FieldOf(b, "limit", FieldOf(old, "limit", 0))]
            rest == Over(Only(b, {"rpm"}), old)
            both == Over(fixed, rest)
<1>1. Typed(old, Value) /\ {"limit", "enabled"} \subseteq DOMAIN old /\ DOMAIN old \subseteq {"limit", "enabled", "rpm"}
  BY InDefaults DEF DefaultsTyped
<1>2. FieldOf(old, "enabled", FALSE) \in BOOLEAN /\ FieldOf(old, "limit", 0) \in Int
  BY <1>1, Fields DEF Typed, FieldOf
<1>3. FieldOf(b, "enabled", FieldOf(old, "enabled", FALSE)) \in BOOLEAN
  BY <1>2, Fields DEF Typed, FieldOf
<1>4. FieldOf(b, "limit", FieldOf(old, "limit", 0)) \in Int
  BY <1>2, Fields DEF Typed, FieldOf
<1>5. DOMAIN fixed = {"enabled", "limit"} /\ fixed = [f \in DOMAIN fixed |-> fixed[f]]
      /\ fixed.enabled \in BOOLEAN /\ fixed.limit \in Int
  BY <1>3, <1>4
<1>6. DefaultsPut(old, b) = Without(both, Nulls(b))
  BY DEF DefaultsPut
<1>. HIDE DEF fixed
<1>7. Typed(fixed, BodyValue)
  BY <1>5, Fields DEF Typed
<1>8. Typed(old, BodyValue)
  BY <1>1, Fields DEF Typed
<1>9. DOMAIN Only(b, {"rpm"}) = DOMAIN b \intersect {"rpm"}
      /\ \A f \in DOMAIN b \intersect {"rpm"} : Only(b, {"rpm"})[f] = b[f]
  BY DEF Only, Restrict
<1>10. Typed(Only(b, {"rpm"}), BodyValue)
  BY OnlyTyped
<1>11. Typed(rest, BodyValue)
  BY <1>8, <1>10, OverlayTyped
<1>12. Typed(both, BodyValue)
  BY <1>7, <1>11, OverlayTyped
<1>13. DOMAIN rest = (DOMAIN b \intersect {"rpm"}) \union DOMAIN old
       /\ \A f \in DOMAIN rest : rest[f] = IF f \in DOMAIN Only(b, {"rpm"}) THEN Only(b, {"rpm"})[f] ELSE old[f]
  BY <1>9 DEF Over
<1>14. DOMAIN both = DOMAIN fixed \union DOMAIN rest
       /\ \A f \in DOMAIN both : both[f] = IF f \in DOMAIN fixed THEN fixed[f] ELSE rest[f]
  BY DEF Over
<1>15. /\ Null \notin BOOLEAN /\ Null \notin Nat /\ Null \notin Int
       /\ \A f \in DOMAIN Value : Null \notin Value[f]
  BY Fields, ValuesAssumption DEF Scalars
<1>16. Nulls(b) \subseteq {"rpm"}
  BY NullsRemoved
<1>17. Nulls(both) = Nulls(b)
  <2>1. \A f \in DOMAIN fixed : fixed[f] # Null
    BY <1>5, <1>15
  <2>2. \A f \in DOMAIN old : old[f] # Null
    BY <1>1, <1>15 DEF Typed
  <2>3. ASSUME NEW f \in Nulls(both) PROVE f \in Nulls(b)
    BY <2>1, <2>2, <1>9, <1>13, <1>14 DEF Nulls
  <2>4. ASSUME NEW f \in Nulls(b) PROVE f \in Nulls(both)
    BY <1>16, <1>5, <1>9, <1>13, <1>14 DEF Nulls
  <2>. QED BY <2>3, <2>4
<1>18. Typed(Without(both, Nulls(both)), Value)
  BY <1>12, NullsRemoved
<1>19. DOMAIN Without(both, Nulls(both)) = DOMAIN both \ Nulls(both)
  BY DEF Without, Restrict
<1>20. DOMAIN both \ Nulls(both) \subseteq {"limit", "enabled", "rpm"}
       /\ {"limit", "enabled"} \subseteq DOMAIN both \ Nulls(both)
  BY <1>1, <1>5, <1>13, <1>14, <1>16, <1>17
<1>21. Without(both, Nulls(both)) \in Defaults
  BY <1>18, <1>19, <1>20, InDefaults DEF DefaultsTyped
<1>. QED BY <1>6, <1>17, <1>21
(* The row that the meter copies from the defaults is a row. *)
LEMMA DefaultRowTyped ==
  ASSUME NEW d \in Defaults
  PROVE  DefaultRow(d) \in Rows
<1>. DEFINE fixed == [limit |-> d.limit, enabled |-> TRUE, action |-> "deny", th |-> "block",
                      source |-> "default"]
            rest == Only(d, {"rpm"})
<1>1. Typed(d, Value) /\ d.limit \in Int
  BY InDefaults, Fields DEF DefaultsTyped, Typed
<1>2. DOMAIN fixed = {"limit", "enabled", "action", "th", "source"}
      /\ fixed = [f \in DOMAIN fixed |-> fixed[f]]
      /\ fixed.limit \in Int /\ fixed.enabled \in BOOLEAN /\ fixed.action \in {"alert", "deny"}
      /\ fixed.th \in {"block", "warn"} /\ fixed.source \in {"manifest", "default"}
  BY <1>1
<1>3. DefaultRow(d) = Over(fixed, rest)
  BY DEF DefaultRow
<1>. HIDE DEF fixed
<1>4. Typed(fixed, Value)
  BY <1>2, Fields DEF Typed
<1>5. Typed(rest, Value)
  BY <1>1, OnlyTyped
<1>6. Typed(Over(fixed, rest), Value)
  BY <1>4, <1>5, OverlayTyped
<1>7. "enabled" \in DOMAIN Over(fixed, rest)
  BY <1>2 DEF Over
<1>. QED BY <1>3, <1>6, <1>7, InRows
(* Exported default budgets may stand in the manifest. *)
LEMMA DefaultsExported ==
  ASSUME NEW d \in Defaults
  PROVE  DefaultsTyped(Only(d, {"enabled", "limit"}))
<1>1. Typed(d, Value)
  BY InDefaults DEF DefaultsTyped
<1>2. Typed(Only(d, {"enabled", "limit"}), Value)
  BY <1>1, OnlyTyped
<1>3. DOMAIN Only(d, {"enabled", "limit"}) \subseteq {"enabled", "limit"}
  BY DEF Only, Restrict
<1>. QED BY <1>2, <1>3 DEF DefaultsTyped

(***************************************************************************)
(* Types.                                                                  *)
(***************************************************************************)
Items == Rows \union {NoRow}
TableOK ==
  /\ DOMAIN budget = Keys /\ \A k \in Keys : budget[k] \in Items
  /\ stream \in Seq([key : Keys, row : Items])
DefaultsOK ==
  /\ defaults \in Defaults \union {NoRow}
  /\ cached \in Defaults \union {NoRow}
  /\ faults \in Nat
CallOK(c) ==
  \/ c = Idle
  \/ c.op = "form" /\ c.key \in Keys /\ c.row \in Rows /\ "limit" \in DOMAIN c.row
  \/ c.op = "put" /\ c.key \in Keys /\ c.seen \in Rows /\ Typed(c.body, BodyValue)
  \/ c.op = "toggle" /\ c.key \in Keys /\ c.next \in BOOLEAN
CallsOK == DOMAIN call = Admins /\ \A a \in Admins : CallOK(call[a])
ManifestOK(m) ==
  /\ DOMAIN m.budgets \subseteq Keys /\ m.delete \subseteq Keys
  /\ \A k \in DOMAIN m.budgets : EntryTyped(m.budgets[k])
  /\ m.defaults # NoRow => DefaultsTyped(m.defaults)
Jobs ==
  {Idle} \union [op : {"confirm", "done"}, alone : BOOLEAN]
  \union [op : {"apply"}, alone : BOOLEAN, puts : SUBSET Keys, dels : SUBSET Keys,
          defs : BOOLEAN, cur : Defaults \union {NoRow}]
PagesOK ==
  /\ job \in Jobs
  /\ editor = Idle \/ (editor.op = "edit" /\ ManifestOK(editor.m))
  /\ job # Idle => editor # Idle
  /\ job.op = "apply" =>
       /\ job.puts \subseteq DOMAIN editor.m.budgets /\ job.dels \subseteq editor.m.delete
       /\ job.defs => editor.m.defaults # NoRow
LookupOK == lookup = Idle \/ (lookup.op = "default" /\ lookup.key \in Keys)
NativeOK == DOMAIN native = Keys /\ DOMAIN actions = Keys

TypeOK == TableOK /\ DefaultsOK /\ CallsOK /\ PagesOK /\ LookupOK /\ NativeOK

(* The types hold at first. *)
LEMMA InitTyped == Init => TypeOK
<1>. SUFFICES ASSUME Init PROVE TypeOK
  OBVIOUS
<1>1. /\ budget \in StartBudgets /\ stream = <<>> /\ defaults \in StartDefaults
      /\ cached = defaults /\ faults = 0
  BY DEF Init, ApiInit
<1>2. call = [a \in Admins |-> Idle] /\ job = Idle /\ editor = Idle /\ lookup = Idle
  BY DEF Init, ApiInit
<1>3. DOMAIN native = Keys /\ DOMAIN actions = Keys
  BY DEF Init, SyncInit
<1>4. TableOK
  <2>1. DOMAIN budget = Keys
    BY <1>1, NotMirrored
  <2>2. \A k \in Keys : budget[k] \in Items
    BY <1>1, StartAssumption, InRows DEF Items
  <2>3. stream \in Seq([key : Keys, row : Items])
    BY <1>1
  <2>. QED BY <2>1, <2>2, <2>3 DEF TableOK
<1>5. DefaultsOK
  BY <1>1, StartAssumption, InDefaults DEF DefaultsOK
<1>6. CallsOK
  BY <1>2 DEF CallsOK, CallOK
<1>7. PagesOK
  <2>1. job \in Jobs
    BY <1>2 DEF Jobs
  <2>2. job.op # "apply"
    BY <1>2 DEF Idle
  <2>. QED BY <1>2, <2>1, <2>2 DEF PagesOK
<1>. QED BY <1>2, <1>3, <1>4, <1>5, <1>6, <1>7 DEF TypeOK, LookupOK, NativeOK

(* A write to the budget table changes one row, and its stream carries the images. *)
LEMMA WriteTyped ==
  ASSUME TableOK, NEW k \in Keys, NEW row \in Items, Write(k, row)
  PROVE  /\ TableOK'
         /\ budget'[k] = row
         /\ \A j \in Keys : j # k => budget'[j] = budget[j]
<1>. DEFINE Record == [key : Keys, row : Items]
            record == [key |-> k, row |-> row]
<1>1. record \in Record /\ stream \in Seq(Record)
  BY DEF TableOK
<1>2. stream' \in Seq(Record)
  <2>1. stream' = stream \/ stream' = Append(stream, record)
    BY DEF Write
  <2>. HIDE DEF Record, record
  <2>. QED BY <1>1, <2>1
<1>3. DOMAIN budget' = Keys /\ \A j \in Keys : budget'[j] = IF j = k THEN row ELSE budget[j]
  BY DEF Write, TableOK
<1>. QED BY <1>2, <1>3 DEF TableOK
(* The run in flight, and the editor it is about, survive another writer.  *)
LEMMA DisturbTyped ==
  ASSUME PagesOK, Disturb, editor' = editor
  PROVE  PagesOK' /\ job'.op = job.op /\ (job # Idle => job'.alone = FALSE)
<1>. USE DEF Disturb
<1>1. CASE job = Idle
  <2>1. job' = job
    BY <1>1
  <2>. QED BY <1>1, <2>1 DEF PagesOK, ManifestOK
<1>2. CASE job # Idle /\ job.op = "apply"
  <2>1. job \in [op : {"apply"}, alone : BOOLEAN, puts : SUBSET Keys, dels : SUBSET Keys,
                 defs : BOOLEAN, cur : Defaults \union {NoRow}]
    BY <1>2 DEF PagesOK, Jobs
  <2>2. /\ job' \in [op : {"apply"}, alone : BOOLEAN, puts : SUBSET Keys, dels : SUBSET Keys,
                     defs : BOOLEAN, cur : Defaults \union {NoRow}]
        /\ job'.op = job.op /\ job'.alone = FALSE
        /\ job'.puts = job.puts /\ job'.dels = job.dels /\ job'.defs = job.defs
    BY <1>2, <2>1
  <2>. QED BY <1>2, <2>1, <2>2 DEF PagesOK, ManifestOK, Jobs
<1>3. CASE job # Idle /\ job.op # "apply"
  <2>1. job \in [op : {"confirm", "done"}, alone : BOOLEAN]
    BY <1>3 DEF PagesOK, Jobs
  <2>2. /\ job' \in [op : {"confirm", "done"}, alone : BOOLEAN]
        /\ job'.op = job.op /\ job'.alone = FALSE
    BY <1>3, <2>1
  <2>. QED BY <1>3, <2>2 DEF PagesOK, ManifestOK, Jobs
<1>. QED BY <1>1, <1>2, <1>3

(* One handler after another keeps the types.                              *)
LEMMA StepTyped == TypeOK /\ [Next]_vars => TypeOK'
<1>. SUFFICES ASSUME TypeOK, [Next]_vars PROVE TypeOK'
  OBVIOUS
<1>. USE DEF TypeOK
<1>1. ASSUME NEW a \in Admins, Administers(a), UNCHANGED syncVars PROVE TypeOK'
  <2>1. ASSUME NEW k \in Keys, Delete(a, k) PROVE TypeOK'
    <3>1. TableOK'
      BY <2>1, WriteTyped DEF Delete, Items
    <3>2. PagesOK'
      BY <2>1, DisturbTyped DEF Delete
    <3>. QED BY <1>1, <2>1, <3>1, <3>2
         DEF Delete, syncVars, DefaultsOK, CallsOK, LookupOK, NativeOK, meterVars
  <2>2. ASSUME NEW k \in Keys, OpenForm(a, k) PROVE TypeOK'
    <3>1. CallsOK'
      <4>1. budget[k] \in Rows
        BY <2>2 DEF OpenForm, TableOK, Items
      <4>2. CallOK([op |-> "form", key |-> k, row |-> budget[k]])
        BY <2>2, <4>1 DEF OpenForm, CallOK
      <4>. QED BY <2>2, <4>2 DEF OpenForm, CallsOK
    <3>. QED BY <1>1, <2>2, <3>1
         DEF OpenForm, syncVars, TableOK, DefaultsOK, PagesOK, LookupOK, NativeOK,
             meterVars, tableVars, pageVars
  <2>3. ASSUME NEW k \in Keys, ToggleRead(a, k) PROVE TypeOK'
    <3>1. CallsOK'
      <4>1. budget[k] \in Rows
        BY <2>3 DEF ToggleRead, TableOK, Items
      <4>2. budget[k].enabled \in BOOLEAN
        BY <4>1, InRows, Fields DEF Typed
      <4>3. CallOK([op |-> "toggle", key |-> k, next |-> ~budget[k].enabled])
        BY <4>2 DEF CallOK
      <4>. QED BY <2>3, <4>3 DEF ToggleRead, CallsOK
    <3>. QED BY <1>1, <2>3, <3>1
         DEF ToggleRead, syncVars, TableOK, DefaultsOK, PagesOK, LookupOK, NativeOK,
             meterVars, tableVars, pageVars
  <2>4. ASSUME NEW k \in Keys, NEW b \in Bodies, Create(a, k, b) PROVE TypeOK'
    <3>1. PostRow(b) \in Items
      BY <2>4, BodiesAssumption, PostRowTyped DEF Create, Items
    <3>2. TableOK'
      BY <2>4, <3>1, WriteTyped DEF Create
    <3>3. PagesOK'
      BY <2>4, DisturbTyped DEF Create
    <3>. QED BY <1>1, <2>4, <3>2, <3>3
         DEF Create, syncVars, DefaultsOK, CallsOK, LookupOK, NativeOK, meterVars
  <2>5. ASSUME NEW k \in Keys, NEW b, Typed(b, BodyValue), PutRead(a, k, b) PROVE TypeOK'
    <3>1. CallsOK'
      <4>1. budget[k] \in Rows
        BY <2>5 DEF PutRead, TableOK, Items
      <4>2. CallOK([op |-> "put", key |-> k, body |-> b, seen |-> budget[k]])
        BY <2>5, <4>1 DEF CallOK
      <4>. QED BY <2>5, <4>2 DEF PutRead, CallsOK
    <3>. QED BY <1>1, <2>5, <3>1
         DEF PutRead, syncVars, TableOK, DefaultsOK, PagesOK, LookupOK, NativeOK,
             meterVars, tableVars, pageVars
  <2>6. ASSUME NEW k \in Keys, NEW b \in Bodies, Put(a, k, b) PROVE TypeOK'
    BY <2>5, <2>6, BodiesAssumption DEF Put
  <2>7. ASSUME NEW edit \in Edits, Save(a, edit) PROVE TypeOK'
    <3>1. /\ call[a].key \in Keys /\ call[a].row \in Rows
          /\ "limit" \in DOMAIN call[a].row
      BY <2>7 DEF Save, CallsOK, CallOK, Idle
    <3>2. Typed(FormBody(call[a].row, edit), BodyValue)
      BY <3>1, BodiesAssumption, FormBodyTyped
    <3>. QED BY <2>5, <2>7, <3>1, <3>2 DEF Save
  <2>8. CASE Close(a)
    <3>1. CallsOK'
      BY <2>8 DEF Close, Finish, CallsOK, CallOK
    <3>. QED BY <1>1, <2>8, <3>1
         DEF Close, syncVars, TableOK, DefaultsOK, PagesOK, LookupOK, NativeOK,
             meterVars, tableVars, pageVars, counts
  <2>9. CASE PutWrite(a)
    <3>1. /\ call[a].key \in Keys /\ call[a].seen \in Rows
          /\ Typed(call[a].body, BodyValue)
      BY <2>9 DEF PutWrite, CallsOK, CallOK, Idle
    <3>2. TableOK'
      BY <2>9, <3>1, PutRowTyped, WriteTyped DEF PutWrite, Items
    <3>3. PagesOK'
      BY <2>9, DisturbTyped DEF PutWrite
    <3>4. CallsOK'
      BY <2>9 DEF PutWrite, Finish, CallsOK, CallOK
    <3>. QED BY <1>1, <2>9, <3>2, <3>3, <3>4
         DEF PutWrite, syncVars, DefaultsOK, LookupOK, NativeOK, meterVars, counts
  <2>10. CASE ToggleWrite(a)
    <3>1. call[a].key \in Keys /\ call[a].next \in BOOLEAN
      BY <2>10 DEF ToggleWrite, CallsOK, CallOK, Idle
    <3>2. /\ [enabled |-> call[a].next] \in Items
          /\ budget[call[a].key] # NoRow =>
               Over([enabled |-> call[a].next], budget[call[a].key]) \in Items
      <4>1. budget[call[a].key] \in Rows \union {NoRow}
        BY <3>1 DEF TableOK, Items
      <4>2. /\ [enabled |-> call[a].next] \in Rows
            /\ \A row \in Rows : Over([enabled |-> call[a].next], row) \in Rows
        BY <3>1, ToggledTyped
      <4>. QED BY <4>1, <4>2 DEF Items
    <3>3. TableOK'
      BY <2>10, <3>1, <3>2, WriteTyped DEF ToggleWrite
    <3>4. PagesOK'
      BY <2>10, DisturbTyped DEF ToggleWrite
    <3>5. CallsOK'
      BY <2>10 DEF ToggleWrite, Finish, CallsOK, CallOK
    <3>. QED BY <1>1, <2>10, <3>3, <3>4, <3>5
         DEF ToggleWrite, syncVars, DefaultsOK, LookupOK, NativeOK, meterVars, counts
  <2>11. CASE DropDefaults(a)
    <3>1. PagesOK'
      BY <2>11, DisturbTyped DEF DropDefaults
    <3>. QED BY <1>1, <2>11, <3>1
         DEF DropDefaults, syncVars, TableOK, CallsOK, DefaultsOK, LookupOK, NativeOK,
             meterVars, tableVars
  <2>12. ASSUME NEW b \in DefaultBodies, SetDefaults(a, b) PROVE TypeOK'
    <3>1. PagesOK'
      BY <2>12, DisturbTyped DEF SetDefaults
    <3>2. defaults' \in Defaults
      BY <2>12, BodiesAssumption, DefaultsPutTyped, NoDefaultsTyped DEF SetDefaults, DefaultsOK
    <3>. QED BY <1>1, <2>12, <3>1, <3>2
         DEF SetDefaults, syncVars, TableOK, CallsOK, DefaultsOK, LookupOK, NativeOK,
             meterVars, tableVars
  <2>. QED BY <1>1, <2>1, <2>2, <2>3, <2>4, <2>6, <2>7, <2>8, <2>9, <2>10, <2>11, <2>12
       DEF Administers
<1>2. ASSUME Manifest, UNCHANGED syncVars PROVE TypeOK'
  <2>. USE <1>2 DEF syncVars
  <2>1. CASE Export
    <3>. DEFINE m == [budgets |-> [k \in {j \in Keys : budget[j] # NoRow} |-> Exported(budget[k])],
                      delete |-> {},
                      defaults |-> Only(IF defaults = NoRow THEN NoDefaults ELSE defaults,
                                        {"enabled", "limit"})]
    <3>1. \A k \in Keys : budget[k] # NoRow => EntryTyped(Exported(budget[k]))
      BY ExportedTyped DEF TableOK, Items
    <3>2. DefaultsTyped(m.defaults)
      BY DefaultsExported, NoDefaultsTyped DEF DefaultsOK
    <3>3. ManifestOK(m)
      <4>1. m.budgets = [k \in {j \in Keys : budget[j] # NoRow} |-> Exported(budget[k])]
            /\ m.delete = {}
        OBVIOUS
      <4>. HIDE DEF m
      <4>. QED BY <3>1, <3>2, <4>1 DEF ManifestOK
    <3>4. editor' = [op |-> "edit", m |-> m] /\ job = Idle /\ job' = job
      BY <2>1 DEF Export
    <3>. HIDE DEF m
    <3>5. editor' # Idle /\ editor'.op = "edit" /\ editor'.m = m /\ Idle.op # "apply"
      BY <3>4 DEF Idle
    <3>6. PagesOK'
      BY <3>3, <3>4, <3>5 DEF PagesOK, ManifestOK
    <3>. QED BY <2>1, <3>6
         DEF Export, TableOK, DefaultsOK, CallsOK, LookupOK, NativeOK, meterVars, tableVars
  <2>2. ASSUME NEW m \in Manifests, Author(m) PROVE TypeOK'
    <3>1. ManifestOK(m)
      BY BodiesAssumption DEF ManifestOK
    <3>2. editor' = [op |-> "edit", m |-> m] /\ job = Idle /\ job' = job
      BY <2>2 DEF Author
    <3>3. editor' # Idle /\ editor'.op = "edit" /\ editor'.m = m /\ Idle.op # "apply"
      BY <3>2 DEF Idle
    <3>4. PagesOK'
      BY <3>1, <3>2, <3>3 DEF PagesOK, ManifestOK
    <3>. QED BY <2>2, <3>4
         DEF Author, TableOK, DefaultsOK, CallsOK, LookupOK, NativeOK, meterVars, tableVars
  <2>3. ASSUME PagesOK', UNCHANGED <<call, meterVars>>, TableOK', DefaultsOK' PROVE TypeOK'
    BY <2>3 DEF CallsOK, LookupOK, NativeOK, meterVars
  <2>4. CASE Confirm
    <3>1. PagesOK'
      BY <2>4 DEF Confirm, PagesOK, ManifestOK, Jobs
    <3>. QED BY <2>3, <2>4, <3>1 DEF Confirm, TableOK, DefaultsOK, meterVars, tableVars, counts
  <2>5. CASE Discard
    <3>1. PagesOK'
      BY <2>5 DEF Discard, PagesOK, ManifestOK, Jobs, Idle
    <3>. QED BY <2>3, <2>5, <3>1 DEF Discard, TableOK, DefaultsOK, meterVars, tableVars, counts
  <2>6. CASE ApplyScan
    <3>. DEFINE m == editor.m
                puts == Listed(m) \ Unchanged(m)
                dels == Removed(m)
                defs == m.defaults # NoRow /\ DefaultsChanged(defaults, m.defaults)
    <3>1. job' = [op |-> "apply", alone |-> TRUE, puts |-> puts, dels |-> dels, defs |-> defs,
                  cur |-> defaults] /\ editor' = editor
      BY <2>6 DEF ApplyScan
    <3>2. editor # Idle /\ ManifestOK(m)
      BY <2>6 DEF ApplyScan, PagesOK, Idle
    <3>3. puts \subseteq DOMAIN m.budgets /\ dels \subseteq m.delete
          /\ puts \subseteq Keys /\ dels \subseteq Keys
      BY <3>2 DEF Listed, Removed, ManifestOK
    <3>4. defs \in BOOLEAN /\ (defs => m.defaults # NoRow)
      BY DEF DefaultsChanged
    <3>. HIDE DEF puts, dels, defs
    <3>5. job' \in Jobs /\ job'.puts = puts /\ job'.dels = dels /\ job'.defs = defs
      BY <3>1, <3>3, <3>4 DEF Jobs, DefaultsOK
    <3>6. PagesOK'
      BY <3>1, <3>2, <3>3, <3>4, <3>5 DEF PagesOK, ManifestOK
    <3>. QED BY <2>3, <2>6, <3>6 DEF ApplyScan, TableOK, DefaultsOK, meterVars, tableVars, counts
  <2>7. ASSUME job.op = "apply"
        PROVE  /\ job \in [op : {"apply"}, alone : BOOLEAN, puts : SUBSET Keys, dels : SUBSET Keys,
                          defs : BOOLEAN, cur : Defaults \union {NoRow}]
               /\ editor # Idle /\ ManifestOK(editor.m)
               /\ job.puts \subseteq DOMAIN editor.m.budgets /\ job.dels \subseteq editor.m.delete
               /\ job.defs => editor.m.defaults # NoRow
    BY <2>7 DEF PagesOK, Jobs, Idle
  <2>8. CASE ApplyPut
    <3>1. PICK k \in job.puts : /\ Write(k, EntryRow(editor.m.budgets[k]))
                               /\ job' = [job EXCEPT !.puts = @ \ {k}]
      BY <2>8 DEF ApplyPut
    <3>2. job.op = "apply"
      BY <2>8 DEF ApplyPut
    <3>3. EntryRow(editor.m.budgets[k]) \in Items /\ k \in Keys
      BY <2>7, <3>2, EntryRowTyped DEF ManifestOK, Items
    <3>4. TableOK'
      BY <3>1, <3>3, WriteTyped
    <3>5. job' \in Jobs /\ job'.puts \subseteq job.puts /\ job'.dels = job.dels /\ job'.defs = job.defs
      BY <2>7, <3>1, <3>2 DEF Jobs
    <3>6. PagesOK'
      BY <2>7, <2>8, <3>2, <3>5 DEF ApplyPut, PagesOK, ManifestOK
    <3>. QED BY <2>3, <2>8, <3>4, <3>6 DEF ApplyPut, DefaultsOK, meterVars, counts
  <2>9. CASE ApplyDelete
    <3>1. PICK k \in job.dels : Write(k, NoRow) /\ job' = [job EXCEPT !.dels = @ \ {k}]
      BY <2>9 DEF ApplyDelete
    <3>2. job.op = "apply"
      BY <2>9 DEF ApplyDelete
    <3>3. NoRow \in Items /\ k \in Keys
      BY <2>7, <3>2 DEF ManifestOK, Items
    <3>4. TableOK'
      BY <3>1, <3>3, WriteTyped
    <3>5. job' \in Jobs /\ job'.puts = job.puts /\ job'.dels \subseteq job.dels /\ job'.defs = job.defs
      BY <2>7, <3>1, <3>2 DEF Jobs
    <3>6. PagesOK'
      BY <2>7, <2>9, <3>2, <3>5 DEF ApplyDelete, PagesOK, ManifestOK
    <3>. QED BY <2>3, <2>9, <3>4, <3>6 DEF ApplyDelete, DefaultsOK, meterVars, counts
  <2>10. CASE ApplyDefaults
    <3>1. job.op = "apply" /\ job.defs /\ job' = [job EXCEPT !.defs = FALSE]
      BY <2>10 DEF ApplyDefaults
    <3>2. job' \in Jobs /\ job'.puts = job.puts /\ job'.dels = job.dels /\ ~job'.defs
      BY <2>7, <3>1 DEF Jobs
    <3>3. PagesOK'
      BY <2>7, <2>10, <3>1, <3>2 DEF ApplyDefaults, PagesOK, ManifestOK
    <3>4. DefaultsTyped(editor.m.defaults)
      BY <2>7, <3>1 DEF ManifestOK
    <3>5. Typed(editor.m.defaults, BodyValue)
          /\ DOMAIN editor.m.defaults \subseteq {"limit", "enabled", "rpm"}
      BY <3>4, Fields DEF DefaultsTyped, Typed
    <3>6. defaults' \in Defaults
      BY <2>7, <2>10, <3>1, <3>5, DefaultsPutTyped, NoDefaultsTyped DEF ApplyDefaults
    <3>. QED BY <2>3, <2>10, <3>3, <3>6
         DEF ApplyDefaults, TableOK, DefaultsOK, meterVars, counts, tableVars
  <2>11. CASE ApplyEnd
    <3>1. job' \in Jobs /\ job'.op # "apply"
      BY <2>7, <2>11 DEF ApplyEnd, Jobs
    <3>2. PagesOK'
      BY <2>7, <2>11, <3>1 DEF ApplyEnd, PagesOK, ManifestOK
    <3>. QED BY <2>3, <2>11, <3>2 DEF ApplyEnd, TableOK, DefaultsOK, meterVars, tableVars, counts
  <2>12. CASE Leave \/ ApplyDies
    <3>1. job' = Idle /\ job' \in Jobs /\ job'.op # "apply" /\ (editor' = Idle \/ editor' = editor)
      BY <2>12 DEF Leave, ApplyDies, Jobs, Idle
    <3>2. PagesOK'
      BY <3>1 DEF PagesOK, ManifestOK
    <3>3. TableOK' /\ DefaultsOK' /\ UNCHANGED <<call, meterVars>>
      BY <2>12 DEF Leave, ApplyDies, TableOK, DefaultsOK, meterVars, tableVars, counts
    <3>. QED BY <2>3, <3>2, <3>3
  <2>. QED BY <1>2, <2>1, <2>2, <2>4, <2>5, <2>6, <2>8, <2>9, <2>10, <2>11, <2>12 DEF Manifest
<1>3. ASSUME Meter, UNCHANGED syncVars PROVE TypeOK'
  <2>. USE <1>3 DEF syncVars
  <2>1. ASSUME NEW k \in Keys, MeterLookup(k) \/ MeterMisreads(k) PROVE TypeOK'
    <3>1. LookupOK'
      BY <2>1 DEF MeterLookup, MeterMisreads, LookedUp, LookupOK
    <3>2. DefaultsOK' /\ UNCHANGED <<tableVars, call, pageVars>>
      BY <2>1 DEF MeterLookup, MeterMisreads, DefaultsOK
    <3>. QED BY <3>1, <3>2 DEF TableOK, CallsOK, PagesOK, ManifestOK, NativeOK, tableVars, pageVars
  <2>2. CASE CacheDefaults
    <3>1. DefaultsOK' /\ UNCHANGED <<tableVars, call, pageVars, lookup>>
      BY <2>2 DEF CacheDefaults, DefaultsOK
    <3>. QED BY <3>1
         DEF TableOK, CallsOK, PagesOK, ManifestOK, LookupOK, NativeOK, tableVars, pageVars
  <2>3. CASE MeterDefault
    <3>1. lookup.key \in Keys
      BY <2>3 DEF MeterDefault, LookupOK
    <3>2. TableOK' /\ PagesOK'
      <4>1. CASE /\ cached # NoRow /\ cached.enabled /\ cached.limit > 0
                 /\ budget[lookup.key] = NoRow
        <5>1. Write(lookup.key, DefaultRow(cached)) /\ Disturb /\ editor' = editor
          BY <2>3, <4>1 DEF MeterDefault
        <5>2. DefaultRow(cached) \in Items
          BY <4>1, DefaultRowTyped DEF DefaultsOK, Items
        <5>. QED BY <3>1, <5>1, <5>2, WriteTyped, DisturbTyped
      <4>2. CASE ~(/\ cached # NoRow /\ cached.enabled /\ cached.limit > 0
                   /\ budget[lookup.key] = NoRow)
        <5>1. UNCHANGED <<tableVars, job, editor>>
          BY <2>3, <4>2 DEF MeterDefault
        <5>. QED BY <5>1 DEF TableOK, PagesOK, ManifestOK, tableVars
      <4>. QED BY <4>1, <4>2
    <3>3. LookupOK' /\ DefaultsOK' /\ CallsOK'
      BY <2>3 DEF MeterDefault, LookupOK, DefaultsOK, CallsOK, counts
    <3>. QED BY <3>2, <3>3 DEF NativeOK
  <2>. QED BY <1>3, <2>1, <2>2, <2>3 DEF Meter
<1>4. ASSUME Sync PROVE TypeOK'
  <2>1. TableOK'
    <3>1. stream' = Tail(stream) /\ budget' = budget /\ stream # <<>>
      BY <1>4 DEF Sync
    <3>. DEFINE Record == [key : Keys, row : Items]
    <3>2. stream \in Seq(Record)
      BY DEF TableOK
    <3>3. stream' \in Seq(Record)
      <4>. HIDE DEF Record
      <4>. QED BY <3>1, <3>2
    <3>. QED BY <3>1, <3>3 DEF TableOK
  <2>2. DefaultsOK' /\ NativeOK'
    <3>1. faults' = faults \/ faults' = faults + 1
      BY <1>4 DEF Sync, SyncUpsert, SyncRemove, SyncFails
    <3>2. DOMAIN native' = DOMAIN native /\ DOMAIN actions' = DOMAIN actions
      BY <1>4 DEF Sync, SyncUpsert, SyncRemove, SyncFails, UpsertBudget, UpsertAction
    <3>. QED BY <1>4, <3>1, <3>2 DEF Sync, DefaultsOK, NativeOK, meterVars
  <2>. QED BY <1>4, <2>1, <2>2
       DEF Sync, CallsOK, PagesOK, ManifestOK, LookupOK, meterVars, pageVars
<1>5. ASSUME NextMonth PROVE TypeOK'
  BY <1>5 DEF NextMonth, TableOK, DefaultsOK, CallsOK, PagesOK, ManifestOK, LookupOK, NativeOK,
              tableVars, pageVars, meterVars
<1>6. CASE UNCHANGED vars
  BY <1>6 DEF vars, apiVars, syncVars, TableOK, DefaultsOK, CallsOK, PagesOK, ManifestOK,
              LookupOK, NativeOK, tableVars, pageVars, meterVars, counts
<1>. QED BY <1>1, <1>2, <1>3, <1>4, <1>5, <1>6 DEF Next, ApiNext

(* The types of the control plane, for any people, targets, manifests and
   interleaving. *)
THEOREM TypeCorrect == Spec => []TypeOK
<1>. QED BY InitTyped, StepTyped, PTL DEF Spec

(***************************************************************************)
(* Default budgets.                                                        *)
(***************************************************************************)
(* A lookup that saw a wildcard row goes on to a default only when a read  *)
(* failed.                                                                 *)
SeenWild == lookup # Idle /\ lookup.wild => faults > 0

(* A default look-up that goes on although a wildcard budget was there met a fault: kept by
   every step. *)
LEMMA SeenWildKept == TypeOK /\ SeenWild /\ [Next]_vars => SeenWild'
<1>. SUFFICES ASSUME TypeOK, SeenWild, [Next]_vars PROVE SeenWild'
  OBVIOUS
<1>. USE DEF SeenWild
<1>0. faults \in Nat
  BY DEF TypeOK, DefaultsOK
<1>1. ASSUME NEW k \in Keys, MeterLookup(k) PROVE SeenWild'
  BY <1>1 DEF MeterLookup, LookedUp
<1>2. ASSUME NEW k \in Keys, MeterMisreads(k) PROVE SeenWild'
  BY <1>0, <1>2 DEF MeterMisreads
<1>3. CASE CacheDefaults
  BY <1>0, <1>3 DEF CacheDefaults
<1>4. CASE MeterDefault
  BY <1>4 DEF MeterDefault
<1>5. CASE (\E a \in Admins : Administers(a)) \/ Manifest
  <2>1. lookup' = lookup /\ (faults' = faults \/ faults' = faults + 1)
    BY ZenonT(60), <1>5 DEF Administers, Delete, OpenForm, ToggleRead, Create, Put, Save, PutRead, Close,
         PutWrite, ToggleWrite, DropDefaults, SetDefaults, Manifest, Export, Author, Confirm,
         Discard, ApplyScan, ApplyPut, ApplyDelete, ApplyDefaults, ApplyEnd, Leave, ApplyDies,
         meterVars, counts
  <2>. QED BY <1>0, <2>1
<1>6. CASE Sync
  <2>1. lookup' = lookup /\ (faults' = faults \/ faults' = faults + 1)
    BY <1>6 DEF Sync, SyncUpsert, SyncRemove, SyncFails, meterVars
  <2>. QED BY <1>0, <2>1
<1>7. CASE NextMonth \/ UNCHANGED vars
  BY <1>7 DEF NextMonth, vars, apiVars, meterVars, counts
<1>. QED BY <1>1, <1>2, <1>3, <1>4, <1>5, <1>6, <1>7 DEF Next, ApiNext, Meter

(* The meter's write ends its lookup, and no other step does; it writes    *)
(* its own key, where there was no row.                                    *)
LEMMA DefaultFills ==
  ASSUME TypeOK, [Next]_vars, lookup # Idle, lookup' = Idle
  PROVE  /\ faults' = faults
         /\ \A k \in Keys : budget'[k] # budget[k] => k = lookup.key /\ budget[k] = NoRow
<1>1. \/ MeterDefault
      \/ \E k \in Keys : MeterLookup(k) \/ MeterMisreads(k)
      \/ CacheDefaults
      \/ (\E a \in Admins : Administers(a)) \/ Manifest
      \/ Sync \/ NextMonth \/ UNCHANGED vars
  BY DEF Next, ApiNext, Meter
<1>2. MeterDefault
  <2>1. ASSUME \E k \in Keys : MeterLookup(k) \/ MeterMisreads(k) PROVE FALSE
    BY <2>1 DEF MeterLookup, MeterMisreads
  <2>2. CASE CacheDefaults
    BY <2>2 DEF CacheDefaults
  <2>3. CASE (\E a \in Admins : Administers(a)) \/ Manifest
    BY ZenonT(60), <2>3 DEF Administers, Delete, OpenForm, ToggleRead, Create, Put, Save, PutRead, Close,
         PutWrite, ToggleWrite, DropDefaults, SetDefaults, Manifest, Export, Author, Confirm,
         Discard, ApplyScan, ApplyPut, ApplyDelete, ApplyDefaults, ApplyEnd, Leave, ApplyDies,
         meterVars
  <2>4. CASE Sync \/ NextMonth \/ UNCHANGED vars
    BY <2>4 DEF Sync, NextMonth, vars, apiVars, meterVars
  <2>. QED BY <1>1, <2>1, <2>2, <2>3, <2>4
<1>3. CASE /\ cached # NoRow /\ cached.enabled /\ cached.limit > 0
           /\ budget[lookup.key] = NoRow
  BY <1>2, <1>3 DEF MeterDefault, Write, TypeOK, TableOK, counts
<1>4. CASE ~(/\ cached # NoRow /\ cached.enabled /\ cached.limit > 0
             /\ budget[lookup.key] = NoRow)
  BY <1>2, <1>4 DEF MeterDefault, tableVars, counts
<1>. QED BY <1>3, <1>4

(* Nothing replaces a row but a write that is asked for: DefaultFills.     *)
THEOREM DefaultReplacesNothingHolds == Spec => DefaultReplacesNothing
<1>1. TypeOK /\ [Next]_vars =>
        [\A k \in Keys : lookup # Idle /\ lookup' = Idle /\ budget[k] # NoRow
                           => budget'[k] = budget[k]]_vars
  BY DefaultFills
<1>. QED BY <1>1, TypeCorrect, PTL DEF Spec, DefaultReplacesNothing

(* DefaultRespectsWildcard for any keys: a default never shadows a wildcard budget that the meter could
   see when it looked, unless a read failed. *)
THEOREM DefaultRespectsWildcardHolds == Spec => DefaultRespectsWildcard
<1>1. Init => SeenWild
  BY DEF Init, ApiInit, SeenWild
<1>2. TypeOK /\ SeenWild /\ [Next]_vars =>
        [\A k \in Keys :
           /\ lookup # Idle /\ lookup.key = k /\ lookup.wild
           /\ Covered(k) /\ lookup' = Idle /\ budget'[k] # budget[k]
           => faults > 0]_vars
  BY DEF SeenWild
<1>. QED BY <1>1, <1>2, SeenWildKept, TypeCorrect, PTL DEF Spec, DefaultRespectsWildcard

(***************************************************************************)
(* Manifests.                                                              *)
(***************************************************************************)
(* What a run that nobody disturbed has written so far is still there.     *)
RunHolds ==
  job.op \in {"apply", "done"} /\ job.alone =>
    LET m    == editor.m
        puts == IF job.op = "apply" THEN job.puts ELSE {}
        dels == IF job.op = "apply" THEN job.dels ELSE {}
    IN /\ \A k \in Listed(m) \ (m.delete \union puts) :
            budget[k] # NoRow /\ Says(m.budgets[k], budget[k])
       /\ \A k \in m.delete \ (Listed(m) \union dels) : budget[k] = NoRow

(* What an apply run still has to write, or has written and nobody changed since:
   kept by every step. *)
LEMMA RunKept == TypeOK /\ RunHolds /\ [Next]_vars => RunHolds'
<1>. SUFFICES ASSUME TypeOK, RunHolds, [Next]_vars PROVE RunHolds'
  OBVIOUS
<1>1. ASSUME Disturb, editor' = editor PROVE RunHolds'
  <2>1. job'.op = job.op /\ (job # Idle => job'.alone = FALSE)
    BY <1>1, DisturbTyped DEF TypeOK
  <2>2. job.op \in {"apply", "done"} => job # Idle
    BY DEF Idle
  <2>. QED BY <2>1, <2>2 DEF RunHolds
<1>2. ASSUME UNCHANGED <<budget, editor, job>> PROVE RunHolds'
  BY <1>2 DEF RunHolds, Listed
<1>3. ASSUME job' = Idle \/ job'.op = "confirm" PROVE RunHolds'
  BY <1>3 DEF RunHolds, Idle
<1>4. ASSUME NEW a \in Admins, Administers(a) PROVE RunHolds'
  <2>1. UNCHANGED <<budget, editor, job>> \/ (Disturb /\ editor' = editor)
    BY <1>4 DEF Administers, Delete, OpenForm, ToggleRead, Create, Put, Save, PutRead, Close,
         PutWrite, ToggleWrite, DropDefaults, SetDefaults, tableVars, pageVars
  <2>. QED BY <1>1, <1>2, <2>1
<1>5. CASE Meter
  <2>1. UNCHANGED <<budget, editor, job>> \/ (Disturb /\ editor' = editor)
    BY <1>5 DEF Meter, MeterLookup, MeterMisreads, CacheDefaults, MeterDefault, tableVars, pageVars
  <2>. QED BY <1>1, <1>2, <2>1
<1>6. CASE Sync \/ NextMonth \/ UNCHANGED vars
  BY <1>2, <1>6 DEF Sync, NextMonth, vars, apiVars, tableVars, pageVars
<1>7. CASE Export \/ \E m \in Manifests : Author(m)
  BY <1>3, <1>7 DEF Export, Author
<1>8. CASE Confirm \/ Discard \/ Leave \/ ApplyDies
  BY <1>3, <1>8 DEF Confirm, Discard, Leave, ApplyDies
<1>9. ASSUME job.op = "apply" \/ job.op = "confirm"
      PROVE  editor # Idle /\ ManifestOK(editor.m)
  BY <1>9 DEF TypeOK, PagesOK, Idle
<1>10. CASE ApplyScan
  <2>. DEFINE m == editor.m
  <2>1. /\ job'.op = "apply" /\ job'.puts = Listed(m) \ Unchanged(m) /\ job'.dels = Removed(m)
        /\ editor' = editor /\ budget' = budget /\ job.op = "confirm"
    BY <1>10 DEF ApplyScan, tableVars
  <2>2. ASSUME NEW k \in Listed(m), k \in Unchanged(m)
        PROVE  budget[k] # NoRow /\ Says(m.budgets[k], budget[k])
    <3>1. budget[k] # NoRow /\ SameBudget(m.budgets[k], budget[k])
      BY <2>2 DEF Unchanged
    <3>2. budget[k] \in Rows /\ EntryTyped(m.budgets[k])
      BY <1>9, <2>1, <2>2, <3>1 DEF TypeOK, TableOK, Items, ManifestOK, Listed
    <3>. QED BY <3>1, <3>2, SameSays
  <2>3. \A k \in m.delete \ Removed(m) : budget[k] = NoRow
    BY DEF Removed
  <2>. QED BY <2>1, <2>2, <2>3 DEF RunHolds, Listed
<1>11. CASE ApplyPut
  <2>. DEFINE m == editor.m
  <2>1. PICK k \in job.puts : /\ Write(k, EntryRow(m.budgets[k]))
                             /\ job' = [job EXCEPT !.puts = @ \ {k}]
    BY <1>11 DEF ApplyPut
  <2>2. job.op = "apply" /\ editor' = editor
    BY <1>11 DEF ApplyPut
  <2>3. k \in Listed(m) /\ k \in Keys /\ EntryTyped(m.budgets[k])
    BY <1>9, <2>2 DEF TypeOK, PagesOK, ManifestOK, Listed
  <2>4. EntryRow(m.budgets[k]) \in Items
    BY <2>3, EntryRowTyped DEF Items
  <2>5. budget'[k] = EntryRow(m.budgets[k]) /\ \A j \in Keys : j # k => budget'[j] = budget[j]
    BY <2>1, <2>3, <2>4, WriteTyped DEF TypeOK
  <2>6. budget'[k] # NoRow /\ Says(m.budgets[k], budget'[k])
    BY <2>3, <2>5, EntryRowTyped, EntryRowSays, NoRowIsNone
  <2>7. /\ job'.op = "apply" /\ job'.alone = job.alone /\ job'.puts = job.puts \ {k}
        /\ job'.dels = job.dels
    BY <2>1, <2>2 DEF TypeOK, PagesOK, Jobs, Idle
  <2>8. Listed(m) \subseteq Keys /\ m.delete \subseteq Keys
    BY <1>9, <2>2 DEF ManifestOK, Listed
  <2>. QED BY <2>2, <2>3, <2>5, <2>6, <2>7, <2>8 DEF RunHolds, Listed
<1>12. CASE ApplyDelete
  <2>. DEFINE m == editor.m
  <2>1. PICK k \in job.dels : Write(k, NoRow) /\ job' = [job EXCEPT !.dels = @ \ {k}]
    BY <1>12 DEF ApplyDelete
  <2>2. job.op = "apply" /\ editor' = editor
    BY <1>12 DEF ApplyDelete
  <2>3. k \in m.delete /\ k \in Keys /\ NoRow \in Items
    BY <1>9, <2>2 DEF TypeOK, PagesOK, ManifestOK, Items
  <2>4. budget'[k] = NoRow /\ \A j \in Keys : j # k => budget'[j] = budget[j]
    BY <2>1, <2>3, WriteTyped DEF TypeOK
  <2>5. /\ job'.op = "apply" /\ job'.alone = job.alone /\ job'.puts = job.puts
        /\ job'.dels = job.dels \ {k}
    BY <2>1, <2>2 DEF TypeOK, PagesOK, Jobs, Idle
  <2>6. Listed(m) \subseteq Keys /\ m.delete \subseteq Keys
    BY <1>9, <2>2 DEF ManifestOK, Listed
  <2>. QED BY <2>2, <2>3, <2>4, <2>5, <2>6 DEF RunHolds, Listed
<1>13. CASE ApplyDefaults
  <2>1. /\ job.op = "apply" /\ budget' = budget /\ editor' = editor
        /\ job' = [job EXCEPT !.defs = FALSE]
    BY <1>13 DEF ApplyDefaults, tableVars
  <2>2. /\ job'.op = "apply" /\ job'.alone = job.alone /\ job'.puts = job.puts
        /\ job'.dels = job.dels
    BY <2>1 DEF TypeOK, PagesOK, Jobs, Idle
  <2>. QED BY <2>1, <2>2 DEF RunHolds, Listed
<1>14. CASE ApplyEnd
  <2>1. /\ job.op = "apply" /\ job.puts = {} /\ job.dels = {} /\ budget' = budget
        /\ editor' = editor /\ job' = [op |-> "done", alone |-> job.alone]
    BY <1>14 DEF ApplyEnd, tableVars
  <2>. QED BY <2>1 DEF RunHolds, Listed
<1>. QED BY <1>4, <1>5, <1>6, <1>7, <1>8, <1>10, <1>11, <1>12, <1>13, <1>14
     DEF Next, ApiNext, Manifest

(* ManifestTakesHold for any manifest: what a finished apply run left and nobody
   changed since says what the manifest says. *)
THEOREM ManifestTakesHoldAlways == Spec => []ManifestTakesHold
<1>1. Init => RunHolds
  BY DEF Init, ApiInit, RunHolds, Idle
<1>2. RunHolds => ManifestTakesHold
  BY DEF RunHolds, ManifestTakesHold
<1>. QED BY <1>1, <1>2, RunKept, TypeCorrect, PTL DEF Spec

(***************************************************************************)
(* The mirror.                                                             *)
(***************************************************************************)
(* While no call has failed, a key with records in the stream has its      *)
(* present row in the last of them, and a key without is mirrored.         *)
Followed(k, b, s, n, a) ==
  LET pending == {i \in 1..Len(s) : s[i].key = k} IN
  \/ /\ pending = {}
     /\ IF Mirrors(b) THEN Amount(b) => n = b.limit /\ (ActionDue(k, b) => a # {})
        ELSE n = NoRow /\ a = {}
  \/ \E i \in pending : s[i].row = b /\ \A j \in pending : j <= i
AllFollowed ==
  faults = 0 => \A k \in Keys : Followed(k, budget[k], stream, native[k], actions[k])

(* A write leaves the mirror following each row: its record is now to be heard. *)
LEMMA WriteFollowed ==
  ASSUME TypeOK, NEW k \in Keys, NEW row \in Items, Write(k, row),
         UNCHANGED <<native, actions>>,
         NEW j \in Keys, Followed(j, budget[j], stream, native[j], actions[j])
  PROVE  Followed(j, budget[j], stream, native[j], actions[j])'
<1>. DEFINE Record == [key : Keys, row : Items]
            record == [key |-> k, row |-> row]
<1>1. stream \in Seq(Record) /\ record \in Record /\ record.key = k /\ record.row = row
  BY DEF TypeOK, TableOK
<1>2. budget'[k] = row /\ (j # k => budget'[j] = budget[j])
  BY WriteTyped DEF TypeOK
<1>3. CASE row = budget[k]
  <2>1. stream' = stream /\ budget'[j] = budget[j]
    BY <1>2, <1>3 DEF Write
  <2>. QED BY <2>1 DEF Followed
<1>4. CASE row # budget[k]
  <2>1. stream' = Append(stream, record)
    BY <1>4 DEF Write
  <2>. HIDE DEF Record, record
  <2>2. /\ Len(stream') = Len(stream) + 1 /\ Len(stream) \in Nat
        /\ \A i \in 1..Len(stream) : stream'[i] = stream[i]
        /\ stream'[Len(stream) + 1] = record
    BY <1>1, <2>1
  <2>3. CASE j = k
    <3>1. Len(stream) + 1 \in {i \in 1..Len(stream') : stream'[i].key = j}
      BY <1>1, <2>2, <2>3
    <3>2. \A i \in 1..Len(stream') : i <= Len(stream) + 1
      BY <2>2
    <3>3. stream'[Len(stream) + 1].row = budget'[j]
      BY <1>1, <1>2, <2>2, <2>3
    <3>. QED BY <3>1, <3>2, <3>3 DEF Followed
  <2>4. CASE j # k
    <3>1. {i \in 1..Len(stream') : stream'[i].key = j} = {i \in 1..Len(stream) : stream[i].key = j}
      BY <1>1, <2>2, <2>4
    <3>2. budget'[j] = budget[j] /\ native'[j] = native[j] /\ actions'[j] = actions[j]
      BY <1>2, <2>4
    <3>. QED BY <2>2, <3>1, <3>2 DEF Followed
  <2>. QED BY <2>3, <2>4
<1>. QED BY <1>3, <1>4

(* A batch of the sync without a fault brings the mirror to the last record it
   heard. *)
LEMMA SyncFollowed ==
  ASSUME TypeOK, Sync, faults' = 0, faults = 0,
         NEW j \in Keys, Followed(j, budget[j], stream, native[j], actions[j])
  PROVE  Followed(j, budget[j], stream, native[j], actions[j])'
<1>. DEFINE Record == [key : Keys, row : Items]
            k == Head(stream).key
            row == Head(stream).row
<1>1. stream \in Seq(Record) /\ stream # <<>> /\ stream' = Tail(stream) /\ budget' = budget
  BY DEF Sync, TypeOK, TableOK
<1>2. /\ Len(stream) \in Nat \ {0} /\ Len(stream') = Len(stream) - 1
      /\ \A i \in 1..Len(stream') : stream'[i] = stream[i + 1]
      /\ Head(stream) = stream[1] /\ Head(stream) \in Record
  <2>. HIDE DEF Record
  <2>. QED BY <1>1
<1>3. k \in Keys /\ row \in Items
  BY <1>2
<1>4. DOMAIN native = Keys /\ DOMAIN actions = Keys
  BY DEF TypeOK, NativeOK
<1>5. \/ Mirrors(row) /\ SyncUpsert(k, row)
      \/ ~Mirrors(row) /\ SyncRemove(k)
      \/ Mirrors(row) /\ ~Amount(row) /\ UNCHANGED <<native, actions>>
  BY DEF Sync, SyncFails
<1>6. j # k => native'[j] = native[j] /\ actions'[j] = actions[j]
  BY <1>3, <1>4, <1>5 DEF SyncUpsert, SyncRemove, UpsertBudget, UpsertAction
<1>. DEFINE pending == {i \in 1..Len(stream) : stream[i].key = j}
            after   == {i \in 1..Len(stream') : stream'[i].key = j}
<1>7. \A i \in 1..Len(stream') : i \in after <=> i + 1 \in pending
  BY <1>2
<1>8. CASE pending = {}
  <2>1. after = {} /\ j # k
    BY <1>2, <1>7, <1>8
  <2>. QED BY <1>1, <1>6, <1>8, <2>1 DEF Followed
<1>9. CASE \E i \in pending : stream[i].row = budget[j] /\ \A n \in pending : n <= i
  <2>1. PICK i \in pending : stream[i].row = budget[j] /\ \A n \in pending : n <= i
    BY <1>9
  <2>2. CASE i = 1
    <3>1. j = k /\ row = budget[j]
      BY <1>2, <2>1, <2>2
    <3>2. after = {}
      BY <1>2, <1>7, <2>1, <2>2
    <3>3. IF Mirrors(row) THEN Amount(row) => /\ native'[j] = row.limit
                                              /\ ActionDue(j, row) => actions'[j] # {}
          ELSE native'[j] = NoRow /\ actions'[j] = {}
      BY <1>3, <1>4, <1>5, <3>1 DEF SyncUpsert, SyncRemove, UpsertBudget, UpsertAction
    <3>. QED BY <1>1, <3>1, <3>2, <3>3 DEF Followed
  <2>3. CASE i # 1
    <3>1. i - 1 \in after /\ stream'[i - 1] = stream[i]
      BY <1>2, <1>7, <2>1, <2>3
    <3>2. \A n \in after : n <= i - 1
      BY <1>2, <1>7, <2>1
    <3>. QED BY <1>1, <2>1, <3>1, <3>2 DEF Followed
  <2>. QED BY <2>2, <2>3
<1>. QED BY <1>8, <1>9 DEF Followed

(* The mirror follows every row through every step. *)
LEMMA FollowedKept == TypeOK /\ AllFollowed /\ [Next]_vars => AllFollowed'
<1>. SUFFICES ASSUME TypeOK, AllFollowed, [Next]_vars PROVE AllFollowed'
  OBVIOUS
<1>. USE DEF AllFollowed
<1>0. faults \in Nat
  BY DEF TypeOK, DefaultsOK
<1>1. ASSUME UNCHANGED <<budget, stream, native, actions>>,
             faults' = faults \/ faults' = faults + 1 PROVE AllFollowed'
  BY <1>0, <1>1 DEF Followed
<1>2. ASSUME NEW k \in Keys, NEW row \in Items, Write(k, row), UNCHANGED <<syncVars, faults>>
      PROVE  AllFollowed'
  BY <1>2, WriteFollowed DEF syncVars
<1>3. ASSUME NEW a \in Admins, Administers(a), UNCHANGED syncVars PROVE AllFollowed'
  <2>1. ASSUME NEW k \in Keys, Delete(a, k) PROVE AllFollowed'
    BY <1>2, <1>3, <2>1 DEF Delete, Items
  <2>2. ASSUME NEW k \in Keys, NEW b \in Bodies, Create(a, k, b) PROVE AllFollowed'
    <3>1. PostRow(b) \in Items
      BY <2>2, BodiesAssumption, PostRowTyped DEF Create, Items
    <3>. QED BY <1>2, <1>3, <2>2, <3>1 DEF Create
  <2>3. CASE PutWrite(a)
    <3>1. /\ call[a].key \in Keys /\ call[a].seen \in Rows
          /\ Typed(call[a].body, BodyValue)
      BY <2>3 DEF PutWrite, TypeOK, CallsOK, CallOK, Idle
    <3>2. PutRow(call[a].seen, call[a].body) \in Items
      BY <3>1, PutRowTyped DEF Items
    <3>. QED BY <1>2, <1>3, <2>3, <3>1, <3>2 DEF PutWrite, counts
  <2>4. CASE ToggleWrite(a)
    <3>1. call[a].key \in Keys /\ call[a].next \in BOOLEAN
      BY <2>4 DEF ToggleWrite, TypeOK, CallsOK, CallOK, Idle
    <3>2. budget[call[a].key] \in Rows \union {NoRow}
      BY <3>1 DEF TypeOK, TableOK, Items
    <3>3. /\ [enabled |-> call[a].next] \in Rows
          /\ \A row \in Rows : Over([enabled |-> call[a].next], row) \in Rows
      BY <3>1, ToggledTyped
    <3>4. \E row \in Items : Write(call[a].key, row)
      BY <2>4, <3>2, <3>3 DEF ToggleWrite, Items
    <3>. QED BY <1>2, <1>3, <2>4, <3>1, <3>4 DEF ToggleWrite, counts
  <2>5. ASSUME \/ \E k \in Keys : \/ OpenForm(a, k) \/ ToggleRead(a, k)
                                 \/ \E b \in Bodies : Put(a, k, b)
               \/ \E edit \in Edits : Save(a, edit)
               \/ Close(a) \/ DropDefaults(a) \/ \E b \in DefaultBodies : SetDefaults(a, b)
        PROVE  AllFollowed'
    <3>1. UNCHANGED <<budget, stream, faults>>
      BY <2>5 DEF OpenForm, ToggleRead, Put, Save, PutRead, Close, DropDefaults, SetDefaults,
           tableVars, counts
    <3>. QED BY <1>1, <1>3, <3>1 DEF syncVars
  <2>. QED BY <1>3, <2>1, <2>2, <2>3, <2>4, <2>5 DEF Administers
<1>4. ASSUME Manifest, UNCHANGED syncVars PROVE AllFollowed'
  <2>1. ASSUME job.op = "apply"
        PROVE  /\ ManifestOK(editor.m) /\ job.puts \subseteq DOMAIN editor.m.budgets
               /\ job.dels \subseteq editor.m.delete
    BY <2>1 DEF TypeOK, PagesOK, Jobs, Idle
  <2>2. CASE ApplyPut
    <3>1. PICK k \in job.puts : Write(k, EntryRow(editor.m.budgets[k]))
      BY <2>2 DEF ApplyPut
    <3>2. k \in Keys /\ EntryRow(editor.m.budgets[k]) \in Items
      BY <2>1, <2>2, EntryRowTyped DEF ApplyPut, ManifestOK, Items
    <3>. QED BY <1>2, <1>4, <2>2, <3>1, <3>2 DEF ApplyPut, counts
  <2>3. CASE ApplyDelete
    <3>1. PICK k \in job.dels : Write(k, NoRow)
      BY <2>3 DEF ApplyDelete
    <3>2. k \in Keys /\ NoRow \in Items
      BY <2>1, <2>3 DEF ApplyDelete, ManifestOK, Items
    <3>. QED BY <1>2, <1>4, <2>3, <3>1, <3>2 DEF ApplyDelete, counts
  <2>4. ASSUME \/ Export \/ (\E m \in Manifests : Author(m)) \/ Confirm \/ Discard
               \/ ApplyScan \/ ApplyDefaults \/ ApplyEnd \/ Leave \/ ApplyDies
        PROVE  AllFollowed'
    <3>1. UNCHANGED <<budget, stream>> /\ (faults' = faults \/ faults' = faults + 1)
      BY <2>4 DEF Export, Author, Confirm, Discard, ApplyScan, ApplyDefaults, ApplyEnd, Leave,
           ApplyDies, tableVars, counts
    <3>. QED BY <1>1, <1>4, <3>1 DEF syncVars
  <2>. QED BY <1>4, <2>2, <2>3, <2>4 DEF Manifest
<1>5. ASSUME Meter, UNCHANGED syncVars PROVE AllFollowed'
  <2>1. CASE \/ \E k \in Keys : MeterLookup(k) \/ MeterMisreads(k)
             \/ CacheDefaults
    <3>1. UNCHANGED <<budget, stream>> /\ (faults' = faults \/ faults' = faults + 1)
      BY <2>1 DEF MeterLookup, MeterMisreads, CacheDefaults, tableVars
    <3>. QED BY <1>1, <1>5, <3>1 DEF syncVars
  <2>2. CASE MeterDefault
    <3>1. CASE /\ cached # NoRow /\ cached.enabled /\ cached.limit > 0
               /\ budget[lookup.key] = NoRow
      <4>1. Write(lookup.key, DefaultRow(cached)) /\ lookup.key \in Keys /\ faults' = faults
        BY <2>2, <3>1 DEF MeterDefault, TypeOK, LookupOK, counts
      <4>2. DefaultRow(cached) \in Items
        BY <3>1, DefaultRowTyped DEF TypeOK, DefaultsOK, Items
      <4>. QED BY <1>2, <1>5, <4>1, <4>2
    <3>2. CASE ~(/\ cached # NoRow /\ cached.enabled /\ cached.limit > 0
                 /\ budget[lookup.key] = NoRow)
      <4>1. UNCHANGED <<budget, stream, faults>>
        BY <2>2, <3>2 DEF MeterDefault, tableVars, counts
      <4>. QED BY <1>1, <1>5, <4>1 DEF syncVars
    <3>. QED BY <3>1, <3>2
  <2>. QED BY <1>5, <2>1, <2>2 DEF Meter
<1>6. CASE Sync
  <2>1. faults' = faults \/ faults' = faults + 1
    BY <1>6 DEF Sync, SyncUpsert, SyncRemove, SyncFails
  <2>2. faults' = 0 => faults = 0
    BY <1>0, <2>1
  <2>. QED BY <1>6, <2>2, SyncFollowed
<1>7. CASE NextMonth \/ UNCHANGED vars
  <2>1. UNCHANGED <<budget, stream, native, actions, faults>>
    BY <1>7 DEF NextMonth, vars, apiVars, syncVars, tableVars, counts
  <2>. QED BY <1>1, <2>1
<1>. QED BY <1>3, <1>4, <1>5, <1>6, <1>7 DEF Next, ApiNext

(* MirrorConverges for any rows: once the stream is drained without a fault, AWS
   Budgets mirrors the table. *)
THEOREM MirrorConvergesAlways == Spec => []MirrorConverges
<1>1. Init => AllFollowed
  <2>. SUFFICES ASSUME Init PROVE AllFollowed
    OBVIOUS
  <2>1. /\ stream = <<>> /\ budget \in StartBudgets
        /\ native = [k \in Keys |-> NoRow] /\ actions = [k \in Keys |-> {}]
    BY DEF Init, ApiInit, SyncInit
  <2>2. \A k \in Keys : ~Mirrors(budget[k])
    BY <2>1, NotMirrored
  <2>3. \A k \in Keys : {i \in 1..Len(stream) : stream[i].key = k} = {}
    BY <2>1
  <2>. QED BY <2>1, <2>2, <2>3 DEF AllFollowed, Followed
<1>2. AllFollowed => MirrorConverges
  <2>. SUFFICES ASSUME AllFollowed, stream = <<>>, faults = 0, NEW k \in Keys PROVE Mirrored(k)
    BY DEF MirrorConverges
  <2>1. {i \in 1..Len(stream) : stream[i].key = k} = {}
    OBVIOUS
  <2>. QED BY <2>1 DEF AllFollowed, Followed, Mirrored
<1>. QED BY <1>1, <1>2, FollowedKept, TypeCorrect, PTL DEF Spec
================================================================================
