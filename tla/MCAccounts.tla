---- MODULE MCAccounts ----
(* Two ids, two addresses and two administrators, and a feed that already has *)
(* rows of today and of yesterday.                                            *)
EXTENDS Accounts, TLC

Event(day, sk, type) ==
    [day |-> day, sk |-> sk, type |-> type, key |-> UserKey("i1"), who |-> "i1", excused |-> TRUE]
MCEarlier == {Event(-1, 1, "deleted"), Event(-1, 2, "groups"), Event(0, 3, "updated")}
Types == {"created", "groups", "switched", "updated", "deleted"}
MCFilters == {Types, {"groups"}}
Symmetric == Permutations(Sessions) \cup Permutations(Groups)
====
