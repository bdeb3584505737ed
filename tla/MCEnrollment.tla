---- MODULE MCEnrollment ----
(* Instances of Enrollment for TLC: two stages with a page each, a home       *)
(* account, a member in a unit and an account that starts outside.            *)
EXTENDS Enrollment, TLC

CONSTANTS dev, prod, h, a, x, u, west, east

MCStageOf == [p \in Pages |-> p]
MCTurn == dev :> 1 @@ prod :> 2
MCOrg == h :> NoUnit @@ a :> u
MCRegions == {{east}}

Nothing == [members |-> NoEntry, orgAccounts |-> NoEntry, ous |-> NoEntry, whole |-> NoEntry, metered |-> None]
FlatLists == [Nothing EXCEPT !.members = Flat(x :> {west})]
FlatWhole == [Nothing EXCEPT !.orgAccounts = ByStage(prod :> (a :> {east})),
                             !.ous = Flat(u :> {west}),
                             !.whole = Flat([regions |-> {west}, excluded |-> {a}]),
                             !.metered = {west, east}]
MCConfigs == {FlatLists, FlatWhole}

ExternalAndWhole ==
    [members |-> x :> {west}, orgAccounts |-> NoList, ous |-> NoList,
     whole |-> [regions |-> {west}, excluded |-> {}]]
MCForms == {ExternalAndWhole}
====
