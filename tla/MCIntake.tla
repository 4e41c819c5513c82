------------------------------ MODULE MCIntake ------------------------------
EXTENDS Intake, TLC
CONSTANTS s1, s2, head, manager, agency, acme, plain, spaced

All == Sources \cup {"bulk", "manual_all", "team_manual"}
MCUsers == {s1, s2, head, manager, agency}
MCGrants == [u \in MCUsers |->
    CASE u = manager -> All
      [] u = head -> {"SELF_GENERATED", "team_manual"}
      [] u = agency -> {"BROKER", "bulk"}
      [] OTHER -> {"SELF_GENERATED"}]
MCMembers == <<{s1}, {s2}>>
MCHeads == <<head, manager>>
MCBrokerOf == [u \in MCUsers |-> IF u = agency THEN acme ELSE NULL]
MCPriorOf == [p \in Phones |-> IF p = plain THEN s1 ELSE NULL]
MCDigits == [p \in Phones |-> plain]

Filled(source, actor) ==
    [door |-> "page", source |-> source, phone |-> plain, actor |-> actor, pick |-> NULL,
     team |-> NULL, assign |-> "self", dist |-> "auto", broker |-> NULL]
MCForms == {
    Filled("WALK_IN", manager),
    [Filled("WALK_IN", manager) EXCEPT !.phone = spaced, !.pick = s2],
    [Filled("BROKER", manager) EXCEPT !.broker = acme, !.pick = s1],
    [Filled("BROKER", agency) EXCEPT !.door = "file", !.phone = spaced],
    [Filled("SELF_GENERATED", head) EXCEPT !.assign = "rr"],
    [Filled("CAMPAIGN", manager) EXCEPT !.dist = "manual", !.team = 1, !.phone = spaced],
    Filled("EXISTING_CLIENT", manager)}
MCSetups == {
    [walkin |-> "TEAM_TURN", head |-> "SELF_OR_MANUAL_TEAM", also |-> TRUE,
     preserve |-> TRUE, bulk |-> "AUTO", away |-> {}, left |-> {}],
    [walkin |-> "FULL_ROTATION", head |-> "SELF_ONLY", also |-> FALSE,
     preserve |-> FALSE, bulk |-> "MANUAL", away |-> {s1}, left |-> {}]}
\* Nothing tells processes or keys apart.
Alike == Permutations(Processes) \cup Permutations(Keys)
=============================================================================
