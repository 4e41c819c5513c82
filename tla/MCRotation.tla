----------------------------- MODULE MCRotation -----------------------------
EXTENDS Rotation, TLC
CONSTANTS l1, l2, l3

\* Two salesmen in the first team and one in the second, who does not speak the
\* language of l1.
MCTeamOf == (1 :> 1) @@ (2 :> 1) @@ (3 :> 2)
MCSpeaks == (1 :> {"ar", "en"}) @@ (2 :> {"ar", "en"}) @@ (3 :> {"ar"})
MCLanguageOf == [l \in Leads |-> IF l = l1 THEN "en" ELSE "ar"]

P(auto, scope, expiry) == [auto |-> auto, scope |-> scope, expiry |-> expiry]
Escalating == P("ROUND_ROBIN", "TEAM_THEN_SALESMAN", "RETRY_TEAM_ESCALATION")
Turning == P("BY_TURN", "TEAM_HEAD_DECIDES", "BY_TURN")
Levelling == P("ROUND_ROBIN", "ALL_SALESMEN", "MANUAL")
ByHand == P("ROUND_ROBIN", "TEAM_THEN_SALESMAN", "MANUAL")
MCPolicies == {Escalating, Turning, Levelling, ByHand}

\* Loads need three leads that nobody touches, turns two of one language,
\* rotations one.
MCArriving ==
    [p \in MCPolicies |-> IF p = Levelling THEN Leads
                         ELSE IF p = Turning THEN {l2, l3} ELSE {l2}]
MCWorked == [p \in MCPolicies |-> IF p = Levelling THEN {} ELSE {l2}]

Sym == Permutations(Runs)
=============================================================================
