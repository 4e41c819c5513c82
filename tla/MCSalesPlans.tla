---------------------------- MODULE MCSalesPlans ----------------------------
(***************************************************************************)
(* Instances of SalesPlans for TLC, and what the policy page and the       *)
(* resolver make of every post of every type.                              *)
(***************************************************************************)
EXTENDS SalesPlans, TLC

CONSTANTS l1, l2, s1, s2, b1, b2, o1, o2, d1

MCCodes == {"SALES_ACTION_LIMITS", "SALES_STAGE_CAPACITY"}
Composite == [c \in MCCodes |-> "COMPOSITE"]
One(on) == [enabled |-> on, max |-> [k \in Planned |-> 1]]
BothOn == [c \in MCCodes |-> One(TRUE)]

\* The capacity is switched off and on.
SwitchCapacity ==
    [c \in MCCodes |-> IF c = "SALES_STAGE_CAPACITY" THEN {One(TRUE), One(FALSE)} ELSE {}]

\* Leads, and requests, differ in nothing but their names.
Alike == Permutations(Leads) \cup Permutations(Web)

\* What a page is posted with: an option or none, a value that may be empty (JSON).
Anything(type) ==
    CASE type = "OPTION" -> {o1, o2, NULL}
      [] type = "COMPOSITE" -> [enabled : BOOLEAN, max : [Planned -> -1..1]]
      [] type = "CODE" -> [code : {o1, o2}]
      [] type = "JSON" -> {d1, NULL}
      [] OTHER -> {d1}

\* A policy is shown as configured when the services find a value rather than their
\* default (policies/services.py:38-46, 190-193); the code that they find is the posted
\* one; and no number of a composite policy is below zero.
ASSUME ResolverReadsThePage ==
    \A type \in Types : \A post \in Anything(type) :
        LET r == Parsed(type, post)
        IN /\ IsSet(r) <=> ValueOf(r, NULL) # NULL
           /\ type = "OPTION" =>
                  /\ OptionCode(type, r, d1) = IF post \in Options THEN post ELSE d1
                  /\ ValueOf(r, d1) = OptionCode(type, r, d1)
           /\ type = "CODE" => OptionCode(type, r, d1) = post.code
           /\ type = "COMPOSITE" => r.value \in [enabled : BOOLEAN, max : [Planned -> Nat]]

=============================================================================
