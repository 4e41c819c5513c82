------------------------------ MODULE Policies ------------------------------
(***************************************************************************)
(* The company's policies: one row for each that was ever set, written     *)
(* whole by the policy page and read by the services each time they need   *)
(* it, nothing of it being cached.                                         *)
(*                                                                         *)
(* A row holds the chosen option or a value, according to the policy's     *)
(* type.  A service that asks for the code of an option also accepts a     *)
(* value that carries a code, and one that asks for the value is given the *)
(* option's code where there is none.                                      *)
(*                                                                         *)
(* The audit entry of a change, and the parameters of a policy, which no   *)
(* page writes, are left out.                                              *)
(***************************************************************************)
EXTENDS Integers

CONSTANTS
    Codes,         \* policies
    Type,          \* the type of each
    Options,       \* codes of options
    Posts,         \* what the page of each policy may be posted with
    Fields,        \* the numbers of a composite policy
    NULL

Types == {"OPTION", "DURATION", "INTEGER", "BOOLEAN", "JSON", "CODE", "COMPOSITE"}

ASSUME PoliciesHaveTypes == Type \in [Codes -> Types]

VARIABLE policy    \* CompanyPolicyValue: its option and its value

Row(option, value) == [option |-> option, value |-> value]
\* No row, or one that says nothing.
Unset == Row(NULL, NULL)

-----------------------------------------------------------------------------
(***************************************************************************)
(* Reading: PolicyResolver.                                                *)
(***************************************************************************)

\* A value of type CODE carries a code; those of the other pages do not.
HasCode(type, r) == type = "CODE" /\ r.value # NULL

OptionCode(type, r, default) ==
    IF r.option # NULL THEN r.option
    ELSE IF HasCode(type, r) THEN r.value.code ELSE default

ValueOf(r, default) ==
    IF r.value # NULL THEN r.value ELSE IF r.option # NULL THEN r.option ELSE default

\* What the page shows as configured.
IsSet(r) == r.option # NULL \/ r.value # NULL

\* A composite policy counts only while it is switched on: _composite.
Enabled(c) == policy[c].value # NULL /\ policy[c].value.enabled

-----------------------------------------------------------------------------
(***************************************************************************)
(* Writing.                                                                *)
(***************************************************************************)

\* composite.parse_post: numbers below zero count as zero.
ParsePost(post) ==
    [enabled |-> post.enabled,
     max |-> [f \in Fields |-> IF post.max[f] < 0 THEN 0 ELSE post.max[f]]]

\* set_value_from_post: a code that is no option of the policy leaves it unset.
Parsed(type, post) ==
    CASE type = "OPTION" -> IF post \in Options THEN Row(post, NULL) ELSE Unset
      [] type = "COMPOSITE" -> Row(NULL, ParsePost(post))
      [] OTHER -> Row(NULL, post)

\* set_value, for the post of the policy's page.
SetPolicy(c, post) ==
    /\ post \in Posts[c]
    /\ policy' = [policy EXCEPT ![c] = Parsed(Type[c], post)]

=============================================================================
