----------------------------- MODULE MCWebhooks -----------------------------
EXTENDS Webhooks, TLC
CONSTANTS p1, p2, p3

\* Two payloads with one event id, one of which lacks the phone, and a payload
\* without an event id, of the phone of the first.
MCKeyOf == (p1 :> "k") @@ (p2 :> "k") @@ (p3 :> NULL)
MCPhoneOf == (p1 :> "f") @@ (p2 :> NULL) @@ (p3 :> "f")
=============================================================================
