--------------------------- MODULE MCSubscriptions ---------------------------
(* Instances of Subscriptions for TLC.                                     *)
EXTENDS Subscriptions

CONSTANTS s1, w1

\* All webhooks are about one checkout: it is paid, and later refunded.
MCReference == [w \in Webhooks |-> s1]
MCOutcome == [w \in Webhooks |-> IF w = w1 THEN "succeeded" ELSE "refunded"]
=============================================================================
