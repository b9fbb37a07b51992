-------------------------- MODULE MCWebhookDelivery --------------------------
(* Instances of WebhookDelivery for TLC. *)
EXTENDS WebhookDelivery

CONSTANTS e1, v1, v2, ping, w1, w2, web, m1, m2

MCBackoff == [n \in 1 .. MaxAttempts |-> n]

MCSubscribed == Endpoints \X Events

MCSymmetry == Permutations(Workers) \cup Permutations(Emitters)
=============================================================================
