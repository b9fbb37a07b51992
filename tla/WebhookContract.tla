--------------------------- MODULE WebhookContract ---------------------------
(***************************************************************************)
(* What the webhook queue promises of one delivery, whoever sends it and    *)
(* whatever dies on the way: a row is delivered only if its receiver        *)
(* answered 2xx, a receiver is never sent a row that reached an end, and an *)
(* end is never taken back while the row is kept.                          *)
(***************************************************************************)
CONSTANT Deliveries

VARIABLES
    state,    \* d -> "none", "pending", "delivered", "failed" or "gone" (endpoint deleted)
    receipts  \* deliveries a receiver answered 2xx

vars == <<state, receipts>>

Init == state = [d \in Deliveries |-> "none"] /\ receipts = {}

\* New rows, one for each delivery that has none.
Enqueue(new) ==
    /\ \A d \in new : state[d] = "none"
    /\ state' = [d \in Deliveries |-> IF d \in new THEN "pending" ELSE state[d]]
    /\ UNCHANGED receipts

\* The receiver answers 2xx: only a row without an outcome is ever sent.  (A
\* request may still be out when its endpoint is deleted.)
Accept(d) ==
    /\ state[d] \in {"pending", "gone"}
    /\ receipts' = receipts \cup {d}
    /\ UNCHANGED state

Settle(d, outcome) ==
    /\ state[d] = "pending"
    /\ outcome = "delivered" => d \in receipts
    /\ state' = [state EXCEPT ![d] = outcome]
    /\ UNCHANGED receipts

\* Old rows are dropped, never one that is pending.
Forget(old) ==
    /\ \A d \in old : state[d] \in {"delivered", "failed"}
    /\ state' = [d \in Deliveries |-> IF d \in old THEN "none" ELSE state[d]]
    /\ receipts' = receipts \ old

\* The endpoint is deleted, and its rows with it.
Remove(gone) ==
    /\ state' = [d \in Deliveries |-> IF d \in gone THEN "gone" ELSE state[d]]
    /\ UNCHANGED receipts

Next ==
    \/ \E new \in SUBSET Deliveries : Enqueue(new) \/ Forget(new) \/ Remove(new)
    \/ \E d \in Deliveries : Accept(d) \/ \E outcome \in {"delivered", "failed"} : Settle(d, outcome)

Spec == Init /\ [][Next]_vars
=============================================================================
