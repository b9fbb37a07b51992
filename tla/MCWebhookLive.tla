---------------------------- MODULE MCWebhookLive ----------------------------
(* WebhookDelivery for its liveness, in two scenes: a row that a web        *)
(* process left pending, under faults, and a chunk of two events that the   *)
(* time budget splits.  Nobody subscribes to the endpoint e2; that it was   *)
(* created first tells the second scene.                                    *)
EXTENDS WebhookDelivery

CONSTANTS e1, e2, v1, v2, ping, w1, web, m1

MCBackoff == [n \in 1 .. MaxAttempts |-> n]

MCSubscribed == {e1} \X Events

Chunked == endpoint[e2] = "on"

\* The second scene begins when all the faults have been.
MCInit ==
    /\ \/ endpoint = [e \in Endpoints |-> "none"] /\ faults = 0
       \/ endpoint = [e \in Endpoints |-> IF e = e2 THEN "on" ELSE "none"] /\ faults = MaxFaults
    /\ status = [d \in Deliveries |-> "none"]
    /\ wait = [d \in Deliveries |-> 0]
    /\ attempts = [d \in Deliveries |-> 0]
    /\ queue = <<>>
    /\ job = [p \in Procs |-> IdleJob]
    /\ batch = [m \in Emitters |-> IdleBatch]
    /\ receipts = {}
    /\ posted = [d \in Deliveries |-> 0]

\* In the second scene the endpoint is not switched off, and each event is refused
\* at most once.
Quiet == Chunked => endpoint'[e1] # "off" /\ \A d \in Queued : attempts'[d] <= 1

\* Only the first scene tests an endpoint, and only the second emits.
MCNext ==
    \/ \E w \in Workers : Loop(w)
    \/ Tick
    \/ Manage(e1) /\ Quiet
    \/ Chunked /\ \E m \in Emitters : Emit(m)
    \/ Sweep
    \/ \E p \in Procs : Attempt(p) /\ Quiet
    \/ \E p \in Procs : Kill(p)
    \/ ~Chunked /\ \E p \in Pingers : Ping(p, <<e1, ping>>)

MCSpec == MCInit /\ [][MCNext]_vars /\ Fairness
=============================================================================
