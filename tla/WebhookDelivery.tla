--------------------------- MODULE WebhookDelivery ---------------------------
(***************************************************************************)
(* The outgoing webhooks of the mail application                           *)
(* (backend/apps/mail/services/webhooks.py and its Celery tasks): events   *)
(* are written as one row per subscribed endpoint, the rows travel to      *)
(* workers in chunks through the broker, a worker claims a row before it   *)
(* sends it, and a sweep queues whatever is due.                           *)
(*                                                                         *)
(* A delivery is a pair <<endpoint, event>>: the table's unique constraint *)
(* keeps one row for it.  Time is counted in ticks, and every timer is the *)
(* number of ticks left, so the state space is finite without a clock      *)
(* bound.  Statements of the database take no ticks: Tick is disabled      *)
(* while a process is between the end of a request and the writes that     *)
(* record it (see README, "Time").                                         *)
(***************************************************************************)
EXTENDS Integers, Sequences, FiniteSets, SequencesExt

CONSTANTS
    Endpoints,    \* webhook addresses
    Events,       \* events emitted by the mail system
    PingEvents,   \* test events made by the Test button
    Subscribed,   \* the <<endpoint, event>> pairs the subscription filters let through
    Workers,      \* Celery worker processes
    Pingers,      \* web requests that run ping()
    Emitters,     \* processes that call emit_many()
    MaxAttempts,  \* policy().max_attempts
    Backoff,      \* ticks before attempt n+1
    ClaimTicks,   \* CLAIM_SECONDS
    SoftTicks,    \* WEBHOOK_BATCH_SOFT_TIME_LIMIT
    BudgetTicks,  \* BATCH_BUDGET_SECONDS
    Chunk,        \* DELIVERY_CHUNK
    SweepLimit,   \* rows one sweep queues
    MaxQueue,     \* bound of the model: messages in the broker
    MaxFaults,    \* bound of the model: lost messages and killed processes
    None          \* no delivery

Queued == Endpoints \X Events
Pings == Endpoints \X PingEvents
Deliveries == Queued \cup Pings
Procs == Workers \cup Pingers

ASSUME SetsAssumption ==
    /\ IsFiniteSet(Endpoints) /\ IsFiniteSet(Events) /\ IsFiniteSet(PingEvents)
    /\ Events \cap PingEvents = {}
    /\ Workers \cap Pingers = {}
    /\ Subscribed \subseteq Queued
    /\ None \notin Deliveries

\* A task starts before it claims anything, so its soft limit strikes before a
\* claim it made expires: WEBHOOK_BATCH_SOFT_TIME_LIMIT = CLAIM_SECONDS = 60.
ASSUME TimesAssumption ==
    /\ MaxAttempts \in Nat \ {0}
    /\ Backoff \in [1 .. MaxAttempts -> Nat \ {0}]
    /\ SoftTicks \in Nat /\ ClaimTicks \in Nat /\ SoftTicks < ClaimTicks
    /\ BudgetTicks \in Nat /\ Chunk \in Nat \ {0} /\ SweepLimit \in Nat
    /\ MaxQueue \in Nat /\ MaxFaults \in Nat

VARIABLES
    endpoint,  \* e -> "none", "on", "off" (active = False) or "deleted"
    status,    \* d -> "none" (no row), "pending", "delivered" or "failed"
    wait,      \* d -> ticks until next_attempt_at
    attempts,  \* d -> the attempts column
    queue,     \* the broker: a sequence of chunks, each a set of deliveries
    job,       \* p -> what a worker or a ping request is doing
    batch,     \* m -> what a caller of emit_many holds
    receipts,  \* history: deliveries some receiver answered 2xx
    posted,    \* history: d -> requests sent for the row
    faults     \* history: lost messages and killed processes

vars == <<endpoint, status, wait, attempts, queue, job, batch, receipts, posted, faults>>

rows == <<status, wait, attempts>>

IdleJob == [pc |-> "idle", chunk |-> {}, todo |-> {}, first |-> TRUE, cur |-> None,
            tries |-> 0, saw |-> FALSE, result |-> "none", left |-> 0]

StartedJob(chunk) ==
    [pc |-> "next", chunk |-> chunk, todo |-> chunk, first |-> TRUE, cur |-> None,
     tries |-> 0, saw |-> FALSE, result |-> "none", left |-> SoftTicks]

IdleBatch == [pc |-> "idle", wanted |-> {}, fresh |-> {}]

Init ==
    /\ endpoint = [e \in Endpoints |-> "none"]
    /\ status = [d \in Deliveries |-> "none"]
    /\ wait = [d \in Deliveries |-> 0]
    /\ attempts = [d \in Deliveries |-> 0]
    /\ queue = <<>>
    /\ job = [p \in Procs |-> IdleJob]
    /\ batch = [m \in Emitters |-> IdleBatch]
    /\ receipts = {}
    /\ posted = [d \in Deliveries |-> 0]
    /\ faults = 0

-----------------------------------------------------------------------------
(* The broker.                                                             *)

\* The ways to group the rows ds for the broker: one endpoint to a chunk, at
\* most Chunk rows in it, and only the last chunk of an endpoint short.  The
\* round-robin order of the chunks is left open.
Chunkings(ds) ==
    {parts \in SUBSET ((SUBSET ds) \ {{}}) :
        /\ UNION parts = ds
        /\ \A c1, c2 \in parts : c1 # c2 => c1 \cap c2 = {}
        /\ \A c \in parts : Cardinality(c) <= Chunk /\ \A d1, d2 \in c : d1[1] = d2[1]
        /\ \A c1, c2 \in parts :
              /\ c1 # c2
              /\ \E d1 \in c1, d2 \in c2 : d1[1] = d2[1]
              => Cardinality(c1) = Chunk \/ Cardinality(c2) = Chunk}

\* delay() of each chunk, some of which the broker may not take: the code
\* catches the error and leaves those rows to the sweep.
Publish(parts) ==
    \E sent \in SUBSET parts :
        /\ sent # parts => faults < MaxFaults
        /\ queue' = queue \o SetToSeq(sent)
        /\ faults' = faults + (IF sent = parts THEN 0 ELSE 1)

-----------------------------------------------------------------------------
(* Endpoints: create, switch on or off, delete with their rows.            *)

CreateEndpoint(e) ==
    /\ endpoint[e] = "none"
    /\ endpoint' = [endpoint EXCEPT ![e] = "on"]
    /\ UNCHANGED <<rows, queue, job, batch, receipts, posted, faults>>

SetActive(e, active) ==
    /\ endpoint[e] \in {"on", "off"}
    /\ endpoint' = [endpoint EXCEPT ![e] = IF active THEN "on" ELSE "off"]
    /\ UNCHANGED <<rows, queue, job, batch, receipts, posted, faults>>

DeleteEndpoint(e) ==
    /\ endpoint[e] \in {"on", "off"}
    /\ endpoint' = [endpoint EXCEPT ![e] = "deleted"]
    /\ status' = [d \in Deliveries |-> IF d[1] = e THEN "none" ELSE status[d]]
    /\ wait' = [d \in Deliveries |-> IF d[1] = e THEN 0 ELSE wait[d]]
    /\ attempts' = [d \in Deliveries |-> IF d[1] = e THEN 0 ELSE attempts[d]]
    /\ UNCHANGED <<queue, job, batch, receipts, posted, faults>>

-----------------------------------------------------------------------------
(* emit_many: read the endpoints, look up the rows that exist, insert the   *)
(* others, queue them when the transaction commits.                        *)

EmitRead(m, events) ==
    LET wanted == {d \in Subscribed : d[2] \in events /\ endpoint[d[1]] = "on"}
    IN  /\ batch[m].pc = "idle"
        /\ wanted # {}
        /\ batch' = [batch EXCEPT ![m] = [pc |-> "lookup", wanted |-> wanted, fresh |-> {}]]
        /\ UNCHANGED <<endpoint, rows, queue, job, receipts, posted, faults>>

EmitLookup(m) ==
    /\ batch[m].pc = "lookup"
    /\ batch' = [batch EXCEPT
          ![m] = [pc |-> "insert", wanted |-> batch[m].wanted,
                  fresh |-> {d \in batch[m].wanted : status[d] = "none"}]]
    /\ UNCHANGED <<endpoint, rows, queue, job, receipts, posted, faults>>

\* Mutant of Inserted: the conflict updates the row instead of ignoring it.
UpsertedMutant(fresh) == fresh

\* The rows the insert makes: one another writer queued since the lookup is
\* ignored (the unique constraint).
Inserted(fresh) == {d \in fresh : status[d] = "none"}

\* A row another writer queued meanwhile is still in what emit_many schedules.
EmitInsert(m) ==
    LET fresh == batch[m].fresh
    IN  /\ batch[m].pc = "insert"
        /\ \A d \in fresh : endpoint[d[1]] # "deleted"
        /\ status' = [d \in Deliveries |-> IF d \in Inserted(fresh) THEN "pending" ELSE status[d]]
        /\ \E parts \in Chunkings(fresh) : Publish(parts)
        /\ batch' = [batch EXCEPT ![m] = IdleBatch]
        /\ UNCHANGED <<endpoint, wait, attempts, job, receipts, posted>>

\* The foreign key of a row whose endpoint was deleted since EmitRead fails the
\* whole insert: none of the batch is queued.
EmitRefused(m) ==
    /\ batch[m].pc = "insert"
    /\ \E d \in batch[m].fresh : endpoint[d[1]] = "deleted"
    /\ batch' = [batch EXCEPT ![m] = IdleBatch]
    /\ UNCHANGED <<endpoint, rows, queue, job, receipts, posted, faults>>

-----------------------------------------------------------------------------
(* A worker: deliver_batch over a chunk, deliver, _claim and attempt.       *)

Take(w) ==
    /\ job[w].pc = "idle"
    /\ queue # <<>>
    /\ queue' = Tail(queue)
    /\ job' = [job EXCEPT ![w] = StartedJob(Head(queue))]
    /\ UNCHANGED <<endpoint, rows, batch, receipts, posted, faults>>

\* Mutant of OverBudget: the clock is checked before the first delivery too.
OverBudgetMutant(w) == SoftTicks - job[w].left >= BudgetTicks

\* The clock is looked at from the second delivery on.
OverBudget(w) == ~job[w].first /\ SoftTicks - job[w].left > BudgetTicks

Finish(w) ==
    /\ job[w].pc = "next"
    /\ job[w].todo = {}
    /\ job' = [job EXCEPT ![w] = IdleJob]
    /\ UNCHANGED <<endpoint, rows, queue, batch, receipts, posted, faults>>

Requeue(w) ==
    /\ job[w].pc = "next"
    /\ job[w].todo # {}
    /\ OverBudget(w)
    /\ Publish({job[w].todo})
    /\ job' = [job EXCEPT ![w] = IdleJob]
    /\ UNCHANGED <<endpoint, rows, batch, receipts, posted>>

Due(d) == status[d] = "pending" /\ wait[d] = 0

\* Somebody else has it, or the row is finished or gone: on to the next one.
Skip(w, d) ==
    /\ job[w].pc = "next"
    /\ d \in job[w].todo
    /\ ~OverBudget(w)
    /\ ~Due(d)
    /\ job' = [job EXCEPT ![w].todo = @ \ {d}, ![w].first = FALSE]
    /\ UNCHANGED <<endpoint, rows, queue, batch, receipts, posted, faults>>

\* Mutant of ClaimedFor: the claim does not move next_attempt_at.
ClaimedForMutant == 0

\* How far a claim moves next_attempt_at out.
ClaimedFor == ClaimTicks

\* The claim and the read that follows it.  attempt() goes by the endpoint it
\* read here: a request is sent only if it was active.
Claim(w, d) ==
    LET active == endpoint[d[1]] = "on"
    IN  /\ job[w].pc = "next"
        /\ d \in job[w].todo
        /\ ~OverBudget(w)
        /\ Due(d)
        /\ wait' = [wait EXCEPT ![d] = ClaimedFor]
        /\ job' = [job EXCEPT ![w].todo = @ \ {d}, ![w].first = FALSE, ![w].cur = d,
                              ![w].tries = attempts[d] + 1, ![w].saw = active,
                              ![w].pc = IF active THEN "posting" ELSE "saveEndpoint",
                              ![w].result = IF active THEN "none" ELSE "error"]
        /\ posted' = [posted EXCEPT ![d] = @ + (IF active THEN 1 ELSE 0)]
        /\ UNCHANGED <<endpoint, status, attempts, queue, batch, receipts, faults>>

\* How the request ends: 2xx, 410, or anything else (another status, a timeout,
\* a refused address, the soft limit raised inside the request).
Answer(p, result) ==
    /\ job[p].pc = "posting"
    /\ job' = [job EXCEPT ![p].pc = "saveEndpoint", ![p].result = result]
    /\ receipts' = IF result = "ok" THEN receipts \cup {job[p].cur} ELSE receipts
    /\ UNCHANGED <<endpoint, rows, queue, batch, posted, faults>>

\* A success leaves the active column alone; a failure writes it, from what
\* this attempt read when it began.
SaveEndpoint(p) ==
    LET e == job[p].cur[1]
        active == job[p].saw /\ job[p].result # "gone"
    IN  /\ job[p].pc = "saveEndpoint"
        /\ endpoint[e] # "deleted"
        /\ endpoint' = IF job[p].result = "ok" THEN endpoint
                       ELSE [endpoint EXCEPT ![e] = IF active THEN "on" ELSE "off"]
        /\ job' = [job EXCEPT ![p].pc = "saveDelivery"]
        /\ UNCHANGED <<rows, queue, batch, receipts, posted, faults>>

\* Mutant of Retries: one attempt too many.
RetriesMutant(p) == job[p].result = "error" /\ job[p].tries <= MaxAttempts

\* A failure other than 410 is tried again until the attempts are spent.
Retries(p) == job[p].result = "error" /\ job[p].tries < MaxAttempts

SaveDelivery(p) ==
    LET d == job[p].cur
        retry == Retries(p)
    IN  /\ job[p].pc = "saveDelivery"
        /\ status[d] # "none"
        /\ attempts' = [attempts EXCEPT ![d] = job[p].tries]
        /\ status' = [status EXCEPT ![d] = IF job[p].result = "ok" THEN "delivered"
                                           ELSE IF retry THEN "pending" ELSE "failed"]
        /\ wait' = [wait EXCEPT ![d] = IF retry THEN Backoff[job[p].tries] ELSE 0]
        /\ job' = [job EXCEPT ![p] = IF p \in Pingers THEN IdleJob
                                     ELSE [@ EXCEPT !.pc = "next", !.cur = None, !.tries = 0,
                                                    !.saw = FALSE, !.result = "none"]]
        /\ UNCHANGED <<endpoint, queue, batch, receipts, posted, faults>>

\* Saving a row that was deleted meanwhile raises, and the task ends there.
Abort(p) ==
    /\ \/ job[p].pc = "saveEndpoint" /\ endpoint[job[p].cur[1]] = "deleted"
       \/ job[p].pc = "saveDelivery" /\ status[job[p].cur] = "none"
    /\ job' = [job EXCEPT ![p] = IdleJob]
    /\ UNCHANGED <<endpoint, rows, queue, batch, receipts, posted, faults>>

\* The process dies at any point.  A chunk of a worker that dies with its
\* container is redelivered (acks_late); one killed by its hard limit is not.
Kill(p) ==
    /\ job[p].pc # "idle"
    /\ faults < MaxFaults
    /\ faults' = faults + 1
    /\ \/ queue' = queue
       \/ p \in Workers /\ queue' = Append(queue, job[p].chunk)
    /\ job' = [job EXCEPT ![p] = IdleJob]
    /\ UNCHANGED <<endpoint, rows, batch, receipts, posted>>

-----------------------------------------------------------------------------
(* The sweep, the Test button and time.                                    *)

\* Mutant of Sweepable: the sweep looks only for lost messages, not for retries.
SweepableMutant == {d \in Deliveries : Due(d) /\ attempts[d] = 0}

\* What the sweep looks for.
Sweepable == {d \in Deliveries : Due(d)}

\* Rows the sweep may forget, when they are old enough.
Finished == {d \in Deliveries : status[d] \in {"delivered", "failed"}}

\* Queue what is due (at most SweepLimit rows) and forget finished rows that
\* are old enough: any of them may be.
Sweep ==
    \E due \in SUBSET Sweepable, old \in SUBSET Finished :
        /\ Cardinality(due) <= SweepLimit
        /\ due # Sweepable => Cardinality(due) = SweepLimit
        /\ due # {} \/ old # {}
        /\ \E parts \in Chunkings(due) :
              /\ Len(queue) + Cardinality(parts) <= MaxQueue
              /\ Publish(parts)
        /\ status' = [d \in Deliveries |-> IF d \in old THEN "none" ELSE status[d]]
        /\ attempts' = [d \in Deliveries |-> IF d \in old THEN 0 ELSE attempts[d]]
        /\ posted' = [d \in Deliveries |-> IF d \in old THEN 0 ELSE posted[d]]
        /\ receipts' = receipts \ old
        /\ UNCHANGED <<endpoint, wait, job, batch>>

\* ping(): the row is pending and due at once, and attempt() runs without a
\* claim.
Ping(p, d) ==
    LET active == endpoint[d[1]] = "on"
    IN  /\ job[p].pc = "idle"
        /\ endpoint[d[1]] \in {"on", "off"}
        /\ status[d] = "none"
        /\ status' = [status EXCEPT ![d] = "pending"]
        /\ job' = [job EXCEPT ![p] = [IdleJob EXCEPT
                !.cur = d, !.tries = 1, !.saw = active,
                !.pc = IF active THEN "posting" ELSE "saveEndpoint",
                !.result = IF active THEN "none" ELSE "error"]]
        /\ posted' = [posted EXCEPT ![d] = @ + (IF active THEN 1 ELSE 0)]
        /\ UNCHANGED <<endpoint, wait, attempts, queue, batch, receipts, faults>>

\* A request may last ticks, but not past the soft limit of its task; nothing
\* else does.
Tick ==
    /\ \A p \in Procs : job[p].pc \in {"idle", "posting"}
    /\ \A w \in Workers : job[w].pc = "posting" => job[w].left > 0
    /\ \/ \E d \in Deliveries : wait[d] > 0
       \/ \E w \in Workers : job[w].left > 0
    /\ wait' = [d \in Deliveries |-> IF wait[d] > 0 THEN wait[d] - 1 ELSE 0]
    /\ job' = [p \in Procs |-> IF job[p].left > 0 THEN [job[p] EXCEPT !.left = @ - 1]
                               ELSE job[p]]
    /\ UNCHANGED <<endpoint, status, attempts, queue, batch, receipts, posted, faults>>

-----------------------------------------------------------------------------
Emit(m) == (\E events \in SUBSET Events : EmitRead(m, events))
           \/ EmitLookup(m) \/ EmitInsert(m) \/ EmitRefused(m)

Manage(e) == CreateEndpoint(e) \/ (\E active \in BOOLEAN : SetActive(e, active)) \/ DeleteEndpoint(e)

Loop(w) == Take(w) \/ Finish(w) \/ Requeue(w) \/ \E d \in Deliveries : Skip(w, d) \/ Claim(w, d)

Attempt(p) == (\E result \in {"ok", "gone", "error"} : Answer(p, result))
              \/ SaveEndpoint(p) \/ SaveDelivery(p) \/ Abort(p)

Next ==
    \/ \E e \in Endpoints : Manage(e)
    \/ \E m \in Emitters : Emit(m)
    \/ \E w \in Workers : Loop(w)
    \/ \E p \in Procs : Attempt(p) \/ Kill(p)
    \/ \E p \in Pingers, d \in Pings : Ping(p, d)
    \/ Sweep
    \/ Tick

Spec == Init /\ [][Next]_vars

-----------------------------------------------------------------------------
(* What must hold.                                                         *)

Jobs == [pc : {"idle", "next", "posting", "saveEndpoint", "saveDelivery"},
         chunk : SUBSET Deliveries, todo : SUBSET Deliveries, first : BOOLEAN,
         cur : Deliveries \cup {None}, tries : 0 .. MaxAttempts, saw : BOOLEAN,
         result : {"none", "ok", "gone", "error"}, left : 0 .. SoftTicks]

Batches == [pc : {"idle", "lookup", "insert"}, wanted : SUBSET Queued, fresh : SUBSET Queued]

\* Every variable keeps its type; a row that is not pending has no timer.
TypeOK ==
    /\ endpoint \in [Endpoints -> {"none", "on", "off", "deleted"}]
    /\ status \in [Deliveries -> {"none", "pending", "delivered", "failed"}]
    /\ wait \in [Deliveries -> Nat]
    /\ attempts \in [Deliveries -> 0 .. MaxAttempts]
    /\ queue \in Seq(SUBSET Deliveries)
    /\ job \in [Procs -> Jobs]
    /\ batch \in [Emitters -> Batches]
    /\ receipts \in SUBSET Deliveries
    /\ posted \in [Deliveries -> Nat]
    /\ faults \in 0 .. MaxFaults

Holds(p) == job[p].pc \in {"posting", "saveEndpoint", "saveDelivery"}

\* An event is being sent by at most one process at any time: the claim of
\* _claim outlasts the attempt it was taken for, so neither a chunk queued
\* twice, nor the sweep, nor a redelivered chunk sends it alongside.
OneSender ==
    \A d \in Queued : \A p, q \in Procs :
        /\ job[p].pc = "posting" /\ job[p].cur = d
        /\ job[q].pc = "posting" /\ job[q].cur = d
        => p = q

\* A receiver sees an event at most max_attempts times, and once more for each
\* process that died with the answer: duplicates in the queue cost no request.
PostsBounded == \A d \in Queued : posted[d] <= MaxAttempts + faults

\* The table, seen through the contract of WebhookContract: a row is delivered
\* only after a 2xx, no receiver is sent a row that has an outcome, and sweeping
\* forgets no pending row.
ContractState == [d \in Queued |-> IF endpoint[d[1]] = "deleted" THEN "gone" ELSE status[d]]

Contract == INSTANCE WebhookContract
                WITH Deliveries <- Queued, state <- ContractState, receipts <- receipts \cap Queued

ImplementsContract == Contract!Spec

\* Why those hold, as an inductive invariant.  A row that is not there has no
\* attempts, a pending one has some left, and a deleted endpoint has no rows.
RowsOK ==
    /\ \A d \in Deliveries : status[d] = "none" => attempts[d] = 0
    /\ \A d \in Deliveries : status[d] = "pending" => attempts[d] < MaxAttempts
    /\ \A d \in Deliveries : endpoint[d[1]] = "deleted" => status[d] = "none"

\* Whoever holds an event is a worker, its row is pending unless the endpoint was
\* deleted under it, and the claim outlasts the time the task has left.
ClaimsOK ==
    \A p \in Procs : Holds(p) =>
        /\ job[p].cur \in Deliveries /\ job[p].tries > 0
        /\ job[p].cur \in Queued =>
              /\ p \in Workers
              /\ job[p].result = "ok" => job[p].cur \in receipts
              /\ \/ endpoint[job[p].cur[1]] = "deleted"
                 \/ /\ status[job[p].cur] = "pending"
                    /\ wait[job[p].cur] > 0
                    /\ job[p].pc = "posting" => wait[job[p].cur] > job[p].left

\* No two processes hold the same event.
Exclusive ==
    \A p, q \in Procs :
        Holds(p) /\ Holds(q) /\ job[p].cur = job[q].cur /\ job[p].cur \in Queued => p = q

IInv == TypeOK /\ RowsOK /\ ClaimsOK /\ Exclusive

\* "A 410 Gone switches the endpoint off": an endpoint that is off goes on again
\* only when somebody switches it on.
OffStaysOff ==
    [][\A e \in Endpoints :
          endpoint[e] = "off" /\ endpoint'[e] = "on" => SetActive(e, TRUE)]_vars

\* The workers run, requests end (by their timeout or the soft limit), the beat
\* runs the sweep every minute, and time passes.
Fairness ==
    /\ \A w \in Workers : WF_vars(Loop(w))
    /\ \A p \in Procs : WF_vars(Attempt(p))
    /\ \A m \in Emitters : WF_vars(EmitLookup(m) \/ EmitInsert(m) \/ EmitRefused(m))
    /\ SF_vars(Sweep)
    /\ SF_vars(Tick)

FairSpec == Spec /\ Fairness

\* However many messages the broker loses and workers die, a queued event ends:
\* delivered, failed, or gone with its endpoint.
Settles == \A d \in Deliveries : status[d] = "pending" ~> status[d] # "pending"
=============================================================================
