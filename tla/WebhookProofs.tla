---------------------------- MODULE WebhookProofs ----------------------------
(***************************************************************************)
(* Proofs about WebhookDelivery, for every number of endpoints, events,     *)
(* workers and emitters and every value of the limits.                     *)
(***************************************************************************)
EXTENDS WebhookDelivery, FunctionTheorems, FiniteSetTheorems, TLAPS

\* The elements of a finite set of S, put in a sequence, are a sequence over S.
LEMMA SetToSeqType ==
    ASSUME NEW S, NEW T \in SUBSET S, IsFiniteSet(T)
    PROVE  SetToSeq(T) \in Seq(S)
<1>1. Cardinality(T) \in Nat /\ ExistsBijection(1 .. Cardinality(T), T)
  BY FS_CardinalityType
<1>2. PICK f \in Bijection(1 .. Cardinality(T), T) : TRUE
  BY <1>1 DEF ExistsBijection
<1>3. f \in [1 .. Cardinality(T) -> T] /\ IsInjective(f)
  BY <1>2 DEF Bijection, Injection
<1>4. SetToSeq(T) \in [1 .. Cardinality(T) -> T]
  BY <1>3 DEF SetToSeq
<1> QED
  BY <1>1, <1>4

\* Publishing chunks of rows keeps the type of the queue and of the counter.
LEMMA PublishType ==
    ASSUME TypeOK, NEW parts \in SUBSET (SUBSET Deliveries), Publish(parts)
    PROVE  queue' \in Seq(SUBSET Deliveries) /\ faults' \in 0 .. MaxFaults
<1>1. IsFiniteSet(Deliveries)
  BY SetsAssumption, FS_Product, FS_Union DEF Deliveries, Queued, Pings
<1>2. IsFiniteSet(SUBSET Deliveries)
  BY <1>1, FS_SUBSET
<1>3. PICK sent \in SUBSET parts :
        /\ sent # parts => faults < MaxFaults
        /\ queue' = queue \o SetToSeq(sent)
        /\ faults' = faults + (IF sent = parts THEN 0 ELSE 1)
  BY DEF Publish
<1>4. sent \in SUBSET (SUBSET Deliveries) /\ IsFiniteSet(sent)
  BY <1>2, FS_Subset
<1>5. SetToSeq(sent) \in Seq(SUBSET Deliveries)
  BY <1>4, SetToSeqType
<1>6. queue' \in Seq(SUBSET Deliveries)
  BY <1>3, <1>5 DEF TypeOK
<1>7. faults' \in 0 .. MaxFaults
  BY <1>3, TimesAssumption DEF TypeOK
<1> QED
  BY <1>6, <1>7

\* Chunks are sets of the rows they are made of.
LEMMA ChunkingsType ==
    ASSUME NEW ds \in SUBSET Deliveries, NEW parts \in Chunkings(ds)
    PROVE  parts \in SUBSET (SUBSET Deliveries)
BY DEF Chunkings

\* The records the actions put into job are jobs.
LEMMA StartedType ==
    ASSUME NEW chunk \in SUBSET Deliveries
    PROVE  StartedJob(chunk) \in Jobs /\ StartedJob(chunk).pc = "next"
BY TimesAssumption DEF StartedJob, Jobs

LEMMA SkippedType ==
    ASSUME NEW j \in Jobs, NEW d \in Deliveries
    PROVE  [j EXCEPT !.todo = @ \ {d}, !.first = FALSE] \in Jobs
BY DEF Jobs

LEMMA ClaimedType ==
    ASSUME NEW j \in Jobs, NEW d \in Deliveries, NEW tries \in 0 .. MaxAttempts,
           NEW active \in BOOLEAN
    PROVE  [j EXCEPT !.todo = @ \ {d}, !.first = FALSE, !.cur = d, !.tries = tries,
                     !.saw = active, !.pc = IF active THEN "posting" ELSE "saveEndpoint",
                     !.result = IF active THEN "none" ELSE "error"] \in Jobs
BY DEF Jobs

LEMMA DoneType ==
    ASSUME NEW j \in Jobs
    PROVE  [j EXCEPT !.pc = "next", !.cur = None, !.tries = 0, !.saw = FALSE,
                     !.result = "none"] \in Jobs
<1>1. 0 \in 0 .. MaxAttempts
  BY TimesAssumption
<1> QED
  BY <1>1 DEF Jobs

LEMMA TickedType ==
    ASSUME NEW j \in Jobs, j.left > 0
    PROVE  [j EXCEPT !.left = @ - 1] \in Jobs
<1>1. j.left - 1 \in 0 .. SoftTicks
  BY TimesAssumption DEF Jobs
<1> QED
  BY <1>1 DEF Jobs

LEMMA PingedType ==
    ASSUME NEW d \in Deliveries, NEW active \in BOOLEAN
    PROVE  [pc |-> IF active THEN "posting" ELSE "saveEndpoint", chunk |-> {}, todo |-> {},
            first |-> TRUE, cur |-> d, tries |-> 1, saw |-> active,
            result |-> IF active THEN "none" ELSE "error", left |-> 0] \in Jobs
BY TimesAssumption DEF Jobs

LEMMA InitInv == Init => IInv
<1> SUFFICES ASSUME Init PROVE IInv
  OBVIOUS
<1>1. IdleJob \in Jobs
  BY TimesAssumption DEF IdleJob, Jobs
<1>2. IdleBatch \in Batches
  BY DEF IdleBatch, Batches
<1>3. TypeOK
  BY <1>1, <1>2, TimesAssumption DEF Init, TypeOK
<1>4. \A p \in Procs : ~Holds(p)
  BY DEF Init, Holds, IdleJob
<1>5. RowsOK
  BY TimesAssumption DEF Init, RowsOK, Deliveries, Queued, Pings
<1> QED
  BY <1>3, <1>4, <1>5 DEF IInv, ClaimsOK, Exclusive

\* A step that changes neither the rows, nor the jobs, nor which endpoints are
\* deleted.
LEMMA Untouched ==
    ASSUME IInv,
           UNCHANGED <<status, wait, attempts, job, receipts>>,
           \A e \in Endpoints : endpoint'[e] = "deleted" <=> endpoint[e] = "deleted"
    PROVE  RowsOK' /\ ClaimsOK' /\ Exclusive'
<1>1. RowsOK'
  BY DEF IInv, RowsOK, Deliveries, Queued, Pings
<1>2. ClaimsOK'
  BY DEF IInv, ClaimsOK, Holds, Queued
<1>3. Exclusive'
  BY DEF IInv, Exclusive, Holds
<1> QED
  BY <1>1, <1>2, <1>3

\* A step that leaves the rows alone and puts process p where it holds nothing.
LEMMA Released ==
    ASSUME IInv, NEW p \in Procs, NEW j \in Jobs, j.pc \in {"idle", "next"},
           job' = [job EXCEPT ![p] = j],
           UNCHANGED <<endpoint, status, wait, attempts, receipts>>
    PROVE  job' \in [Procs -> Jobs] /\ RowsOK' /\ ClaimsOK' /\ Exclusive'
<1>1. /\ job'[p] = j
      /\ \A q \in Procs \ {p} : job'[q] = job[q]
      /\ job' \in [Procs -> Jobs]
  BY DEF IInv, TypeOK
<1>2. RowsOK'
  BY DEF IInv, RowsOK
<1>3. ClaimsOK'
  BY <1>1 DEF IInv, ClaimsOK, Holds
<1>4. Exclusive'
  BY <1>1 DEF IInv, Exclusive, Holds
<1> QED
  BY <1>1, <1>2, <1>3, <1>4

LEMMA IdleType == IdleJob \in Jobs /\ IdleJob.pc = "idle" /\ IdleBatch \in Batches
BY TimesAssumption DEF IdleJob, Jobs, IdleBatch, Batches

LEMMA CreateEndpointInv ==
    ASSUME IInv, NEW e \in Endpoints, CreateEndpoint(e)
    PROVE  IInv'
<1>1. /\ endpoint[e] = "none" /\ endpoint' = [endpoint EXCEPT ![e] = "on"]
      /\ UNCHANGED <<status, wait, attempts, queue, job, batch, receipts, posted, faults>>
  BY DEF CreateEndpoint, rows
<1>2. TypeOK'
  BY <1>1 DEF IInv, TypeOK
<1>3. \A x \in Endpoints : endpoint'[x] = "deleted" <=> endpoint[x] = "deleted"
  BY <1>1 DEF IInv, TypeOK
<1> QED
  BY <1>1, <1>2, <1>3, Untouched DEF IInv

LEMMA SetActiveInv ==
    ASSUME IInv, NEW e \in Endpoints, NEW active \in BOOLEAN, SetActive(e, active)
    PROVE  IInv'
<1>1. /\ endpoint[e] \in {"on", "off"}
      /\ endpoint' = [endpoint EXCEPT ![e] = IF active THEN "on" ELSE "off"]
      /\ UNCHANGED <<status, wait, attempts, queue, job, batch, receipts, posted, faults>>
  BY DEF SetActive, rows
<1>2. TypeOK'
  BY <1>1 DEF IInv, TypeOK
<1>3. \A x \in Endpoints : endpoint'[x] = "deleted" <=> endpoint[x] = "deleted"
  BY <1>1 DEF IInv, TypeOK
<1> QED
  BY <1>1, <1>2, <1>3, Untouched DEF IInv

LEMMA DeleteEndpointInv ==
    ASSUME IInv, NEW e \in Endpoints, DeleteEndpoint(e)
    PROVE  IInv'
<1>1. /\ endpoint' = [endpoint EXCEPT ![e] = "deleted"]
      /\ status' = [d \in Deliveries |-> IF d[1] = e THEN "none" ELSE status[d]]
      /\ wait' = [d \in Deliveries |-> IF d[1] = e THEN 0 ELSE wait[d]]
      /\ attempts' = [d \in Deliveries |-> IF d[1] = e THEN 0 ELSE attempts[d]]
      /\ UNCHANGED <<queue, job, batch, receipts, posted, faults>>
  BY DEF DeleteEndpoint
<1>2. TypeOK'
  BY <1>1, TimesAssumption DEF IInv, TypeOK
<1>3. \A x \in Endpoints : endpoint'[x] = IF x = e THEN "deleted" ELSE endpoint[x]
  BY <1>1 DEF IInv, TypeOK
<1>4. \A d \in Deliveries : d[1] \in Endpoints
  BY DEF Deliveries, Queued, Pings
<1>5. RowsOK'
  BY <1>1, <1>3, <1>4 DEF IInv, RowsOK
<1>6. ClaimsOK'
  BY <1>1, <1>3, <1>4 DEF IInv, ClaimsOK, Holds
<1>7. Exclusive'
  BY <1>1 DEF IInv, Exclusive, Holds
<1> QED
  BY <1>2, <1>5, <1>6, <1>7 DEF IInv

LEMMA EmitReadInv ==
    ASSUME IInv, NEW m \in Emitters, NEW events \in SUBSET Events, EmitRead(m, events)
    PROVE  IInv'
<1> DEFINE next == [pc |-> "lookup", wanted |-> {d \in Subscribed : d[2] \in events /\ endpoint[d[1]] = "on"},
                                      fresh |-> {}]
<1>1. /\ batch' = [batch EXCEPT ![m] = next]
      /\ UNCHANGED <<endpoint, status, wait, attempts, queue, job, receipts, posted, faults>>
  BY DEF EmitRead, rows
<1>2. next \in Batches
  BY SetsAssumption DEF Batches
<1>3. TypeOK'
  BY <1>1, <1>2 DEF IInv, TypeOK
<1> QED
  BY <1>1, <1>3, Untouched DEF IInv

LEMMA EmitLookupInv ==
    ASSUME IInv, NEW m \in Emitters, EmitLookup(m)
    PROVE  IInv'
<1> DEFINE next == [pc |-> "insert", wanted |-> batch[m].wanted,
                                      fresh |-> {d \in batch[m].wanted : status[d] = "none"}]
<1>1. /\ batch' = [batch EXCEPT ![m] = next]
      /\ UNCHANGED <<endpoint, status, wait, attempts, queue, job, receipts, posted, faults>>
  BY DEF EmitLookup, rows
<1>2. next \in Batches
  BY DEF IInv, TypeOK, Batches
<1>3. TypeOK'
  BY <1>1, <1>2 DEF IInv, TypeOK
<1> QED
  BY <1>1, <1>3, Untouched DEF IInv

LEMMA EmitRefusedInv ==
    ASSUME IInv, NEW m \in Emitters, EmitRefused(m)
    PROVE  IInv'
<1> DEFINE next == IdleBatch
<1>1. /\ batch' = [batch EXCEPT ![m] = next]
      /\ UNCHANGED <<endpoint, status, wait, attempts, queue, job, receipts, posted, faults>>
  BY DEF EmitRefused, rows
<1>2. next \in Batches
  BY IdleType
<1>3. TypeOK'
  BY <1>1, <1>2 DEF IInv, TypeOK
<1> QED
  BY <1>1, <1>3, Untouched DEF IInv

LEMMA TakeInv ==
    ASSUME IInv, NEW w \in Workers, Take(w)
    PROVE  IInv'
<1>1. /\ job' = [job EXCEPT ![w] = StartedJob(Head(queue))]
      /\ UNCHANGED <<endpoint, status, wait, attempts, receipts>>
  BY DEF Take, rows
<1>6. Head(queue) \in SUBSET Deliveries /\ queue' \in Seq(SUBSET Deliveries)
  BY DEF Take, IInv, TypeOK
<1>2. w \in Procs /\ StartedJob(Head(queue)) \in Jobs /\ StartedJob(Head(queue)).pc = "next"
  BY <1>6, StartedType DEF Procs
<1>4. job' \in [Procs -> Jobs] /\ RowsOK' /\ ClaimsOK' /\ Exclusive'
  BY <1>1, <1>2, Released
<1>5. TypeOK'
  BY <1>1, <1>4, <1>6 DEF Take, rows, IInv, TypeOK
<1> QED
  BY <1>4, <1>5 DEF IInv


LEMMA FinishInv ==
    ASSUME IInv, NEW w \in Workers, Finish(w)
    PROVE  IInv'
<1>1. /\ job' = [job EXCEPT ![w] = IdleJob]
      /\ UNCHANGED <<endpoint, status, wait, attempts, receipts>>
  BY DEF Finish, rows
<1>2. w \in Procs /\ IdleJob \in Jobs /\ IdleJob.pc = "idle"
  BY IdleType DEF Procs
<1>4. job' \in [Procs -> Jobs] /\ RowsOK' /\ ClaimsOK' /\ Exclusive'
  BY <1>1, <1>2, Released
<1>5. TypeOK'
  BY <1>1, <1>4 DEF Finish, rows, IInv, TypeOK
<1> QED
  BY <1>4, <1>5 DEF IInv

LEMMA SkipInv ==
    ASSUME IInv, NEW w \in Workers, NEW d \in Deliveries, Skip(w, d)
    PROVE  IInv'
<1>1. /\ job' = [job EXCEPT ![w] = [job[w] EXCEPT !.todo = @ \ {d}, !.first = FALSE]]
      /\ UNCHANGED <<endpoint, status, wait, attempts, receipts>>
  BY DEF Skip, rows, IInv, TypeOK, Procs
<1>6. w \in Procs /\ job[w] \in Jobs /\ job[w].pc = "next"
  BY DEF Skip, IInv, TypeOK, Procs
<1>7. [job[w] EXCEPT !.todo = @ \ {d}, !.first = FALSE] \in Jobs
  BY <1>6, SkippedType
<1>2. /\ w \in Procs
      /\ [job[w] EXCEPT !.todo = @ \ {d}, !.first = FALSE] \in Jobs
      /\ [job[w] EXCEPT !.todo = @ \ {d}, !.first = FALSE].pc = "next"
  BY <1>6, <1>7 DEF Jobs
<1>4. job' \in [Procs -> Jobs] /\ RowsOK' /\ ClaimsOK' /\ Exclusive'
  BY <1>1, <1>2, Released
<1>5. TypeOK'
  BY <1>1, <1>4 DEF Skip, rows, IInv, TypeOK
<1> QED
  BY <1>4, <1>5 DEF IInv


LEMMA ClaimInv ==
    ASSUME IInv, NEW w \in Workers, NEW d \in Deliveries, Claim(w, d)
    PROVE  IInv'
<1> USE SetsAssumption, TimesAssumption
<1> DEFINE active == endpoint[d[1]] = "on"
<1>2. job[w] \in Jobs /\ ~Holds(w) /\ w \in Procs
  BY DEF Claim, IInv, TypeOK, Holds, Procs
<1>3. job' = [job EXCEPT ![w] = [job[w] EXCEPT
                !.todo = @ \ {d}, !.first = FALSE, !.cur = d, !.tries = attempts[d] + 1,
                !.saw = active, !.pc = IF active THEN "posting" ELSE "saveEndpoint",
                !.result = IF active THEN "none" ELSE "error"]]
  BY <1>2 DEF Claim, IInv, TypeOK
<1>4. /\ job'[w].cur = d /\ job'[w].tries = attempts[d] + 1 /\ job'[w].left = job[w].left
      /\ job'[w].result # "ok"
      /\ \A q \in Procs \ {w} : job'[q] = job[q]
  BY <1>2, <1>3 DEF IInv, TypeOK, Jobs
<1>5. /\ status[d] = "pending" /\ wait[d] = 0 /\ wait' = [wait EXCEPT ![d] = ClaimTicks]
      /\ UNCHANGED <<endpoint, status, attempts, receipts>>
  BY DEF Claim, ClaimedFor, Due
<1>1. TypeOK'
  <2>1. attempts[d] + 1 \in 0 .. MaxAttempts /\ job[w].todo \ {d} \in SUBSET Deliveries
    BY <1>2, <1>5 DEF IInv, TypeOK, RowsOK, Jobs
  <2>2. active \in BOOLEAN
    OBVIOUS
  <2>3. [job[w] EXCEPT
           !.todo = @ \ {d}, !.first = FALSE, !.cur = d, !.tries = attempts[d] + 1,
           !.saw = active, !.pc = IF active THEN "posting" ELSE "saveEndpoint",
           !.result = IF active THEN "none" ELSE "error"] \in Jobs
    BY <1>2, <2>1, <2>2, ClaimedType
  <2>4. job' \in [Procs -> Jobs]
    BY <1>2, <1>3, <2>3 DEF IInv, TypeOK
  <2>5. wait' \in [Deliveries -> Nat]
    BY <1>5 DEF IInv, TypeOK
  <2>6. posted' \in [Deliveries -> Nat]
    BY DEF Claim, IInv, TypeOK
  <2> QED
    BY <2>4, <2>5, <2>6 DEF Claim, IInv, TypeOK
<1>9. RowsOK'
  BY <1>5 DEF IInv, RowsOK
<1>6. ASSUME NEW q \in Procs \ {w}, Holds(q), job[q].cur \in Queued
      PROVE  job[q].cur # d
  <2> SUFFICES ASSUME job[q].cur = d
               PROVE  FALSE
    OBVIOUS
  <2>1. endpoint[d[1]] = "deleted" \/ wait[d] > 0
    BY <1>6 DEF IInv, ClaimsOK
  <2>2. endpoint[d[1]] # "deleted"
    BY <1>5 DEF IInv, RowsOK
  <2> QED
    BY <1>5, <2>1, <2>2
<1>7. ClaimsOK'
  <2> SUFFICES ASSUME NEW q \in Procs, Holds(q)'
               PROVE  ClaimsOK!(q)!2'
    BY DEF ClaimsOK
  <2>1. CASE q = w
    <3>1. attempts[d] \in Nat /\ status[d] = "pending" /\ wait'[d] = ClaimTicks
      BY <1>5 DEF IInv, TypeOK
    <3>2. job[w].left <= SoftTicks /\ job[w].left \in Nat
      BY <1>2 DEF Jobs
    <3>3. job'[w].tries > 0 /\ ClaimTicks > 0 /\ ClaimTicks > job'[w].left
      BY <1>4, <3>1, <3>2
    <3>4. d \in Queued => w \in Workers /\ status'[d] = "pending"
      BY <1>5
    <3> QED
      BY <1>4, <2>1, <3>1, <3>3, <3>4
  <2>2. CASE q # w
    <3>1. Holds(q) /\ job'[q] = job[q]
      BY <1>4, <2>2 DEF Holds
    <3>2. CASE job[q].cur \in Queued
      <4>1. job[q].cur # d
        BY <1>6, <2>2, <3>1, <3>2
      <4>2. wait'[job[q].cur] = wait[job[q].cur]
        BY <1>5, <3>1, <4>1 DEF IInv, TypeOK, ClaimsOK
      <4> QED
        BY <1>5, <3>1, <3>2, <4>1, <4>2 DEF IInv, ClaimsOK
    <3>3. CASE job[q].cur \notin Queued
      BY <1>5, <3>1, <3>3 DEF IInv, ClaimsOK
    <3> QED
      BY <3>2, <3>3
  <2> QED
    BY <2>1, <2>2
<1>8. Exclusive'
  <2> SUFFICES ASSUME NEW q \in Procs, NEW r \in Procs, Holds(q)', Holds(r)',
                      job'[q].cur = job'[r].cur, job'[q].cur \in Queued, q # r
               PROVE  FALSE
    BY DEF Exclusive
  <2>1. CASE q = w
    <3>1. Holds(r) /\ job'[r] = job[r] /\ job'[q].cur = d
      BY <1>4, <2>1 DEF Holds
    <3> QED
      BY <1>6, <2>1, <3>1
  <2>2. CASE r = w
    <3>1. Holds(q) /\ job'[q] = job[q] /\ job'[r].cur = d
      BY <1>4, <2>2 DEF Holds
    <3> QED
      BY <1>6, <2>2, <3>1
  <2>3. CASE q # w /\ r # w
    BY <1>4, <2>3 DEF IInv, Exclusive, Holds
  <2> QED
    BY <2>1, <2>2, <2>3
<1> QED
  BY <1>1, <1>7, <1>8, <1>9 DEF IInv

LEMMA AnswerInv ==
    ASSUME IInv, NEW p \in Procs, NEW result \in {"ok", "gone", "error"}, Answer(p, result)
    PROVE  IInv'
<1> USE SetsAssumption, TimesAssumption
<1>1. job[p] \in Jobs /\ Holds(p) /\ job[p].pc = "posting"
  BY DEF Answer, rows, IInv, TypeOK, Holds
<1>2. /\ job'[p] = [job[p] EXCEPT !.pc = "saveEndpoint", !.result = result]
      /\ \A q \in Procs \ {p} : job'[q] = job[q]
      /\ DOMAIN job' = Procs
  BY DEF Answer, rows, IInv, TypeOK
<1>3. /\ job'[p] \in Jobs
      /\ job'[p].pc = "saveEndpoint" /\ job'[p].result = result
      /\ job'[p].cur = job[p].cur /\ job'[p].tries = job[p].tries
  BY <1>1, <1>2 DEF Jobs
<1>4. job' \in [Procs -> Jobs]
  BY <1>2, <1>3 DEF Answer, rows, IInv, TypeOK
<1>5. receipts' \in SUBSET Deliveries /\ receipts \subseteq receipts'
  BY <1>1 DEF Answer, rows, IInv, TypeOK, ClaimsOK
<1>6. TypeOK'
  BY <1>4, <1>5 DEF Answer, rows, IInv, TypeOK
<1>7. RowsOK'
  BY DEF Answer, rows, IInv, RowsOK
<1>8. ClaimsOK'
  <2> SUFFICES ASSUME NEW q \in Procs, Holds(q)'
               PROVE  ClaimsOK!(q)!2'
    BY DEF ClaimsOK
  <2>1. CASE q = p
    BY <1>1, <1>3, <2>1 DEF Answer, rows, IInv, ClaimsOK
  <2>2. CASE q # p
    BY <1>2, <1>5, <2>2 DEF Answer, rows, IInv, ClaimsOK, Holds
  <2> QED
    BY <2>1, <2>2
<1>9. Exclusive'
  BY <1>1, <1>2, <1>3 DEF Answer, rows, IInv, Exclusive, Holds
<1> QED
  BY <1>6, <1>7, <1>8, <1>9 DEF IInv

LEMMA SaveEndpointInv ==
    ASSUME IInv, NEW p \in Procs, SaveEndpoint(p)
    PROVE  IInv'
<1> USE SetsAssumption, TimesAssumption
<1>1. job[p] \in Jobs /\ Holds(p) /\ job[p].pc = "saveEndpoint"
  BY DEF SaveEndpoint, rows, IInv, TypeOK, Holds
<1>2. /\ job'[p] = [job[p] EXCEPT !.pc = "saveDelivery"]
      /\ \A q \in Procs \ {p} : job'[q] = job[q]
      /\ DOMAIN job' = Procs
  BY DEF SaveEndpoint, rows, IInv, TypeOK
<1>3. /\ job'[p] \in Jobs
      /\ job'[p].pc = "saveDelivery" /\ job'[p].result = job[p].result
      /\ job'[p].cur = job[p].cur /\ job'[p].tries = job[p].tries
  BY <1>1, <1>2 DEF Jobs
<1>4. job' \in [Procs -> Jobs]
  BY <1>2, <1>3 DEF SaveEndpoint, rows, IInv, TypeOK
<1>5. /\ endpoint' \in [Endpoints -> {"none", "on", "off", "deleted"}]
      /\ \A e \in Endpoints : endpoint'[e] = "deleted" <=> endpoint[e] = "deleted"
  BY DEF SaveEndpoint, rows, IInv, TypeOK
<1>6. TypeOK'
  BY <1>4, <1>5 DEF SaveEndpoint, rows, IInv, TypeOK
<1>7. RowsOK'
  BY <1>5 DEF SaveEndpoint, rows, IInv, RowsOK, Deliveries, Queued, Pings
<1>8. ClaimsOK'
  <2> SUFFICES ASSUME NEW q \in Procs, Holds(q)'
               PROVE  ClaimsOK!(q)!2'
    BY DEF ClaimsOK
  <2>1. Holds(q) /\ job'[q].cur = job[q].cur /\ job'[q].tries = job[q].tries
        /\ job'[q].result = job[q].result
        /\ (job'[q].pc = "posting" => job[q].pc = "posting" /\ job'[q].left = job[q].left)
    BY <1>1, <1>2, <1>3 DEF Holds
  <2> QED
    BY <1>5, <2>1 DEF SaveEndpoint, rows, IInv, ClaimsOK, Queued
<1>9. Exclusive'
  BY <1>1, <1>2, <1>3 DEF SaveEndpoint, rows, IInv, Exclusive, Holds
<1> QED
  BY <1>6, <1>7, <1>8, <1>9 DEF IInv

LEMMA SaveDeliveryInv ==
    ASSUME IInv, NEW p \in Procs, SaveDelivery(p)
    PROVE  IInv'
<1> USE SetsAssumption, TimesAssumption DEF rows
<1> DEFINE d == job[p].cur
           retry == Retries(p)
<1>1. job[p] \in Jobs /\ Holds(p) /\ d \in Deliveries /\ job[p].tries \in 1 .. MaxAttempts
  <2>1. job[p] \in Jobs /\ job[p].pc = "saveDelivery"
    BY DEF SaveDelivery, IInv, TypeOK
  <2>2. Holds(p)
    BY <2>1 DEF Holds
  <2>3. d \in Deliveries /\ job[p].tries > 0
    BY <2>2 DEF IInv, ClaimsOK
  <2>4. job[p].tries \in 0 .. MaxAttempts
    BY <2>1 DEF Jobs
  <2> QED
    BY <2>1, <2>2, <2>3, <2>4
<1>2. /\ job'[p].pc \in {"idle", "next"} /\ job'[p] \in Jobs
      /\ \A q \in Procs \ {p} : job'[q] = job[q]
      /\ job' \in [Procs -> Jobs]
  <2>1. IdleJob \in Jobs /\ IdleJob.pc = "idle"
    BY DEF IdleJob, Jobs
  <2> DEFINE done == [job[p] EXCEPT !.pc = "next", !.cur = None, !.tries = 0, !.saw = FALSE,
                                    !.result = "none"]
  <2>2. done \in Jobs /\ done.pc = "next"
    <3>1. done \in Jobs
      BY <1>1, DoneType
    <3>2. done.pc = "next"
      BY <1>1 DEF Jobs
    <3> QED
      BY <3>1, <3>2
  <2>3. job' = [job EXCEPT ![p] = IF p \in Pingers THEN IdleJob ELSE done]
    BY DEF SaveDelivery
  <2> QED
    BY <2>1, <2>2, <2>3 DEF IInv, TypeOK
<1>3. /\ status' = [status EXCEPT ![d] = IF job[p].result = "ok" THEN "delivered"
                                         ELSE IF retry THEN "pending" ELSE "failed"]
      /\ wait' = [wait EXCEPT ![d] = IF retry THEN Backoff[job[p].tries] ELSE 0]
      /\ attempts' = [attempts EXCEPT ![d] = job[p].tries]
      /\ status[d] # "none"
      /\ retry => job[p].tries < MaxAttempts
      /\ job[p].result = "ok" => ~retry
      /\ UNCHANGED <<endpoint, queue, batch, receipts, posted, faults>>
  BY DEF SaveDelivery, Retries
<1>4. TypeOK'
  <2>1. wait' \in [Deliveries -> Nat]
    BY <1>1, <1>3 DEF IInv, TypeOK
  <2>2. attempts' \in [Deliveries -> 0 .. MaxAttempts]
    BY <1>1, <1>3 DEF IInv, TypeOK
  <2> QED
    BY <1>2, <1>3, <2>1, <2>2 DEF IInv, TypeOK
<1>5. RowsOK'
  BY <1>1, <1>3 DEF IInv, TypeOK, RowsOK
<1>6. ASSUME NEW q \in Procs \ {p}, Holds(q), job[q].cur \in Queued
      PROVE  job[q].cur # d
  BY <1>1, <1>6 DEF IInv, Exclusive
<1>7. ClaimsOK'
  <2> SUFFICES ASSUME NEW q \in Procs, Holds(q)'
               PROVE  ClaimsOK!(q)!2'
    BY DEF ClaimsOK
  <2>1. q # p /\ Holds(q) /\ job'[q] = job[q]
    BY <1>2 DEF Holds
  <2>2. CASE job[q].cur \in Queued
    <3>1. job[q].cur # d /\ job[q].cur \in Deliveries
      BY <1>6, <2>1, <2>2 DEF Deliveries
    <3>2. status'[job[q].cur] = status[job[q].cur] /\ wait'[job[q].cur] = wait[job[q].cur]
      BY <1>3, <3>1 DEF IInv, TypeOK
    <3> QED
      BY <1>3, <2>1, <3>2 DEF IInv, ClaimsOK
  <2>3. CASE job[q].cur \notin Queued
    BY <2>1, <2>3 DEF IInv, ClaimsOK
  <2> QED
    BY <2>2, <2>3
<1>8. Exclusive'
  BY <1>2 DEF IInv, Exclusive, Holds
<1> QED
  BY <1>4, <1>5, <1>7, <1>8 DEF IInv

LEMMA AbortInv ==
    ASSUME IInv, NEW p \in Procs, Abort(p)
    PROVE  IInv'
<1>1. /\ job' = [job EXCEPT ![p] = IdleJob]
      /\ UNCHANGED <<endpoint, status, wait, attempts, receipts>>
  BY DEF Abort, rows
<1>2. IdleJob \in Jobs /\ IdleJob.pc = "idle"
  BY IdleType
<1>4. job' \in [Procs -> Jobs] /\ RowsOK' /\ ClaimsOK' /\ Exclusive'
  BY <1>1, <1>2, Released
<1>5. TypeOK'
  BY <1>1, <1>4 DEF Abort, rows, IInv, TypeOK
<1> QED
  BY <1>4, <1>5 DEF IInv

LEMMA KillInv ==
    ASSUME IInv, NEW p \in Procs, Kill(p)
    PROVE  IInv'
<1>1. /\ job' = [job EXCEPT ![p] = IdleJob]
      /\ UNCHANGED <<endpoint, status, wait, attempts, receipts>>
  BY DEF Kill, rows
<1>2. IdleJob \in Jobs /\ IdleJob.pc = "idle"
  BY IdleType
<1>3. queue' \in Seq(SUBSET Deliveries) /\ faults' \in 0 .. MaxFaults
  <2>1. job[p] \in Jobs
    BY DEF IInv, TypeOK
  <2>2. job[p].chunk \in SUBSET Deliveries /\ queue \in Seq(SUBSET Deliveries)
    BY <2>1 DEF IInv, TypeOK, Jobs
  <2>3. Append(queue, job[p].chunk) \in Seq(SUBSET Deliveries)
    BY <2>2
  <2>4. faults' \in 0 .. MaxFaults
    BY TimesAssumption DEF Kill, IInv, TypeOK
  <2> QED
    BY <2>2, <2>3, <2>4 DEF Kill
<1>4. job' \in [Procs -> Jobs] /\ RowsOK' /\ ClaimsOK' /\ Exclusive'
  BY <1>1, <1>2, Released
<1>5. TypeOK'
  BY <1>1, <1>3, <1>4 DEF Kill, rows, IInv, TypeOK
<1> QED
  BY <1>4, <1>5 DEF IInv


LEMMA PingInv ==
    ASSUME IInv, NEW p \in Pingers, NEW d \in Pings, Ping(p, d)
    PROVE  IInv'
<1> USE SetsAssumption, TimesAssumption
<1> DEFINE active == endpoint[d[1]] = "on"
<1>1. p \in Procs /\ d \in Deliveries /\ d \notin Queued
  BY DEF Procs, Deliveries, Queued, Pings
<1>2. job'[p] = [pc |-> IF active THEN "posting" ELSE "saveEndpoint", chunk |-> {}, todo |-> {},
                 first |-> TRUE, cur |-> d, tries |-> 1, saw |-> active,
                 result |-> IF active THEN "none" ELSE "error", left |-> 0]
  BY <1>1 DEF Ping, rows, IInv, TypeOK, IdleJob
<1>3. /\ \A q \in Procs \ {p} : job'[q] = job[q]
      /\ DOMAIN job' = Procs
  BY DEF Ping, rows, IInv, TypeOK
<1>4. job'[p] \in Jobs
  BY <1>1, <1>2, PingedType
<1>5. TypeOK'
  <2>1. job' \in [Procs -> Jobs]
    BY <1>3, <1>4 DEF Ping, rows, IInv, TypeOK
  <2>2. status' \in [Deliveries -> {"none", "pending", "delivered", "failed"}]
    BY <1>1 DEF Ping, rows, IInv, TypeOK
  <2>3. posted' \in [Deliveries -> Nat]
    BY <1>1 DEF Ping, rows, IInv, TypeOK
  <2> QED
    BY <2>1, <2>2, <2>3 DEF Ping, rows, IInv, TypeOK
<1>6. RowsOK'
  BY <1>1 DEF Ping, rows, IInv, TypeOK, RowsOK
<1>7. ClaimsOK'
  <2> SUFFICES ASSUME NEW q \in Procs, Holds(q)'
               PROVE  ClaimsOK!(q)!2'
    BY DEF ClaimsOK
  <2>1. CASE q = p
    BY <1>1, <1>2, <2>1
  <2>2. CASE q # p
    <3>1. Holds(q) /\ job'[q] = job[q]
      BY <1>3, <2>2 DEF Holds
    <3>2. CASE job[q].cur \in Queued
      <4>1. status'[job[q].cur] = status[job[q].cur]
        BY <1>1, <3>2 DEF Ping, rows, IInv, TypeOK, Deliveries
      <4> QED
        BY <3>1, <3>2, <4>1 DEF Ping, rows, IInv, ClaimsOK
    <3>3. CASE job[q].cur \notin Queued
      BY <3>1, <3>3 DEF IInv, ClaimsOK
    <3> QED
      BY <3>2, <3>3
  <2> QED
    BY <2>1, <2>2
<1>8. Exclusive'
  BY <1>1, <1>2, <1>3 DEF IInv, Exclusive, Holds
<1> QED
  BY <1>5, <1>6, <1>7, <1>8 DEF IInv

LEMMA TickInv ==
    ASSUME IInv, Tick
    PROVE  IInv'
<1>1. \A p \in Procs :
        /\ job'[p] \in Jobs
        /\ job'[p].pc = job[p].pc /\ job'[p].cur = job[p].cur
        /\ job'[p].tries = job[p].tries /\ job'[p].result = job[p].result
        /\ job'[p].left = IF job[p].left > 0 THEN job[p].left - 1 ELSE job[p].left
  <2> SUFFICES ASSUME NEW p \in Procs
               PROVE  <1>1!(p)
    OBVIOUS
  <2>1. job[p] \in Jobs /\ job[p].left \in 0 .. SoftTicks
    BY DEF IInv, TypeOK, Jobs
  <2>2. job'[p] = IF job[p].left > 0 THEN [job[p] EXCEPT !.left = @ - 1] ELSE job[p]
    BY DEF Tick
  <2>3. job'[p] \in Jobs
    BY <2>1, <2>2, TickedType
  <2> QED
    BY <2>1, <2>2, <2>3 DEF Jobs
<1>2. job' \in [Procs -> Jobs]
  BY <1>1 DEF Tick
<1>3. TypeOK'
  <2>1. wait' \in [Deliveries -> Nat]
    BY DEF Tick, IInv, TypeOK
  <2> QED
    BY <1>2, <2>1 DEF Tick, IInv, TypeOK
<1>4. RowsOK'
  BY DEF Tick, IInv, RowsOK
<1>5. ClaimsOK'
  <2> SUFFICES ASSUME NEW p \in Procs, Holds(p)'
               PROVE  ClaimsOK!(p)!2'
    BY DEF ClaimsOK
  <2>1. /\ Holds(p) /\ job[p].pc = "posting" /\ job[p].left \in Nat
        /\ job'[p].pc = "posting" /\ job'[p].cur = job[p].cur
        /\ job'[p].result = job[p].result /\ job'[p].tries = job[p].tries
    BY <1>1 DEF Tick, Holds, IInv, TypeOK, Jobs
  <2>2. UNCHANGED <<endpoint, status, receipts>>
    BY DEF Tick
  <2>3. CASE job[p].cur \in Queued /\ endpoint[job[p].cur[1]] # "deleted"
    <3>1. /\ p \in Workers /\ job[p].cur \in Deliveries
          /\ wait[job[p].cur] > job[p].left
      BY <2>1, <2>3 DEF IInv, ClaimsOK
    <3>2. job[p].left > 0 /\ wait[job[p].cur] \in Nat
      BY <2>1, <3>1 DEF Tick, IInv, TypeOK
    <3>3. wait'[job[p].cur] = wait[job[p].cur] - 1
      BY <2>1, <3>1, <3>2 DEF Tick
    <3>4. job'[p].left = job[p].left - 1
      BY <1>1, <3>2
    <3>5. wait'[job[p].cur] > job'[p].left /\ wait'[job[p].cur] > 0
      BY <2>1, <3>1, <3>2, <3>3, <3>4
    <3> QED
      BY <2>1, <2>2, <2>3, <3>5 DEF IInv, ClaimsOK
  <2>4. CASE ~(job[p].cur \in Queued /\ endpoint[job[p].cur[1]] # "deleted")
    BY <2>1, <2>2, <2>4 DEF IInv, ClaimsOK
  <2> QED
    BY <2>3, <2>4
<1>6. Exclusive'
  BY <1>1 DEF IInv, Exclusive, Holds
<1> QED
  BY <1>3, <1>4, <1>5, <1>6 DEF IInv

LEMMA EmitInsertInv ==
    ASSUME IInv, NEW m \in Emitters, EmitInsert(m)
    PROVE  IInv'
<1> DEFINE fresh == batch[m].fresh
<1>1. batch[m] \in Batches /\ fresh \in SUBSET Deliveries
  BY DEF IInv, TypeOK, Batches, Deliveries
<1>2. PICK parts \in Chunkings(fresh) : Publish(parts)
  BY DEF EmitInsert
<1>3. queue' \in Seq(SUBSET Deliveries) /\ faults' \in 0 .. MaxFaults
  BY <1>1, <1>2, ChunkingsType, PublishType DEF IInv
<1>4. /\ status' = [d \in Deliveries |-> IF d \in Inserted(fresh) THEN "pending" ELSE status[d]]
      /\ \A d \in fresh : endpoint[d[1]] # "deleted"
      /\ batch' = [batch EXCEPT ![m] = IdleBatch]
      /\ UNCHANGED <<endpoint, wait, attempts, job, receipts, posted>>
  BY DEF EmitInsert
<1>5. IdleBatch \in Batches
  BY DEF IdleBatch, Batches
<1>6. TypeOK'
  BY <1>3, <1>4, <1>5 DEF IInv, TypeOK
<1>7. \A d \in Deliveries : status[d] # "none" => status'[d] = status[d]
  BY <1>4 DEF Inserted
<1>8. RowsOK'
  BY <1>4, TimesAssumption DEF IInv, TypeOK, RowsOK, Inserted
<1>9. ClaimsOK'
  BY <1>4, <1>7 DEF IInv, ClaimsOK, Holds
<1>10. Exclusive'
  BY <1>4 DEF IInv, Exclusive, Holds
<1> QED
  BY <1>6, <1>8, <1>9, <1>10 DEF IInv

LEMMA RequeueInv ==
    ASSUME IInv, NEW w \in Workers, Requeue(w)
    PROVE  IInv'
<1>1. /\ job' = [job EXCEPT ![w] = IdleJob]
      /\ UNCHANGED <<endpoint, status, wait, attempts, receipts>>
  BY DEF Requeue, rows
<1>2. w \in Procs /\ IdleJob \in Jobs /\ IdleJob.pc = "idle"
  BY IdleType DEF Procs
<1>6. job[w] \in Jobs
  BY <1>2 DEF IInv, TypeOK
<1>7. {job[w].todo} \in SUBSET (SUBSET Deliveries)
  BY <1>6 DEF Jobs
<1>3. queue' \in Seq(SUBSET Deliveries) /\ faults' \in 0 .. MaxFaults
  BY <1>7, PublishType DEF IInv, Requeue
<1>4. job' \in [Procs -> Jobs] /\ RowsOK' /\ ClaimsOK' /\ Exclusive'
  BY <1>1, <1>2, Released
<1>5. TypeOK'
  BY <1>1, <1>3, <1>4 DEF Requeue, rows, IInv, TypeOK
<1> QED
  BY <1>4, <1>5 DEF IInv

LEMMA SweepInv ==
    ASSUME IInv, Sweep
    PROVE  IInv'
<1>1. PICK due \in SUBSET Sweepable, old \in SUBSET Deliveries :
        /\ \A d \in old : status[d] \in {"delivered", "failed"}
        /\ \E parts \in Chunkings(due) : Publish(parts)
        /\ status' = [d \in Deliveries |-> IF d \in old THEN "none" ELSE status[d]]
        /\ attempts' = [d \in Deliveries |-> IF d \in old THEN 0 ELSE attempts[d]]
        /\ posted' = [d \in Deliveries |-> IF d \in old THEN 0 ELSE posted[d]]
        /\ receipts' = receipts \ old
        /\ UNCHANGED <<endpoint, wait, job, batch>>
  BY DEF Sweep, Finished
<1>2. due \in SUBSET Deliveries
  BY DEF Sweepable
<1>3. queue' \in Seq(SUBSET Deliveries) /\ faults' \in 0 .. MaxFaults
  BY <1>1, <1>2, ChunkingsType, PublishType DEF IInv
<1>4. TypeOK'
  BY <1>1, <1>3, TimesAssumption DEF IInv, TypeOK
<1>5. RowsOK'
  BY <1>1 DEF IInv, TypeOK, RowsOK
<1>6. ClaimsOK'
  <2> SUFFICES ASSUME NEW p \in Procs, Holds(p)'
               PROVE  ClaimsOK!(p)!2'
    BY DEF ClaimsOK
  <2>1. Holds(p) /\ job' = job /\ job[p].cur \in Deliveries
    BY <1>1 DEF IInv, ClaimsOK, Holds
  <2>2. CASE job[p].cur \in Queued /\ endpoint[job[p].cur[1]] # "deleted"
    <3>1. status[job[p].cur] = "pending" /\ job[p].cur \notin old
      BY <1>1, <2>1, <2>2 DEF IInv, ClaimsOK
    <3> QED
      BY <1>1, <2>1, <2>2, <3>1 DEF IInv, ClaimsOK
  <2>3. CASE job[p].cur \in Queued /\ endpoint[job[p].cur[1]] = "deleted"
    <3>1. job[p].cur \notin old
      BY <1>1, <2>1, <2>3 DEF IInv, RowsOK
    <3> QED
      BY <1>1, <2>1, <2>3, <3>1 DEF IInv, ClaimsOK
  <2>4. CASE job[p].cur \notin Queued
    BY <2>1, <2>4 DEF IInv, ClaimsOK
  <2> QED
    BY <2>2, <2>3, <2>4
<1>7. Exclusive'
  BY <1>1 DEF IInv, Exclusive, Holds
<1> QED
  BY <1>4, <1>5, <1>6, <1>7 DEF IInv

\* The invariant is inductive: one step per action.
LEMMA NextInv == IInv /\ [Next]_vars => IInv'
<1> SUFFICES ASSUME IInv, [Next]_vars PROVE IInv'
  OBVIOUS
<1>1. ASSUME NEW e \in Endpoints, Manage(e) PROVE IInv'
  BY <1>1, CreateEndpointInv, SetActiveInv, DeleteEndpointInv DEF Manage
<1>2. ASSUME NEW m \in Emitters, Emit(m) PROVE IInv'
  BY <1>2, EmitReadInv, EmitLookupInv, EmitInsertInv, EmitRefusedInv DEF Emit
<1>3. ASSUME NEW w \in Workers, Loop(w) PROVE IInv'
  BY <1>3, TakeInv, FinishInv, RequeueInv, SkipInv, ClaimInv DEF Loop
<1>4. ASSUME NEW p \in Procs, Attempt(p) \/ Kill(p) PROVE IInv'
  BY <1>4, AnswerInv, SaveEndpointInv, SaveDeliveryInv, AbortInv, KillInv DEF Attempt
<1>5. ASSUME NEW p \in Pingers, NEW d \in Pings, Ping(p, d) PROVE IInv'
  BY <1>5, PingInv
<1>6. ASSUME UNCHANGED vars PROVE IInv'
  BY <1>6 DEF vars, rows, IInv, TypeOK, RowsOK, ClaimsOK, Exclusive, Holds
<1> QED
  BY <1>1, <1>2, <1>3, <1>4, <1>5, <1>6, SweepInv, TickInv DEF Next

\* The inductive invariant of the queue: types, rows that are there, claims that
\* outlast their request, and one holder of an event.
THEOREM Invariant == Spec => []IInv
BY InitInv, NextInv, PTL DEF Spec

\* Every variable of the webhook queue keeps its type.
THEOREM TypeCorrect == Spec => []TypeOK
<1>1. IInv => TypeOK
  BY DEF IInv
<1> QED
  BY <1>1, Invariant, PTL

\* However many workers, duplicates and redeliveries there are, an event is sent
\* by at most one process at a time: webhooks.py _claim and attempt.
THEOREM OneSenderAlways == Spec => []OneSender
<1>1. IInv => OneSender
  BY DEF IInv, Exclusive, Holds, OneSender
<1> QED
  BY <1>1, Invariant, PTL

-----------------------------------------------------------------------------
(* The refinement: each step of the queue is a step of the contract.       *)

LEMMA ContractInit == Init => Contract!Init
BY DEF Init, Contract!Init, ContractState, Deliveries, Queued

\* A step that neither deletes an endpoint nor touches the rows and the receipts
\* of events is no step of the contract.
LEMMA Stutter ==
    ASSUME \A d \in Queued : endpoint'[d[1]] = "deleted" <=> endpoint[d[1]] = "deleted",
           \A d \in Queued : status'[d] = status[d],
           receipts' \cap Queued = receipts \cap Queued
    PROVE  UNCHANGED Contract!vars
<1>1. ContractState' = ContractState
  BY DEF ContractState
<1> QED
  BY <1>1 DEF Contract!vars

LEMMA ManageRefines ==
    ASSUME IInv, NEW e \in Endpoints, Manage(e)
    PROVE  [Contract!Next]_(Contract!vars)
<1>1. CASE CreateEndpoint(e) \/ \E active \in BOOLEAN : SetActive(e, active)
  <2>1. \A d \in Queued : endpoint'[d[1]] = "deleted" <=> endpoint[d[1]] = "deleted"
    BY <1>1 DEF CreateEndpoint, SetActive, IInv, TypeOK, Queued
  <2>2. status' = status /\ receipts' = receipts
    BY <1>1 DEF CreateEndpoint, SetActive, rows
  <2> QED
    BY <2>1, <2>2, Stutter
<1>2. CASE DeleteEndpoint(e)
  <2> DEFINE gone == {d \in Queued : d[1] = e}
  <2>1. ContractState' = [d \in Queued |-> IF d \in gone THEN "gone" ELSE ContractState[d]]
    BY <1>2 DEF DeleteEndpoint, ContractState, IInv, TypeOK, Queued, Deliveries
  <2>2. Contract!Remove(gone)
    BY <1>2, <2>1 DEF DeleteEndpoint, Contract!Remove
  <2> QED
    BY <2>2 DEF Contract!Next
<1> QED
  BY <1>1, <1>2 DEF Manage

LEMMA EmitRefines ==
    ASSUME IInv, NEW m \in Emitters, Emit(m)
    PROVE  [Contract!Next]_(Contract!vars)
<1>1. CASE EmitInsert(m)
  <2> DEFINE new == Inserted(batch[m].fresh)
  <2>1. batch[m].fresh \in SUBSET Queued
    BY DEF IInv, TypeOK, Batches
  <2>2. /\ new \in SUBSET Queued
        /\ \A d \in new : status[d] = "none" /\ endpoint[d[1]] # "deleted"
        /\ status' = [d \in Deliveries |-> IF d \in new THEN "pending" ELSE status[d]]
        /\ endpoint' = endpoint /\ receipts' = receipts
    BY <1>1, <2>1 DEF EmitInsert, Inserted
  <2>3. ContractState' = [d \in Queued |-> IF d \in new THEN "pending" ELSE ContractState[d]]
    BY <2>2 DEF ContractState, Deliveries
  <2>4. \A d \in new : ContractState[d] = "none"
    BY <2>2 DEF ContractState
  <2>5. Contract!Enqueue(new)
    BY <2>2, <2>3, <2>4 DEF Contract!Enqueue
  <2> QED
    BY <2>2, <2>5 DEF Contract!Next
<1>2. CASE (\E events \in SUBSET Events : EmitRead(m, events)) \/ EmitLookup(m) \/ EmitRefused(m)
  BY <1>2, Stutter DEF EmitRead, EmitLookup, EmitRefused, rows
<1> QED
  BY <1>1, <1>2 DEF Emit

LEMMA LoopRefines ==
    ASSUME NEW w \in Workers, Loop(w)
    PROVE  [Contract!Next]_(Contract!vars)
BY Stutter DEF Loop, Take, Finish, Requeue, Skip, Claim, rows

LEMMA AnswerRefines ==
    ASSUME IInv, NEW p \in Procs, NEW result \in {"ok", "gone", "error"}, Answer(p, result)
    PROVE  [Contract!Next]_(Contract!vars)
<1> DEFINE d == job[p].cur
<1>1. Holds(p) /\ endpoint' = endpoint /\ status' = status
      /\ receipts' = IF result = "ok" THEN receipts \cup {d} ELSE receipts
  BY DEF Answer, Holds, rows
<1>2. CASE result = "ok" /\ d \in Queued
  <2>1. ContractState[d] \in {"pending", "gone"}
    BY <1>1, <1>2 DEF IInv, ClaimsOK, ContractState
  <2>2. ContractState' = ContractState
    BY <1>1 DEF ContractState
  <2>3. receipts' \cap Queued = (receipts \cap Queued) \cup {d}
    BY <1>1, <1>2
  <2>4. Contract!Accept(d)
    BY <2>1, <2>2, <2>3 DEF Contract!Accept
  <2> QED
    BY <1>2, <2>4 DEF Contract!Next
<1>3. CASE ~(result = "ok" /\ d \in Queued)
  BY <1>1, <1>3, Stutter
<1> QED
  BY <1>2, <1>3

LEMMA SaveEndpointRefines ==
    ASSUME IInv, NEW p \in Procs, SaveEndpoint(p)
    PROVE  [Contract!Next]_(Contract!vars)
<1>1. \A d \in Queued : endpoint'[d[1]] = "deleted" <=> endpoint[d[1]] = "deleted"
  BY DEF SaveEndpoint, IInv, TypeOK, Queued
<1> QED
  BY <1>1, Stutter DEF SaveEndpoint, rows

LEMMA SaveDeliveryRefines ==
    ASSUME IInv, NEW p \in Procs, SaveDelivery(p)
    PROVE  [Contract!Next]_(Contract!vars)
<1> DEFINE d == job[p].cur
           outcome == IF job[p].result = "ok" THEN "delivered"
                      ELSE IF Retries(p) THEN "pending" ELSE "failed"
<1>1. /\ Holds(p) /\ d \in Deliveries /\ status[d] # "none"
      /\ status' = [status EXCEPT ![d] = outcome]
      /\ endpoint' = endpoint /\ receipts' = receipts
  BY DEF SaveDelivery, Holds, IInv, ClaimsOK
<1>2. CASE d \in Queued
  <2>1. endpoint[d[1]] # "deleted" /\ status[d] = "pending"
    BY <1>1, <1>2 DEF IInv, ClaimsOK, RowsOK
  <2>2. outcome = "delivered" => d \in receipts \cap Queued
    BY <1>1, <1>2 DEF IInv, ClaimsOK
  <2>3. ContractState[d] = "pending" /\ ContractState' = [ContractState EXCEPT ![d] = outcome]
    <3> HIDE DEF d, outcome
    <3>1. status' = [c \in Deliveries |-> IF c = d THEN outcome ELSE status[c]]
      BY <1>1 DEF IInv, TypeOK
    <3>2. ContractState' = [c \in Queued |-> IF c = d THEN outcome ELSE ContractState[c]]
      BY <1>1, <2>1, <3>1 DEF ContractState, Deliveries
    <3>3. ContractState[d] = "pending"
      BY <1>2, <2>1 DEF ContractState
    <3> QED
      BY <3>2, <3>3 DEF ContractState
  <2>4. CASE outcome = "pending"
    <3>1. ContractState' = ContractState
      BY <2>3, <2>4 DEF ContractState
    <3> QED
      BY <1>1, <3>1 DEF Contract!vars
  <2>5. CASE outcome \in {"delivered", "failed"}
    <3>1. Contract!Settle(d, outcome)
      BY <1>1, <2>2, <2>3 DEF Contract!Settle
    <3> QED
      BY <1>2, <2>5, <3>1 DEF Contract!Next
  <2> QED
    BY <2>4, <2>5
<1>3. CASE d \notin Queued
  BY <1>1, <1>3, Stutter DEF IInv, TypeOK
<1> QED
  BY <1>2, <1>3

LEMMA SweepRefines ==
    ASSUME IInv, Sweep
    PROVE  [Contract!Next]_(Contract!vars)
<1>1. PICK old \in SUBSET Deliveries :
        /\ \A d \in old : status[d] \in {"delivered", "failed"}
        /\ status' = [d \in Deliveries |-> IF d \in old THEN "none" ELSE status[d]]
        /\ receipts' = receipts \ old
        /\ endpoint' = endpoint
  BY DEF Sweep, Finished
<1> DEFINE forgotten == old \cap Queued
<1>2. \A d \in forgotten : endpoint[d[1]] # "deleted"
  BY <1>1 DEF IInv, RowsOK
<1>3. ContractState' = [d \in Queued |-> IF d \in forgotten THEN "none" ELSE ContractState[d]]
  BY <1>1, <1>2 DEF ContractState, Deliveries
<1>4. \A d \in forgotten : ContractState[d] \in {"delivered", "failed"}
  BY <1>1, <1>2 DEF ContractState
<1>5. receipts' \cap Queued = (receipts \cap Queued) \ forgotten
  BY <1>1
<1>6. Contract!Forget(forgotten)
  BY <1>3, <1>4, <1>5 DEF Contract!Forget
<1> QED
  BY <1>6 DEF Contract!Next

LEMMA OthersRefine ==
    ASSUME IInv,
           \/ \E p \in Procs : Abort(p) \/ Kill(p)
           \/ \E p \in Pingers, d \in Pings : Ping(p, d)
           \/ Tick
           \/ UNCHANGED vars
    PROVE  [Contract!Next]_(Contract!vars)
<1>1. ASSUME NEW p \in Pingers, NEW d \in Pings, Ping(p, d)
      PROVE  UNCHANGED Contract!vars
  <2>1. d \notin Queued /\ Queued \subseteq Deliveries
    BY SetsAssumption DEF Pings, Queued, Deliveries
  <2>2. \A c \in Queued : status'[c] = status[c]
    BY <1>1, <2>1 DEF Ping, IInv, TypeOK
  <2> QED
    BY <1>1, <2>2, Stutter DEF Ping
<1>2. ASSUME \/ \E p \in Procs : Abort(p) \/ Kill(p)
             \/ Tick
             \/ UNCHANGED vars
      PROVE  UNCHANGED Contract!vars
  BY <1>2, Stutter DEF Abort, Kill, Tick, vars, rows
<1> QED
  BY <1>1, <1>2

LEMMA ContractNext ==
    ASSUME IInv, [Next]_vars
    PROVE  [Contract!Next]_(Contract!vars)
BY ManageRefines, EmitRefines, LoopRefines, AnswerRefines, SaveEndpointRefines,
   SaveDeliveryRefines, SweepRefines, OthersRefine DEF Next, Attempt

\* The webhook queue implements its contract: an outcome is recorded once and
\* only after the answer it stands for, and nothing is sent after it.
THEOREM ContractImplemented == Spec => ImplementsContract
<1>1. Init => Contract!Init
  BY ContractInit
<1>2. IInv /\ [Next]_vars => [Contract!Next]_(Contract!vars)
  BY ContractNext
<1> QED
  BY <1>1, <1>2, Invariant, PTL DEF Spec, ImplementsContract, Contract!Spec

-----------------------------------------------------------------------------
(* PostsBounded.                                                           *)

\* Why it holds: a request of a row is paid for by an attempt its row records, by
\* the attempt of the process that holds it now, or by a process that died with it.
\* A row of a deleted endpoint is sent no more.
Paid ==
    \A d \in Queued :
        /\ posted[d] <= MaxAttempts + faults
        /\ endpoint[d[1]] # "deleted" =>
              /\ \A p \in Procs : Holds(p) /\ job[p].cur = d =>
                    job[p].tries = attempts[d] + 1 /\ posted[d] <= attempts[d] + 1 + faults
              /\ (\A p \in Procs : ~(Holds(p) /\ job[p].cur = d)) =>
                    posted[d] <= attempts[d] + faults

\* The numbers Paid speaks of.
LEMMA Counts ==
    ASSUME IInv
    PROVE  /\ MaxAttempts \in Nat /\ faults \in Nat
           /\ \A d \in Queued : posted[d] \in Nat /\ attempts[d] \in Nat /\ attempts[d] <= MaxAttempts
BY TimesAssumption DEF IInv, TypeOK, Deliveries

\* A step that neither sends, nor records, nor begins or ends an attempt.
LEMMA PaidStays ==
    ASSUME IInv, IInv', Paid, UNCHANGED <<attempts, posted>>, faults' >= faults,
           \A e \in Endpoints : endpoint[e] = "deleted" => endpoint'[e] = "deleted",
           \A p \in Procs : Holds(p)' <=> Holds(p),
           \A p \in Procs : Holds(p) => job'[p].cur = job[p].cur /\ job'[p].tries = job[p].tries
    PROVE  Paid'
<1> SUFFICES ASSUME NEW d \in Queued PROVE Paid!(d)'
  BY DEF Paid
<1>1. Paid!(d) /\ d[1] \in Endpoints
  BY DEF Paid, Queued
<1>2. /\ MaxAttempts \in Nat /\ faults \in Nat /\ faults' \in Nat
      /\ posted[d] \in Nat /\ attempts[d] \in Nat
  BY Counts DEF IInv, TypeOK
<1> QED
  BY <1>1, <1>2

\* A claim: nobody held the row, because it was due.
LEMMA ClaimPaid ==
    ASSUME IInv, IInv', Paid, NEW w \in Workers, NEW c \in Deliveries, Claim(w, c)
    PROVE  Paid'
<1>1. /\ w \in Procs /\ job[w].pc = "next" /\ job \in [Procs -> Jobs]
      /\ posted \in [Deliveries -> Nat] /\ attempts' = attempts /\ faults' = faults
      /\ endpoint' = endpoint /\ c \in Deliveries
  BY DEF Claim, rows, IInv, TypeOK, Procs
<1>2. /\ posted'[c] \in {posted[c], posted[c] + 1}
      /\ \A d \in Deliveries \ {c} : posted'[d] = posted[d]
  BY <1>1 DEF Claim
<1>3. /\ job'[w].cur = c /\ job'[w].tries = attempts[c] + 1
      /\ job'[w].pc \in {"posting", "saveEndpoint"}
      /\ \A p \in Procs \ {w} : job'[p] = job[p]
  BY <1>1 DEF Claim, Jobs
<1> SUFFICES ASSUME NEW d \in Queued PROVE Paid!(d)'
  BY DEF Paid
<1>4. Paid!(d) /\ d \in Deliveries
  BY DEF Paid, Deliveries
<1>5. /\ MaxAttempts \in Nat /\ faults \in Nat /\ faults' \in Nat
      /\ posted[d] \in Nat /\ attempts[d] \in Nat /\ attempts[d] <= MaxAttempts
  BY Counts, <1>1
<1>6. CASE d = c
  <2>1. status[d] = "pending" /\ wait[d] = 0
    BY <1>6 DEF Claim, Due
  <2>2. endpoint[d[1]] # "deleted" /\ attempts[d] < MaxAttempts
    BY <1>4, <2>1 DEF IInv, RowsOK
  <2>3. \A p \in Procs : ~(Holds(p) /\ job[p].cur = d)
    BY <2>1, <2>2 DEF IInv, ClaimsOK
  <2>4. posted[d] <= attempts[d] + faults
    BY <1>4, <2>2, <2>3
  <2>5. posted'[d] <= attempts[d] + 1 + faults
    BY <1>2, <1>5, <1>6, <2>4
  <2>6. \A p \in Procs : Holds(p)' /\ job'[p].cur = d => p = w
    BY <1>3, <2>3 DEF Holds
  <2>7. Holds(w)' /\ job'[w].cur = d /\ job'[w].tries = attempts[d] + 1
    BY <1>3, <1>6 DEF Holds
  <2>8. posted'[d] <= MaxAttempts + faults
    BY <1>2, <1>5, <1>6, <2>2, <2>4
  <2> QED
    BY <1>1, <2>5, <2>6, <2>7, <2>8
<1>7. CASE d # c
  <2>1. posted'[d] = posted[d]
    BY <1>2, <1>4, <1>7
  <2>2. \A p \in Procs : (Holds(p) /\ job[p].cur = d)' <=> Holds(p) /\ job[p].cur = d
    BY <1>1, <1>3, <1>7 DEF Holds
  <2>3. \A p \in Procs : Holds(p)' /\ job'[p].cur = d => job'[p] = job[p]
    BY <1>3, <1>7
  <2> QED
    BY <1>1, <1>4, <2>1, <2>2, <2>3
<1> QED
  BY <1>6, <1>7

\* The attempt the process made becomes the attempt its row records.
LEMMA SaveDeliveryPaid ==
    ASSUME IInv, IInv', Paid, NEW s \in Procs, SaveDelivery(s)
    PROVE  Paid'
<1> DEFINE c == job[s].cur
<1>1. /\ Holds(s) /\ c \in Deliveries /\ job[s].tries \in 0 .. MaxAttempts
      /\ job \in [Procs -> Jobs] /\ attempts \in [Deliveries -> 0 .. MaxAttempts]
  BY DEF SaveDelivery, Holds, IInv, TypeOK, ClaimsOK, Jobs
<1>2. /\ posted' = posted /\ faults' = faults /\ endpoint' = endpoint
      /\ attempts'[c] = job[s].tries
      /\ \A d \in Deliveries \ {c} : attempts'[d] = attempts[d]
      /\ \A p \in Procs \ {s} : job'[p] = job[p]
  BY <1>1 DEF SaveDelivery
<1>3. job'[s].pc \in {"idle", "next"}
  BY <1>1 DEF SaveDelivery, IdleJob, Jobs
<1> SUFFICES ASSUME NEW d \in Queued PROVE Paid!(d)'
  BY DEF Paid
<1>4. Paid!(d) /\ d \in Deliveries
  BY DEF Paid, Deliveries
<1>5. /\ MaxAttempts \in Nat /\ faults \in Nat /\ posted[d] \in Nat /\ attempts[d] \in Nat
      /\ attempts'[d] \in Nat
  BY Counts, <1>1, <1>2, <1>4
<1>6. ~Holds(s)'
  BY <1>3 DEF Holds
<1>7. \A p \in Procs \ {s} : Holds(p)' <=> Holds(p)
  BY <1>2 DEF Holds
<1>8. CASE d = c /\ endpoint[d[1]] # "deleted"
  <2>1. job[s].tries = attempts[d] + 1 /\ posted[d] <= attempts[d] + 1 + faults
    BY <1>1, <1>4, <1>8
  <2>2. \A p \in Procs : Holds(p) /\ job[p].cur = d => p = s
    BY <1>1, <1>8 DEF IInv, Exclusive
  <2>3. \A p \in Procs : ~(Holds(p)' /\ job'[p].cur = d)
    BY <1>2, <1>6, <1>7, <2>2
  <2>4. posted'[d] <= attempts'[d] + faults'
    BY <1>2, <1>5, <1>8, <2>1
  <2> QED
    BY <1>2, <1>4, <2>3, <2>4
<1>9. CASE d # c
  <2>1. attempts'[d] = attempts[d]
    BY <1>2, <1>4, <1>9
  <2>2. \A p \in Procs : Holds(p)' /\ job'[p].cur = d <=> Holds(p) /\ job[p].cur = d
    BY <1>2, <1>6, <1>7, <1>9
  <2> QED
    BY <1>2, <1>4, <1>6, <2>1, <2>2
<1>10. CASE endpoint[d[1]] = "deleted"
  BY <1>2, <1>4, <1>10
<1> QED
  BY <1>8, <1>9, <1>10

\* A process that dies takes its attempt with it, and is counted.
LEMMA KillPaid ==
    ASSUME IInv, IInv', Paid, NEW s \in Procs, Kill(s)
    PROVE  Paid'
<1>1. /\ attempts' = attempts /\ posted' = posted /\ endpoint' = endpoint
      /\ faults' = faults + 1
      /\ job \in [Procs -> Jobs] /\ job'[s] = IdleJob
      /\ \A p \in Procs \ {s} : job'[p] = job[p]
  BY DEF Kill, rows, IInv, TypeOK
<1> SUFFICES ASSUME NEW d \in Queued PROVE Paid!(d)'
  BY DEF Paid
<1>2. Paid!(d)
  BY DEF Paid
<1>3. MaxAttempts \in Nat /\ faults \in Nat /\ posted[d] \in Nat /\ attempts[d] \in Nat
  BY Counts
<1>4. ~Holds(s)'
  BY <1>1, IdleType DEF Holds
<1>5. \A p \in Procs \ {s} : Holds(p)' <=> Holds(p)
  BY <1>1 DEF Holds
<1>6. endpoint[d[1]] # "deleted" => posted[d] <= attempts[d] + 1 + faults
  BY <1>2, <1>3
<1>7. posted'[d] <= MaxAttempts + faults'
  BY <1>1, <1>2, <1>3
<1>8. endpoint'[d[1]] # "deleted" => posted'[d] <= attempts'[d] + faults'
  BY <1>1, <1>3, <1>6
<1>9. ASSUME NEW p \in Procs, Holds(p)', job'[p].cur = d, endpoint'[d[1]] # "deleted"
      PROVE  job'[p].tries = attempts'[d] + 1 /\ posted'[d] <= attempts'[d] + 1 + faults'
  <2>1. p # s /\ job'[p] = job[p] /\ Holds(p)
    BY <1>1, <1>4, <1>5, <1>9
  <2> QED
    BY <1>1, <1>2, <1>3, <1>9, <2>1
<1> QED
  BY <1>7, <1>8, <1>9

\* An attempt ends without a record only when its row is gone.
LEMMA AbortPaid ==
    ASSUME IInv, IInv', Paid, NEW s \in Procs, Abort(s)
    PROVE  Paid'
<1>1. /\ attempts' = attempts /\ posted' = posted /\ endpoint' = endpoint /\ faults' = faults
      /\ job \in [Procs -> Jobs] /\ job'[s] = IdleJob
      /\ \A p \in Procs \ {s} : job'[p] = job[p]
  BY DEF Abort, rows, IInv, TypeOK
<1>2. Holds(s)
  BY DEF Abort, Holds
<1>3. job[s].cur \in Queued => endpoint[job[s].cur[1]] = "deleted"
  BY <1>2 DEF Abort, IInv, ClaimsOK
<1> SUFFICES ASSUME NEW d \in Queued PROVE Paid!(d)'
  BY DEF Paid
<1>4. Paid!(d)
  BY DEF Paid
<1>5. ~Holds(s)'
  BY <1>1, IdleType DEF Holds
<1>6. \A p \in Procs \ {s} : Holds(p)' <=> Holds(p)
  BY <1>1 DEF Holds
<1>7. endpoint[d[1]] # "deleted" => job[s].cur # d
  BY <1>3
<1> QED
  BY <1>1, <1>4, <1>5, <1>6, <1>7

\* A test event is not one of those an event is counted for.
LEMMA PingPaid ==
    ASSUME IInv, IInv', Paid, NEW s \in Pingers, NEW c \in Pings, Ping(s, c)
    PROVE  Paid'
<1>1. /\ s \in Procs /\ c \in Deliveries /\ attempts' = attempts /\ faults' = faults
      /\ endpoint' = endpoint
      /\ job \in [Procs -> Jobs] /\ posted \in [Deliveries -> Nat]
  BY DEF Ping, Procs, Deliveries, IInv, TypeOK
<1>2. /\ \A d \in Deliveries \ {c} : posted'[d] = posted[d]
      /\ job'[s].cur = c /\ job[s].pc = "idle"
      /\ \A p \in Procs \ {s} : job'[p] = job[p]
  BY <1>1 DEF Ping, IdleJob
<1> SUFFICES ASSUME NEW d \in Queued PROVE Paid!(d)'
  BY DEF Paid
<1>3. Paid!(d) /\ d \in Deliveries
  BY DEF Paid, Deliveries
<1>4. d # c
  BY SetsAssumption DEF Queued, Pings
<1>5. \A p \in Procs : Holds(p)' /\ job'[p].cur = d <=> Holds(p) /\ job[p].cur = d
  BY <1>2, <1>4 DEF Holds
<1>6. \A p \in Procs : Holds(p)' /\ job'[p].cur = d => job'[p] = job[p]
  BY <1>2, <1>4
<1> QED
  BY <1>1, <1>2, <1>3, <1>4, <1>5, <1>6

\* The sweep forgets no row that somebody holds.
LEMMA SweepPaid ==
    ASSUME IInv, IInv', Paid, Sweep
    PROVE  Paid'
<1>1. PICK due \in SUBSET Deliveries, old \in SUBSET Deliveries :
        /\ \A d \in old : status[d] \in {"delivered", "failed"}
        /\ \E parts \in Chunkings(due) : Publish(parts)
        /\ attempts' = [d \in Deliveries |-> IF d \in old THEN 0 ELSE attempts[d]]
        /\ posted' = [d \in Deliveries |-> IF d \in old THEN 0 ELSE posted[d]]
        /\ UNCHANGED <<endpoint, job>>
  BY DEF Sweep, Sweepable, Finished
<1>2. faults \in Nat /\ faults' \in Nat /\ MaxAttempts \in Nat /\ faults' >= faults
  BY <1>1, Counts DEF Publish
<1> SUFFICES ASSUME NEW d \in Queued PROVE Paid!(d)'
  BY DEF Paid
<1>3. Paid!(d) /\ d \in Deliveries
  BY DEF Paid, Deliveries
<1>4. MaxAttempts \in Nat /\ faults \in Nat /\ posted[d] \in Nat /\ attempts[d] \in Nat
  BY Counts
<1>5. \A p \in Procs : Holds(p)' <=> Holds(p)
  BY <1>1 DEF Holds
<1>6. CASE d \notin old
  <2>1. attempts'[d] = attempts[d] /\ posted'[d] = posted[d]
    BY <1>1, <1>3, <1>6
  <2> QED
    BY <1>1, <1>2, <1>3, <1>4, <1>5, <2>1
<1>7. CASE d \in old
  <2>1. attempts'[d] = 0 /\ posted'[d] = 0
    BY <1>1, <1>3, <1>7
  <2>2. status[d] \in {"delivered", "failed"}
    BY <1>1, <1>7
  <2>3. \A p \in Procs : Holds(p) /\ job[p].cur = d => endpoint[d[1]] = "deleted"
    BY <2>2 DEF IInv, ClaimsOK
  <2>4. posted'[d] <= MaxAttempts + faults' /\ posted'[d] <= attempts'[d] + faults'
    <3> DEFINE f == faults'
    <3>1. f \in Nat /\ MaxAttempts \in Nat
      BY <1>2
    <3> HIDE DEF f
    <3>2. 0 <= MaxAttempts + f /\ 0 <= 0 + f
      BY <3>1
    <3> QED
      BY <2>1, <3>2 DEF f
  <2>5. \A p \in Procs : ~(Holds(p)' /\ job'[p].cur = d /\ endpoint'[d[1]] # "deleted")
    BY <1>1, <1>5, <2>3
  <2> QED
    BY <2>1, <2>4, <2>5
<1> QED
  BY <1>6, <1>7

\* The rest only moves messages, endpoints and time.
LEMMA OthersPaid ==
    ASSUME IInv, IInv', Paid,
           \/ \E e \in Endpoints : CreateEndpoint(e) \/ \E active \in BOOLEAN : SetActive(e, active)
           \/ \E m \in Emitters : Emit(m)
           \/ \E w \in Workers : Take(w) \/ Finish(w) \/ Requeue(w) \/ \E d \in Deliveries : Skip(w, d)
           \/ \E p \in Procs : SaveEndpoint(p) \/ \E result \in {"ok", "gone", "error"} : Answer(p, result)
           \/ Tick
           \/ UNCHANGED vars
    PROVE  Paid'
<1>1. /\ job \in [Procs -> Jobs] /\ faults \in Nat /\ endpoint \in [Endpoints -> {"none", "on", "off", "deleted"}]
      /\ Workers \subseteq Procs
  BY Counts DEF IInv, TypeOK, Procs
<1>2. ASSUME NEW e \in Endpoints,
             CreateEndpoint(e) \/ \E active \in BOOLEAN : SetActive(e, active)
      PROVE  Paid'
  <2>1. UNCHANGED <<attempts, posted, faults, job>>
    BY <1>2 DEF CreateEndpoint, SetActive, rows
  <2>2. \A f \in Endpoints : endpoint[f] = "deleted" => endpoint'[f] = "deleted"
    BY <1>1, <1>2 DEF CreateEndpoint, SetActive
  <2> QED
    BY <1>1, <2>1, <2>2, PaidStays DEF Holds
<1>3. ASSUME NEW m \in Emitters, Emit(m) PROVE Paid'
  <2>1. UNCHANGED <<attempts, posted, job, endpoint>> /\ faults' \in {faults, faults + 1}
    BY <1>1, <1>3 DEF Emit, EmitRead, EmitLookup, EmitInsert, EmitRefused, Publish, rows
  <2> QED
    BY <1>1, <2>1, PaidStays DEF Holds
<1>4. ASSUME NEW w \in Workers,
             Take(w) \/ Finish(w) \/ Requeue(w) \/ \E d \in Deliveries : Skip(w, d)
      PROVE  Paid'
  <2>1. CASE Take(w)
    <3>1. UNCHANGED <<attempts, posted, endpoint, faults>> /\ job'[w].pc = "next"
      BY <1>1, <2>1 DEF Take, rows, StartedJob
    <3>2. job[w].pc = "idle" /\ \A p \in Procs \ {w} : job'[p] = job[p]
      BY <1>1, <2>1 DEF Take
    <3> QED
      BY <1>1, <3>1, <3>2, PaidStays DEF Holds
  <2>2. CASE Finish(w) \/ Requeue(w)
    <3>1. UNCHANGED <<attempts, posted, endpoint>> /\ faults' \in {faults, faults + 1}
      BY <1>1, <2>2 DEF Finish, Requeue, Publish, rows
    <3>2. /\ job[w].pc = "next" /\ job'[w].pc = "idle"
          /\ \A p \in Procs \ {w} : job'[p] = job[p]
      BY <1>1, <2>2, IdleType DEF Finish, Requeue
    <3> QED
      BY <1>1, <3>1, <3>2, PaidStays DEF Holds
  <2>3. ASSUME NEW d \in Deliveries, Skip(w, d) PROVE Paid'
    <3>1. UNCHANGED <<attempts, posted, endpoint, faults>>
      BY <2>3 DEF Skip, rows
    <3>2. /\ job[w].pc = "next" /\ job'[w].pc = "next"
          /\ \A p \in Procs \ {w} : job'[p] = job[p]
      BY <1>1, <2>3 DEF Skip, Jobs
    <3> QED
      BY <1>1, <3>1, <3>2, PaidStays DEF Holds
  <2> QED
    BY <1>4, <2>1, <2>2, <2>3
<1>5. ASSUME NEW p \in Procs,
             SaveEndpoint(p) \/ \E result \in {"ok", "gone", "error"} : Answer(p, result)
      PROVE  Paid'
  <2>1. UNCHANGED <<attempts, posted, faults>>
    BY <1>5 DEF SaveEndpoint, Answer, rows
  <2>2. /\ \A q \in Procs \ {p} : job'[q] = job[q]
        /\ job'[p].cur = job[p].cur /\ job'[p].tries = job[p].tries
        /\ job[p].pc \in {"posting", "saveEndpoint"} /\ job'[p].pc \in {"saveEndpoint", "saveDelivery"}
    BY <1>1, <1>5 DEF SaveEndpoint, Answer, Jobs
  <2>3. \A f \in Endpoints : endpoint[f] = "deleted" => endpoint'[f] = "deleted"
    BY <1>1, <1>5 DEF SaveEndpoint, Answer
  <2> QED
    BY <1>1, <2>1, <2>2, <2>3, PaidStays DEF Holds
<1>6. ASSUME Tick PROVE Paid'
  <2>1. UNCHANGED <<attempts, posted, faults, endpoint>>
    BY <1>6 DEF Tick
  <2>2. \A p \in Procs : /\ job'[p].pc = job[p].pc
                         /\ job'[p].cur = job[p].cur /\ job'[p].tries = job[p].tries
    BY <1>1, <1>6 DEF Tick, Jobs
  <2> QED
    BY <1>1, <2>1, <2>2, PaidStays DEF Holds
<1>7. ASSUME UNCHANGED vars PROVE Paid'
  BY <1>1, <1>7, PaidStays DEF vars, rows, Holds
<1> QED
  BY <1>2, <1>3, <1>4, <1>5, <1>6, <1>7

\* Deleting an endpoint ends what is promised of its rows.
LEMMA DeletePaid ==
    ASSUME IInv, IInv', Paid, NEW e \in Endpoints, DeleteEndpoint(e)
    PROVE  Paid'
<1>1. UNCHANGED <<posted, faults, job>>
  BY DEF DeleteEndpoint
<1> SUFFICES ASSUME NEW d \in Queued PROVE Paid!(d)'
  BY DEF Paid
<1>2. Paid!(d) /\ d \in Deliveries /\ d[1] \in Endpoints
  BY DEF Paid, Deliveries, Queued
<1>3. CASE d[1] = e
  BY <1>1, <1>2, <1>3 DEF DeleteEndpoint, IInv, TypeOK
<1>4. CASE d[1] # e
  <2>1. attempts'[d] = attempts[d] /\ endpoint'[d[1]] = endpoint[d[1]]
    BY <1>2, <1>4 DEF DeleteEndpoint, IInv, TypeOK
  <2> QED
    BY <1>1, <1>2, <2>1 DEF Holds
<1> QED
  BY <1>3, <1>4

\* However messages are duplicated and tasks redelivered, an event is sent
\* max_attempts times at most, and once more for each process that died.
THEOREM PostsBoundedAlways == Spec => []PostsBounded
<1>1. Init => Paid
  BY TimesAssumption DEF Init, Paid, Holds, IdleJob, Deliveries, Procs
<1>2. IInv /\ IInv' /\ Paid /\ [Next]_vars => Paid'
  <2> SUFFICES ASSUME IInv, IInv', Paid, [Next]_vars PROVE Paid'
    OBVIOUS
  <2>1. ASSUME NEW e \in Endpoints, Manage(e) PROVE Paid'
    BY <2>1, DeletePaid, OthersPaid DEF Manage
  <2>2. ASSUME NEW w \in Workers, Loop(w) PROVE Paid'
    BY <2>2, ClaimPaid, OthersPaid DEF Loop
  <2>3. ASSUME NEW p \in Procs, Attempt(p) \/ Kill(p) PROVE Paid'
    BY <2>3, SaveDeliveryPaid, KillPaid, AbortPaid, OthersPaid DEF Attempt
  <2> QED
    BY <2>1, <2>2, <2>3, PingPaid, SweepPaid, OthersPaid DEF Next
<1>3. Paid => PostsBounded
  BY DEF Paid, PostsBounded
<1> QED
  BY <1>1, <1>2, <1>3, Invariant, PTL DEF Spec
=============================================================================
