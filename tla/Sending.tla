-------------------------------- MODULE Sending --------------------------------
(***************************************************************************)
(* Sending one message through the API: the Idempotency-Key of             *)
(* POST /messages (backend/apps/mail/api.py), the quotas and the relay     *)
(* (services/messages.py), and the messages that wait for a person         *)
(* (services/approvals.py).                                                *)
(*                                                                         *)
(* A request is made once; a client that retries makes another request     *)
(* with the same message.  The quotas are counters in the cache, one       *)
(* operation at a time.  A held message is a row, named by the request     *)
(* that made it; approve() holds its lock while it sends.  A counter is    *)
(* that of one window: another window is another cache key.                *)
(***************************************************************************)
EXTENDS Integers, FiniteSets

CONSTANTS
    Requests,   \* POST /messages calls
    Approvers,  \* calls of approve()
    Rejecters,  \* calls of reject()
    Message,    \* r -> the message of a request
    Token,      \* m -> its Idempotency-Key
    Quotas,     \* how many counters a send takes, in order
    Amount,     \* <<m, c>> -> what a message adds to counter c
    Limit,      \* c -> the limit of the counter
    MaxFaults,  \* bound of the model: lost replies, dead processes, cache errors
    None

Counters == 1 .. Quotas
Messages == {Message[r] : r \in Requests}
Tokens == {Token[m] : m \in Messages}
Senders == Requests \cup Approvers
Procs == Senders \cup Rejecters

ASSUME SendingAssumption ==
    /\ IsFiniteSet(Requests) /\ IsFiniteSet(Approvers) /\ IsFiniteSet(Rejecters)
    /\ Requests \cap Approvers = {} /\ Senders \cap Rejecters = {}
    /\ Quotas \in Nat \ {0} /\ MaxFaults \in Nat
    /\ Amount \in [Messages \X Counters -> Nat \ {0}]
    /\ Limit \in [Counters -> Nat]
    /\ None \notin Requests \cup Approvers \cup [state : {"pending", "done"}, message : Messages]

VARIABLES
    slot,     \* t -> apiidem: in the cache, [state, message] or None
    used,     \* c -> the counter
    status,   \* r -> the held message of the request, "none" without one
    locked,   \* r -> whose transaction holds the lock of the row, or None
    job,      \* p -> where a call is
    left,     \* history: the senders whose email the relay accepted
    unsure,   \* history: of these, those that got no reply
    leaked,   \* history: c -> taken by senders that could not give it back
    overlap,  \* history: the tokens two requests used at the same time
    faults    \* history

vars == <<slot, used, status, locked, job, left, unsure, leaked, overlap, faults>>

held == <<status, locked>>
history == <<left, unsure>>

\* next: the counter to take; back: the last one given back.
NewJob == [pc |-> "new", row |-> None, next |-> 1, back |-> 0, answer |-> "none"]

Init ==
    /\ slot = [t \in Tokens |-> None]
    /\ used = [c \in Counters |-> 0]
    /\ status = [r \in Requests |-> "none"]
    /\ locked = [r \in Requests |-> None]
    /\ job = [p \in Procs |-> NewJob]
    /\ left = {} /\ unsure = {}
    /\ leaked = [c \in Counters |-> 0]
    /\ overlap = {}
    /\ faults = 0

Running(p) == job[p].pc \notin {"new", "done"}

\* The message a sender sends, and the key of a request.
Carries(p) == IF p \in Requests THEN Message[p] ELSE Message[job[p].row]
Key(r) == Token[Message[r]]

\* What its send adds to a counter.
Adds(p, c) == Amount[<<Carries(p), c>>]

Goto(p, pc) == job' = [job EXCEPT ![p].pc = pc]
Answer(p, answer) ==
    job' = [job EXCEPT ![p] = [pc |-> "done", row |-> job[p].row, next |-> 1, back |-> 0,
                               answer |-> answer]]

-----------------------------------------------------------------------------
(* api_send_message: the slot of the Idempotency-Key.                       *)

Begins(r) ==
    /\ job[r].pc = "new"
    /\ overlap' = IF \E q \in Requests : Running(q) /\ Key(q) = Key(r)
                  THEN overlap \cup {Key(r)} ELSE overlap
    /\ UNCHANGED <<slot, used, held, history, leaked, faults>>

\* Nothing under the key: the request goes on to claim it.
Fresh(r) ==
    /\ Begins(r)
    /\ slot[Key(r)] = None
    /\ Goto(r, "claim")

\* Mutant of Repeats: the fingerprint is not compared.
RepeatsMutant(r) == slot[Key(r)].state = "done"

\* The stored answer is that of this message.
Repeats(r) == slot[Key(r)].message = Message[r] /\ slot[Key(r)].state = "done"

\* The first answer, or 422 for another message, or 409 while one is in progress.
Answered(r) ==
    /\ Begins(r)
    /\ slot[Key(r)] # None
    /\ Answer(r, IF Repeats(r) THEN "repeat"
                 ELSE IF slot[Key(r)].message # Message[r] THEN "mismatch" ELSE "busy")

\* cache.set, whatever is there by now.
ClaimSlot(r) ==
    /\ job[r].pc = "claim"
    /\ slot' = [slot EXCEPT ![Key(r)] = [state |-> "pending", message |-> Message[r]]]
    /\ Goto(r, "check")
    /\ UNCHANGED <<used, held, history, leaked, overlap, faults>>

\* A pending slot lives 300 seconds, longer than any request.
SlotExpires(t) ==
    /\ slot[t] # None
    /\ slot[t].state = "pending"
    /\ \A r \in Requests : Running(r) /\ Key(r) = t => job[r].pc = "claim"
    /\ slot' = [slot EXCEPT ![t] = None]
    /\ UNCHANGED <<used, held, job, history, leaked, overlap, faults>>

-----------------------------------------------------------------------------
(* MessageService.send.                                                     *)

\* The sender, the domain, containment, the recipients, the suppression list.
Allowed(p) ==
    /\ job[p].pc = "check"
    /\ Goto(p, "take")
    /\ UNCHANGED <<slot, used, held, history, leaked, overlap, faults>>

Refused(p) ==
    /\ job[p].pc = "check"
    /\ Goto(p, "fail")
    /\ UNCHANGED <<slot, used, held, history, leaked, overlap, faults>>

\* Human approval: the message becomes a row; an approved one is not held again.
Hold(r) ==
    /\ job[r].pc = "check"
    /\ status' = [status EXCEPT ![r] = "pending"]
    /\ Goto(r, "ok")
    /\ UNCHANGED <<slot, used, locked, history, leaked, overlap, faults>>

\* Mutant of Over: the limit is reached one too late.
OverMutant(c, n) == n > Limit[c] + 1

Over(c, n) == n > Limit[c]

\* _take: add first, look at the sum after.
Take(p) ==
    LET c == job[p].next
        sum == used[c] + Adds(p, c)
    IN  /\ job[p].pc = "take"
        /\ used' = [used EXCEPT ![c] = sum]
        /\ job' = [job EXCEPT ![p].pc = IF Over(c, sum) THEN "untake"
                                        ELSE IF c = Quotas THEN "relay" ELSE "take",
                              ![p].next = IF Over(c, sum) THEN c ELSE c + 1]
        /\ UNCHANGED <<slot, held, history, leaked, overlap, faults>>

\* The cache is down: 503, and the earlier counters are given back.
TakeFails(p) ==
    /\ job[p].pc = "take"
    /\ faults < MaxFaults
    /\ faults' = faults + 1
    /\ Goto(p, IF job[p].next = 1 THEN "fail" ELSE "refund")
    /\ UNCHANGED <<slot, used, held, history, leaked, overlap>>

\* decr, which may fail: then the window keeps the amount.
GiveBack(p, c) ==
    \/ /\ used' = [used EXCEPT ![c] = @ - Adds(p, c)]
       /\ UNCHANGED <<leaked, faults>>
    \/ /\ faults < MaxFaults
       /\ faults' = faults + 1
       /\ leaked' = [leaked EXCEPT ![c] = @ + Adds(p, c)]
       /\ UNCHANGED used

\* Mutant of Untake: the counter that was passed is given back again with the rest.
UntakeMutant(p) ==
    /\ job[p].pc = "untake"
    /\ GiveBack(p, job[p].next)
    /\ job' = [job EXCEPT ![p].pc = "refund", ![p].next = @ + 1]
    /\ UNCHANGED <<slot, held, history, overlap>>

\* The limit is passed: what this take added, then what the earlier ones did.
Untake(p) ==
    /\ job[p].pc = "untake"
    /\ GiveBack(p, job[p].next)
    /\ Goto(p, IF job[p].next = 1 THEN "fail" ELSE "refund")
    /\ UNCHANGED <<slot, held, history, overlap>>

Refund(p) ==
    LET c == job[p].back + 1
    IN  /\ job[p].pc = "refund"
        /\ GiveBack(p, c)
        /\ job' = [job EXCEPT ![p].pc = IF c = job[p].next - 1 THEN "fail" ELSE "refund",
                              ![p].back = c]
        /\ UNCHANGED <<slot, held, history, overlap>>

\* The relay takes the email; or does not; or does, and its reply is lost.
RelayAccepts(p) ==
    /\ job[p].pc = "relay"
    /\ left' = left \cup {p}
    /\ Goto(p, "ok")
    /\ UNCHANGED <<slot, used, held, unsure, leaked, overlap, faults>>

RelayFails(p) ==
    /\ job[p].pc = "relay"
    /\ Goto(p, "refund")
    /\ UNCHANGED <<slot, used, held, history, leaked, overlap, faults>>

ReplyLost(p) ==
    /\ job[p].pc = "relay"
    /\ faults < MaxFaults
    /\ faults' = faults + 1
    /\ left' = left \cup {p}
    /\ unsure' = unsure \cup {p}
    /\ Goto(p, "refund")
    /\ UNCHANGED <<slot, used, held, leaked, overlap>>

-----------------------------------------------------------------------------
(* The end of a request.                                                    *)

\* Mutant of Stored: the answer is not kept.
StoredMutant(r) == None

\* What the slot keeps for a retry.
Stored(r) == [state |-> "done", message |-> Message[r]]

Succeed(r) ==
    /\ job[r].pc = "ok"
    /\ slot' = [slot EXCEPT ![Key(r)] = Stored(r)]
    /\ Answer(r, "accepted")
    /\ UNCHANGED <<used, held, history, leaked, overlap, faults>>

Fail(r) ==
    /\ job[r].pc = "fail"
    /\ slot' = [slot EXCEPT ![Key(r)] = None]
    /\ Answer(r, "refused")
    /\ UNCHANGED <<used, held, history, leaked, overlap, faults>>

-----------------------------------------------------------------------------
(* approvals: approve in a transaction, reject without one, expire.         *)

\* Mutant of Decidable: approve does not look at the status.
DecidableMutant(r) == status[r] # "none"

Decidable(r) == status[r] = "pending"

\* select_for_update waits for the lock of whoever has it.
Approve(a, r) ==
    /\ job[a].pc = "new"
    /\ status[r] # "none"
    /\ locked[r] = None
    /\ IF Decidable(r)
       THEN /\ locked' = [locked EXCEPT ![r] = a]
            /\ job' = [job EXCEPT ![a].pc = "check", ![a].row = r]
       ELSE Answer(a, "already") /\ UNCHANGED locked
    /\ UNCHANGED <<slot, used, status, history, leaked, overlap, faults>>

\* The commit: the decision is visible and the lock is free.
Commit(a) ==
    LET r == job[a].row
    IN  /\ job[a].pc \in {"ok", "fail"}
        /\ status' = [status EXCEPT ![r] = IF job[a].pc = "ok" THEN "sent" ELSE "failed"]
        /\ locked' = [locked EXCEPT ![r] = None]
        /\ Answer(a, "decided")
        /\ UNCHANGED <<slot, used, history, leaked, overlap, faults>>

\* reject() reads the row outside a transaction ...
RejectRead(x, r) ==
    /\ job[x].pc = "new"
    /\ status[r] # "none"
    /\ \/ status[r] = "pending" /\ job' = [job EXCEPT ![x].pc = "decide", ![x].row = r]
       \/ status[r] # "pending" /\ Answer(x, "already")
    /\ UNCHANGED <<slot, used, held, history, leaked, overlap, faults>>

\* ... and saves it, whatever was decided meanwhile.
RejectSave(x) ==
    /\ job[x].pc = "decide"
    /\ locked[job[x].row] = None
    /\ status' = [status EXCEPT ![job[x].row] = "rejected"]
    /\ Answer(x, "decided")
    /\ UNCHANGED <<slot, used, locked, history, leaked, overlap, faults>>

\* One conditional update: a row that is locked is looked at again after.
Expire(r) ==
    /\ status[r] = "pending"
    /\ locked[r] = None
    /\ status' = [status EXCEPT ![r] = "expired"]
    /\ UNCHANGED <<slot, used, locked, job, history, leaked, overlap, faults>>

-----------------------------------------------------------------------------
\* What a sender has taken and still has.
Holding(p, c) ==
    /\ Running(p) /\ job[p].pc # "ok"
    /\ job[p].back < c
    /\ c < job[p].next \/ (job[p].pc = "untake" /\ c = job[p].next)

\* The process dies: a transaction rolls back, a slot stays pending, what was
\* taken stays taken.
Kill(p) ==
    /\ Running(p)
    /\ faults < MaxFaults
    /\ faults' = faults + 1
    /\ leaked' = [c \in Counters |->
          leaked[c] + (IF p \in Senders /\ Holding(p, c) THEN Adds(p, c) ELSE 0)]
    /\ locked' = [r \in Requests |-> IF locked[r] = p THEN None ELSE locked[r]]
    /\ Answer(p, "died")
    /\ UNCHANGED <<slot, used, status, history, overlap>>

Request(r) == Fresh(r) \/ Answered(r) \/ ClaimSlot(r) \/ Hold(r) \/ Succeed(r) \/ Fail(r)

Send(p) == \/ Allowed(p) \/ Refused(p) \/ Take(p) \/ TakeFails(p) \/ Untake(p)
           \/ Refund(p) \/ RelayAccepts(p) \/ RelayFails(p) \/ ReplyLost(p)

Decide == \/ \E a \in Approvers : Commit(a) \/ \E r \in Requests : Approve(a, r)
          \/ \E x \in Rejecters : RejectSave(x) \/ \E r \in Requests : RejectRead(x, r)
          \/ \E r \in Requests : Expire(r)

Next ==
    \/ \E r \in Requests : Request(r)
    \/ \E p \in Senders : Send(p)
    \/ Decide
    \/ \E t \in Tokens : SlotExpires(t)
    \/ \E p \in Procs : Kill(p)

Spec == Init /\ [][Next]_vars

-----------------------------------------------------------------------------
(* What must hold.                                                          *)

Answers == {"none", "accepted", "refused", "repeat", "mismatch", "busy", "already",
            "decided", "died"}

Jobs == [pc : {"new", "claim", "check", "take", "untake", "refund", "relay", "ok", "fail",
               "decide", "done"},
         row : Requests \cup {None}, next : Nat, back : Nat, answer : Answers]

Types ==
    /\ slot \in [Tokens -> [state : {"pending", "done"}, message : Messages] \cup {None}]
    /\ status \in [Requests -> {"none", "pending", "sent", "failed", "rejected", "expired"}]
    /\ locked \in [Requests -> Approvers \cup {None}]
    /\ job \in [Procs -> Jobs]
    /\ left \in SUBSET Senders /\ unsure \in SUBSET left
    /\ overlap \in SUBSET Tokens
    /\ faults \in 0 .. MaxFaults

\* Every variable keeps its type: no counter is ever below zero.
TypeOK == Types /\ used \in [Counters -> Nat] /\ leaked \in [Counters -> Nat]

\* What senders add to a counter, one place for each unit of it.
Places(ps, c) == UNION {{p} \X (1 .. Adds(p, c)) : p \in ps}

Sum(ps, c) == Cardinality(Places(ps, c))

\* What left within the window stays within its limit, however the additions and
\* the refunds of concurrent calls fall; only an email whose reply was lost, which
\* is refunded, comes on top.
QuotaHolds == \A c \in Counters : Sum(left \ unsure, c) <= Limit[c]

\* "Or refuse (and leave it unchanged)": a counter is what left, what is in
\* flight and what could not be given back; nothing is refunded twice or forgotten.
QuotaExact ==
    \A c \in Counters :
        used[c] = Sum(left \ unsure, c) + Sum({p \in Senders : Holding(p, c)}, c) + leaked[c]

\* "The same key and message return the first answer": a repeated answer is one
\* that a request with this very message was given.
RepeatTrue ==
    \A r \in Requests : job[r].answer = "repeat" =>
        \E q \in Requests : Message[q] = Message[r] /\ job[q].answer = "accepted"

Died(p) == job[p].answer = "died"

\* The requests of a key whose message went out or is held, and who know it.
Accepted(t) ==
    {r \in Requests : Key(r) = t /\ (r \in left \/ status[r] # "none")
                      /\ ~Died(r) /\ r \notin unsure}

\* "Make a retry safe": a client that waits for each answer before it tries again
\* sends its message once, unless a reply was lost or a process died.
SequentialRetriesSafe == \A t \in Tokens \ overlap : Cardinality(Accepted(t)) <= 1

\* The calls of approve that mailed the held message of r.
Mailers(r) == {a \in Approvers \cap left : job[a].row = r}

\* What a decision says is what happened: a held message leaves once, however many
\* approve and expire it at the same time, unless the process that sent it died
\* before its commit.  (A rejection says nothing: it may overwrite any other.)
DecisionsTrue ==
    \A r \in Requests :
        /\ \A a, b \in Mailers(r) : ~Died(a) /\ ~Died(b) => a = b
        /\ status[r] = "sent" => \E a \in Mailers(r) : a \notin unsure /\ ~Died(a)
        /\ status[r] = "failed" => \A a \in Mailers(r) : a \in unsure \/ Died(a)
        /\ status[r] = "expired" => \A a \in Mailers(r) : Died(a)

\* Why DecisionsTrue holds: whoever decides has the lock of a row that is pending,
\* and the email of a pending row was sent by a process that died or by the one
\* that has the lock.
LocksOK ==
    /\ \A a \in Approvers : Running(a) =>
          job[a].row \in Requests /\ locked[job[a].row] = a /\ status[job[a].row] = "pending"
    /\ \A r \in Requests, a \in Approvers : locked[r] = a => Running(a) /\ job[a].row = r
    /\ \A r \in Requests : status[r] = "pending" =>
          \A a \in Mailers(r) : Died(a) \/ locked[r] = a
    /\ \A r \in Requests : status[r] = "none" => Mailers(r) = {}
    /\ \A r \in Requests : job[r].pc \in {"new", "claim", "check"} => status[r] = "none"

\* How far a call of approve is tells whether its email left.
EmailsOK ==
    \A a \in Approvers :
        /\ job[a].pc \in {"new", "check", "take", "untake", "relay"} => a \notin left
        /\ job[a].pc = "ok" => a \in left \ unsure
        /\ job[a].pc \in {"refund", "fail"} /\ a \in left => a \in unsure
        /\ job[a].pc \notin {"claim", "decide"}

\* A sender takes counters that exist, and gives back those that it has.
PlacesOK ==
    \A p \in Senders :
        /\ job[p].next \in 1 .. Quotas + 1
        /\ job[p].pc \in {"new", "claim", "check"} => job[p].next = 1
        /\ job[p].pc \in {"take", "untake"} => job[p].next <= Quotas
        /\ job[p].pc = "relay" => job[p].next >= 2
        /\ job[p].pc = "refund" => job[p].back + 2 <= job[p].next
        /\ job[p].pc \notin {"refund", "fail", "done"} => job[p].back = 0

\* A call of reject has read a row that there is.
RejectsOK ==
    \A x \in Rejecters : job[x].pc = "decide" =>
        job[x].row \in Requests /\ status[job[x].row] # "none"

IInv == Types /\ PlacesOK /\ RejectsOK /\ LocksOK /\ EmailsOK /\ DecisionsTrue

\* "The same key and message return the first answer instead of sending twice."
OncePerKey == \A t \in Tokens : Cardinality({r \in Requests \cap left : Key(r) = t}) <= 1
=============================================================================
