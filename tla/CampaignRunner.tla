---------------------------- MODULE CampaignRunner ----------------------------
(***************************************************************************)
(* Marketing campaigns: the runs of mail.run_campaigns                     *)
(* (backend/apps/mail/services/campaign_runner.py) and the changes of      *)
(* state a person makes meanwhile (services/marketing.py).                 *)
(*                                                                         *)
(* A recipient is a row <<campaign, n>>; n stands for both the address and *)
(* the order of the primary keys.  A run works out a budget, shares it     *)
(* between the campaigns that are sending, and claims and mails one        *)
(* recipient at a time.  It is raised a soft limit, killed at a hard one,  *)
(* or killed at any point; a lock in the cache that expires on its own     *)
(* keeps runs apart, but nothing depends on it for safety.                 *)
(*                                                                         *)
(* Time is counted in ticks by timers that count down (the lock, the age   *)
(* of a claim) or up (the age of a run); the clock's minute and day turn   *)
(* over at any moment.                                                     *)
(***************************************************************************)
EXTENDS Integers, FiniteSets

CONSTANTS
    Campaigns,
    Addresses,   \* naturals: the order in which the rows of a campaign are taken
    Unfilled,    \* the rows compose() finds a merge value missing for
    Runners,     \* Celery worker processes
    Pace,        \* pace_per_minute
    Ceiling,     \* ceiling_today
    Streak,      \* FAIL_STREAK_PAUSE
    LockTicks,   \* LOCK_SECONDS
    SoftTicks,   \* SCAN_SOFT_TIME_LIMIT
    HardTicks,   \* SCAN_TIME_LIMIT
    StaleTicks,  \* STALE_CLAIM
    Results,     \* what the relay may do with an email in this model
    Decliners,   \* bound of the model: addresses that may opt out
    Blockable,   \* bound of the model: campaigns something may block
    MaxFaults,   \* bound of the model: relay failures and runs cut short
    None

Rows == Campaigns \X Addresses

\* A claim is made after its run began, so when the run reaches its hard limit
\* the claim is not yet stale: SCAN_TIME_LIMIT = STALE_CLAIM = 120 seconds.
ASSUME ConstantsAssumption ==
    /\ IsFiniteSet(Campaigns) /\ IsFiniteSet(Addresses) /\ Addresses \subseteq Nat
    /\ Unfilled \subseteq Rows
    /\ IsFiniteSet(Runners) /\ Runners # {}
    /\ Pace \in Nat \ {0} /\ Ceiling \in Nat \ {0} /\ Streak \in Nat \ {0}
    /\ LockTicks \in Nat /\ SoftTicks \in Nat /\ HardTicks \in Nat /\ StaleTicks \in Nat
    /\ SoftTicks < LockTicks /\ SoftTicks <= HardTicks /\ HardTicks < StaleTicks
    /\ Results \subseteq {"accepted", "refused", "failed", "lost"}
    /\ Decliners \subseteq Addresses /\ MaxFaults \in Nat
    /\ None \notin Runners /\ None \notin Rows /\ None \notin Campaigns

VARIABLES
    camp,        \* c -> its status; "early", "due" and "late" are a scheduled campaign
                 \* before its time, at it, and more than MAX_LATE past it
    row,         \* r -> its status; "refused", "missing" and "interrupted" are the
                 \* failed rows by their detail
    token,       \* r -> claim_token: the run that claimed it
    fresh,       \* r -> ticks until the claim is stale, 0 without one
    declined,    \* addresses opted out, suppressed or blocked
    blocked,     \* campaigns _stopped() finds a reason to pause
    stamp,       \* r -> when it was sent (sent_at) or refused: in this clock "minute",
                 \* earlier this "day", or "old"
    lock,        \* ticks until LOCK_KEY expires, 0 when it is free
    job,         \* p -> what a run holds
    mails,       \* history: r -> emails the relay accepted
    lost,        \* history: r -> of these, accepted with the reply lost
    refusals,    \* history: c -> refusals in a row since an email was accepted or resume
    faults       \* history: relay failures and runs cut short

vars == <<camp, row, token, fresh, declined, blocked, stamp, lock, job, mails, lost,
          refusals, faults>>

claims == <<token, fresh>>
lists == <<declined, blocked>>
history == <<mails, lost, refusals>>

Scheduled == {"early", "due", "late"}
Final == {"sent", "refused", "missing", "interrupted", "skipped"}

IdleJob == [pc |-> "idle", age |-> 0, deaf |-> FALSE, runnable |-> {}, pass |-> {},
            budget |-> 0, share |-> 0, camp |-> None, todo |-> {}, refused |-> {},
            cur |-> None, result |-> "none", streak |-> 0, stop |-> FALSE]

Init ==
    /\ camp = [c \in Campaigns |-> "none"]
    /\ row = [r \in Rows |-> "none"]
    /\ token = [r \in Rows |-> None]
    /\ fresh = [r \in Rows |-> 0]
    /\ declined = {} /\ blocked = {}
    /\ stamp = [r \in Rows |-> "old"]
    /\ lock = 0
    /\ job = [p \in Runners |-> IdleJob]
    /\ mails = [r \in Rows |-> 0]
    /\ lost = [r \in Rows |-> 0]
    /\ refusals = [c \in Campaigns |-> 0]
    /\ faults = 0

-----------------------------------------------------------------------------
(* What people do: the API, the unsubscribe link, and what else stops a     *)
(* campaign.                                                                *)

\* create(): the rows and the campaign appear in one transaction; nobody left
\* to mail is an error.
Create(c, status) ==
    /\ camp[c] = "none"
    /\ \E a \in Addresses : a \notin declined
    /\ camp' = [camp EXCEPT ![c] = status]
    /\ row' = [r \in Rows |-> IF r[1] # c THEN row[r]
                              ELSE IF r[2] \in declined THEN "skipped" ELSE "pending"]
    /\ UNCHANGED <<claims, lists, stamp, lock, job, history, faults>>

\* A conditional update of the status.
Move(c, from, to) ==
    /\ camp[c] \in from
    /\ camp' = [camp EXCEPT ![c] = to]
    /\ UNCHANGED <<row, claims, lists, stamp, lock, job, mails, lost, faults>>

Pause(c) == Move(c, {"sending"}, "paused") /\ UNCHANGED refusals
Resume(c) == Move(c, {"paused"}, "sending") /\ refusals' = [refusals EXCEPT ![c] = 0]
Cancel(c) == Move(c, Scheduled \cup {"sending", "paused"}, "cancelled") /\ UNCHANGED refusals
StartNow(c) == Move(c, Scheduled, "sending") /\ UNCHANGED refusals
Reschedule(c) == Move(c, Scheduled, "early") /\ UNCHANGED refusals

\* The time of a scheduled campaign comes, and passes.
Elapse(c) == (Move(c, {"early"}, "due") \/ Move(c, {"due"}, "late")) /\ UNCHANGED refusals

\* opt_out() and remove_opt_out(), and the same for the suppression list.
OptOut(a) ==
    /\ a \in Decliners
    /\ declined' = IF a \in declined THEN declined \ {a} ELSE declined \cup {a}
    /\ UNCHANGED <<camp, row, claims, blocked, stamp, lock, job, history, faults>>

\* Containment pauses the sender, the bounce guard the key, bounces come in,
\* the domain is removed; or an administrator undoes it.
Block(c) ==
    /\ c \in Blockable
    /\ blocked' = IF c \in blocked THEN blocked \ {c} ELSE blocked \cup {c}
    /\ UNCHANGED <<camp, row, claims, declined, stamp, lock, job, history, faults>>

-----------------------------------------------------------------------------
(* A run.                                                                   *)

\* Mutant of Stale: claims of dead runs are never given up.
NeverStaleMutant(r) == FALSE

\* Mutant of Stale: any claim a run finds is taken for a dead run's.
AnyClaimMutant(r) == row[r] = "sending"

Stale(r) == row[r] = "sending" /\ fresh[r] = 0

\* run(): take the lock, give up the claims of runs that died, start what is
\* due (and hold what is late).
Begin(p) ==
    /\ job[p].pc = "idle"
    /\ lock = 0
    /\ lock' = LockTicks
    /\ row' = [r \in Rows |-> IF Stale(r) THEN "interrupted" ELSE row[r]]
    /\ token' = [r \in Rows |-> IF Stale(r) THEN None ELSE token[r]]
    /\ camp' = [c \in Campaigns |-> IF camp[c] = "late" THEN "paused"
                                    ELSE IF camp[c] = "due" THEN "sending" ELSE camp[c]]
    /\ job' = [job EXCEPT ![p].pc = "plan"]
    /\ UNCHANGED <<fresh, lists, stamp, history, faults>>

\* The rows that sent_this_minute() and sent_today() count.
SentThisMinute == {r \in Rows : row[r] = "sent" /\ stamp[r] = "minute"}
SentToday == {r \in Rows : row[r] = "sent" /\ stamp[r] \in {"minute", "day"}}

\* Mutant of Budget: what other runs sent in this minute is not counted.
BudgetMutant ==
    LET room == Ceiling - Cardinality(SentToday) IN IF Pace <= room THEN Pace ELSE room

\* Mutant of Budget: a run may use up the day's ceiling at once.
UnpacedMutant == Ceiling - Cardinality(SentToday)

Budget ==
    LET room == Ceiling - Cardinality(SentToday)
        pace == Pace - Cardinality(SentThisMinute)
    IN  IF pace <= room THEN pace ELSE room

\* The campaigns to send, the ones to pause, and the budget; the relay may not
\* accept a connection.
Plan(p) ==
    LET active == {c \in Campaigns : camp[c] = "sending"}
        runnable == active \ blocked
        n == Cardinality(runnable)
        go == runnable # {} /\ Budget > 0
    IN  /\ job[p].pc = "plan"
        /\ camp' = [c \in Campaigns |-> IF c \in active \cap blocked THEN "paused" ELSE camp[c]]
        /\ \/ /\ job' = IF go THEN [job EXCEPT ![p].pc = "pick", ![p].runnable = runnable,
                                               ![p].pass = runnable, ![p].budget = Budget,
                                               ![p].share = (Budget + n - 1) \div n]
                        ELSE [job EXCEPT ![p].pc = "closing"]
              /\ UNCHANGED faults
           \/ /\ go /\ faults < MaxFaults
              /\ faults' = faults + 1
              /\ job' = [job EXCEPT ![p].pc = "closing"]
        /\ UNCHANGED <<row, claims, lists, stamp, lock, history>>

\* The first n of a set of naturals, and the last.
Lowest(S, n) == {a \in S : Cardinality({b \in S : b < a}) < n}
Highest(S, n) == {a \in S : Cardinality({b \in S : b > a}) < n}

Pending(c) == {a \in Addresses : row[<<c, a>>] = "pending"}

\* Mutant of OpenStatuses: a recipient in flight does not keep a campaign open.
OpenMutant == {"pending"}

OpenStatuses == {"pending", "sending"}

\* _finish_if_done(): the campaign with its status after it.
Finished(c) ==
    IF camp[c] = "sending" /\ \A a \in Addresses : row[<<c, a>>] \notin OpenStatuses
    THEN [camp EXCEPT ![c] = "completed"] ELSE camp

Take(p) == IF job[p].share <= job[p].budget THEN job[p].share ELSE job[p].budget

\* The next campaign of the pass: its first pending rows, and who of them must
\* not be mailed.  Which campaign of the pass comes next is left open.
Pick(p, c) ==
    LET rows == Lowest(Pending(c), Take(p))
    IN  /\ job[p].pc = "pick"
        /\ job[p].budget > 0
        /\ c \in job[p].pass
        /\ IF rows = {}
           THEN /\ camp' = Finished(c)
                /\ job' = [job EXCEPT ![p].pass = @ \ {c}, ![p].runnable = @ \ {c}]
           ELSE /\ job' = [job EXCEPT ![p].pc = "batch", ![p].camp = c, ![p].todo = rows,
                                      ![p].refused = rows \cap declined, ![p].pass = @ \ {c}]
                /\ UNCHANGED camp
        /\ UNCHANGED <<row, claims, lists, stamp, lock, history, faults>>

\* The pass is over: another one, or the end of the run.
NextPass(p) ==
    /\ job[p].pc = "pick"
    /\ job[p].pass = {} \/ job[p].budget <= 0
    /\ job' = IF job[p].budget > 0 /\ job[p].runnable # {}
              THEN [job EXCEPT ![p].pass = job[p].runnable]
              ELSE [job EXCEPT ![p].pc = "closing"]
    /\ UNCHANGED <<camp, row, claims, lists, stamp, lock, history, faults>>

\* Mutant of Claimable: the claim does not ask whether somebody else has it.
ClaimableMutant(r) == row[r] \in {"pending", "sending"}

Claimable(r) == row[r] = "pending"

\* _claim(): take the next recipient, or leave it to whoever has it.
Claim(p, a) ==
    LET r == <<job[p].camp, a>>
    IN  /\ job[p].pc = "batch"
        /\ a \in job[p].todo
        /\ \A b \in job[p].todo : a <= b
        /\ IF Claimable(r)
           THEN /\ row' = [row EXCEPT ![r] = "sending"]
                /\ token' = [token EXCEPT ![r] = p]
                /\ fresh' = [fresh EXCEPT ![r] = StaleTicks]
                /\ job' = [job EXCEPT ![p].todo = @ \ {a}, ![p].cur = r, ![p].pc = "claimed"]
           ELSE /\ job' = [job EXCEPT ![p].todo = @ \ {a}]
                /\ UNCHANGED <<row, claims>>
        /\ UNCHANGED <<camp, lists, stamp, lock, history, faults>>

Unclaim(r) ==
    /\ token' = [token EXCEPT ![r] = None]
    /\ fresh' = [fresh EXCEPT ![r] = 0]

\* A recipient on a list is skipped and one with a value missing fails; anybody
\* else's email is on its way to the relay and costs budget.
Compose(p) ==
    LET r == job[p].cur
        mark == IF r[2] \in job[p].refused THEN "skipped"
                ELSE IF r \in Unfilled THEN "missing" ELSE "sending"
    IN  /\ job[p].pc = "claimed"
        /\ row' = [row EXCEPT ![r] = mark]
        /\ IF mark = "sending"
           THEN /\ job' = [job EXCEPT ![p].pc = "sending", ![p].budget = @ - 1]
                /\ UNCHANGED claims
           ELSE /\ job' = [job EXCEPT ![p].pc = "batch", ![p].cur = None]
                /\ Unclaim(r)
        /\ UNCHANGED <<camp, lists, stamp, lock, history, faults>>

\* mail.send(): accepted; refused (a permanent answer); failed (no connection, a
\* temporary answer); or accepted with the answer lost to a timeout, which the
\* run cannot tell from a failure.
Relay(p, result) ==
    LET r == job[p].cur
        failing == result \in {"failed", "lost"}
    IN  /\ job[p].pc = "sending"
        /\ failing => faults < MaxFaults
        /\ job' = [job EXCEPT ![p].pc = "record", ![p].result = result]
        /\ mails' = [mails EXCEPT ![r] = @ + (IF result \in {"accepted", "lost"} THEN 1 ELSE 0)]
        /\ lost' = [lost EXCEPT ![r] = @ + (IF result = "lost" THEN 1 ELSE 0)]
        /\ faults' = faults + (IF failing THEN 1 ELSE 0)
        /\ UNCHANGED <<camp, row, claims, lists, stamp, lock, refusals>>

Mark(result) == IF result = "accepted" THEN "sent" ELSE "refused"

\* The answer is recorded whoever holds the claim by now.
RecordAnswer(p) ==
    LET r == job[p].cur
        result == job[p].result
        ok == result = "accepted"
        streak == IF ok THEN 0 ELSE job[p].streak + 1
    IN  /\ job[p].pc = "record"
        /\ result \in {"accepted", "refused"}
        /\ row' = [row EXCEPT ![r] = Mark(result)]
        /\ Unclaim(r)
        /\ stamp' = [stamp EXCEPT ![r] = "minute"]
        /\ refusals' = [refusals EXCEPT ![r[1]] = IF ok THEN 0 ELSE @ + 1]
        /\ job' = [job EXCEPT ![p].pc = "batch", ![p].cur = None, ![p].result = "none",
                              ![p].streak = streak,
                              ![p].todo = IF streak >= Streak THEN {} ELSE @]
        /\ UNCHANGED <<camp, lists, lock, mails, lost, faults>>

\* The relay failed: back to pending, if the claim is still ours, and the batch
\* ends.
RecordFailure(p) ==
    LET r == job[p].cur
    IN  /\ job[p].pc = "record"
        /\ job[p].result \in {"failed", "lost"}
        /\ IF token[r] = p
           THEN /\ row' = [row EXCEPT ![r] = "pending"]
                /\ Unclaim(r)
           ELSE UNCHANGED <<row, claims>>
        /\ job' = [job EXCEPT ![p].pc = "batch", ![p].cur = None, ![p].result = "none",
                              ![p].todo = {}, ![p].stop = TRUE, ![p].budget = @ + 1]
        /\ UNCHANGED <<camp, lists, stamp, lock, history, faults>>

\* Mutant of Tripped: the refusals of earlier batches do not count.
TrippedMutant(p) == job[p].streak >= Streak

\* _tripped(): too many refusals in a row in this batch, or in the last rows of
\* the campaign.
Tripped(p) ==
    LET c == job[p].camp
        done == {a \in Addresses :
                    row[<<c, a>>] \in {"sent", "refused", "missing", "interrupted"}}
        recent == Highest(done, Streak)
    IN  \/ job[p].streak >= Streak
        \/ /\ Cardinality(recent) = Streak
           /\ \A a \in recent : row[<<c, a>>] = "refused"

\* The end of _send_batch(): pause, or finish, or after a failure of the relay
\* neither.
BatchEnd(p) ==
    LET c == job[p].camp
        stop == job[p].stop
        more == ~stop /\ ~Tripped(p)
    IN  /\ job[p].pc = "batch"
        /\ job[p].todo = {}
        /\ camp' = IF more THEN Finished(c)
                   ELSE IF ~stop /\ camp[c] = "sending" THEN [camp EXCEPT ![c] = "paused"]
                   ELSE camp
        /\ job' = [job EXCEPT ![p].pc = "pick", ![p].camp = None, ![p].refused = {},
                              ![p].streak = 0, ![p].stop = FALSE,
                              ![p].runnable = IF more THEN @ ELSE @ \ {c}]
        /\ UNCHANGED <<row, claims, lists, stamp, lock, history, faults>>

Running(p) == job[p].pc \notin {"idle", "closing"}

Close(p) == job' = [job EXCEPT ![p] = [IdleJob EXCEPT !.pc = "closing", !.age = job[p].age]]

\* The soft limit is raised, wherever the run is.
SoftLimit(p) ==
    /\ Running(p)
    /\ job[p].age >= SoftTicks
    /\ ~job[p].deaf
    /\ faults < MaxFaults
    /\ faults' = faults + 1
    /\ Close(p)
    /\ UNCHANGED <<camp, row, claims, lists, stamp, lock, history>>

\* It is raised inside remember_many(), whose caller catches every exception.
SoftLimitSwallowed(p) ==
    /\ job[p].pc = "batch" /\ job[p].todo = {}
    /\ job[p].age >= SoftTicks
    /\ ~job[p].deaf
    /\ job' = [job EXCEPT ![p].deaf = TRUE]
    /\ UNCHANGED <<camp, row, claims, lists, stamp, lock, history, faults>>

\* The lock is deleted, whoever holds it by now.
End(p) ==
    /\ job[p].pc = "closing"
    /\ lock' = 0
    /\ job' = [job EXCEPT ![p] = IdleJob]
    /\ UNCHANGED <<camp, row, claims, lists, stamp, history, faults>>

\* The process dies, at its hard limit or at any point before.
Kill(p) ==
    /\ job[p].pc # "idle"
    /\ faults < MaxFaults
    /\ faults' = faults + 1
    /\ job' = [job EXCEPT ![p] = IdleJob]
    /\ UNCHANGED <<camp, row, claims, lists, stamp, lock, history>>

-----------------------------------------------------------------------------
(* Time.                                                                    *)

Down(n) == IF n > 0 THEN n - 1 ELSE 0

\* No run lives past its soft limit unless it swallowed it or is closing, and
\* none past its hard limit.
Tick ==
    /\ \A p \in Runners : Running(p) /\ ~job[p].deaf => job[p].age < SoftTicks
    /\ \A p \in Runners : job[p].pc # "idle" => job[p].age < HardTicks
    /\ \/ lock > 0
       \/ \E r \in Rows : fresh[r] > 0
       \/ \E p \in Runners : job[p].pc # "idle"
    /\ lock' = Down(lock)
    /\ fresh' = [r \in Rows |-> Down(fresh[r])]
    /\ job' = [p \in Runners |-> IF job[p].pc = "idle" THEN job[p]
                                 ELSE [job[p] EXCEPT !.age = @ + 1]]
    /\ UNCHANGED <<camp, row, token, lists, stamp, history, faults>>

NewMinute ==
    /\ \E r \in Rows : stamp[r] = "minute"
    /\ stamp' = [r \in Rows |-> IF stamp[r] = "minute" THEN "day" ELSE stamp[r]]
    /\ UNCHANGED <<camp, row, claims, lists, lock, job, history, faults>>

NewDay ==
    /\ \E r \in Rows : stamp[r] # "old"
    /\ stamp' = [r \in Rows |-> "old"]
    /\ UNCHANGED <<camp, row, claims, lists, lock, job, history, faults>>

-----------------------------------------------------------------------------
People(c) ==
    \/ \E status \in {"early", "sending"} : Create(c, status)
    \/ Pause(c) \/ Resume(c) \/ Cancel(c) \/ StartNow(c) \/ Reschedule(c)
    \/ Elapse(c) \/ Block(c)

Sending(p) ==
    \/ (\E c \in Campaigns : Pick(p, c)) \/ NextPass(p)
    \/ (\E a \in Addresses : Claim(p, a)) \/ Compose(p) \/ (\E result \in Results : Relay(p, result))
    \/ RecordAnswer(p) \/ RecordFailure(p) \/ BatchEnd(p)

Run(p) == Begin(p) \/ Plan(p) \/ Sending(p) \/ End(p)

CutShort(p) == SoftLimit(p) \/ SoftLimitSwallowed(p) \/ Kill(p)

Next ==
    \/ \E c \in Campaigns : People(c)
    \/ \E a \in Addresses : OptOut(a)
    \/ \E p \in Runners : Run(p) \/ CutShort(p)
    \/ Tick \/ NewMinute \/ NewDay

Spec == Init /\ [][Next]_vars

-----------------------------------------------------------------------------
(* What must hold.                                                          *)

CampStatuses == Scheduled \cup {"none", "sending", "paused", "completed", "cancelled"}
RowStatuses == Final \cup {"none", "pending", "sending"}

Records == [pc : {"idle", "plan", "pick", "batch", "claimed", "sending", "record", "closing"},
            age : 0 .. HardTicks, deaf : BOOLEAN,
            runnable : SUBSET Campaigns, pass : SUBSET Campaigns,
            budget : Int, share : Int, camp : Campaigns \cup {None},
            todo : SUBSET Addresses, refused : SUBSET Addresses, cur : Rows \cup {None},
            result : Results \cup {"none"}, streak : Nat, stop : BOOLEAN]

\* A run in a batch has a campaign, and an answer until it is recorded.
Jobs == {j \in Records :
            /\ j.pc \in {"batch", "claimed", "sending", "record"} => j.camp \in Campaigns
            /\ j.pc = "record" <=> j.result # "none"}

\* Every variable keeps its type.
TypeOK ==
    /\ camp \in [Campaigns -> CampStatuses]
    /\ row \in [Rows -> RowStatuses]
    /\ token \in [Rows -> Runners \cup {None}]
    /\ fresh \in [Rows -> 0 .. StaleTicks]
    /\ declined \in SUBSET Addresses /\ blocked \in SUBSET Campaigns
    /\ stamp \in [Rows -> {"minute", "day", "old"}]
    /\ lock \in 0 .. LockTicks
    /\ job \in [Runners -> Jobs]
    /\ mails \in [Rows -> Nat] /\ lost \in [Rows -> Nat]
    /\ refusals \in [Campaigns -> Nat]
    /\ faults \in 0 .. MaxFaults

Holds(p) == job[p].pc \in {"claimed", "sending", "record"}

\* Two runs that overlap never mail the same person: whoever is about to mail a
\* recipient is the only one, and nobody was mailed twice unless the relay's
\* answer was lost.
MailedOnce ==
    /\ \A r \in Rows : mails[r] <= 1 + lost[r]
    /\ \A p, q \in Runners : Holds(p) /\ Holds(q) /\ job[p].cur = job[q].cur => p = q

\* The rows tell what happened: each goes through CampaignContract's life.
Contract == INSTANCE CampaignContract WITH state <- row

ImplementsContract == Contract!Spec

\* A run cut short leaves at most the one email in flight in doubt.
InDoubt ==
    Cardinality({r \in Rows : \/ row[r] = "interrupted"
                              \/ /\ row[r] = "sending"
                                 /\ ~\E p \in Runners : Holds(p) /\ job[p].cur = r}) <= faults

\* A campaign that is over has nobody left to mail.
CompletedIsDone ==
    \A r \in Rows : camp[r[1]] = "completed" => row[r] \notin {"pending", "sending"}

\* The minute's pace and the day's ceiling hold however the runs follow one
\* another; runs that overlap can each spend one pace, and no more.
BudgetsHold ==
    LET n == Cardinality(Runners)
    IN  /\ Cardinality(SentThisMinute) <= n * Pace
        /\ Cardinality(SentToday) <= Ceiling + (n - 1) * Pace

Missing(c) == {a \in Addresses : row[<<c, a>>] = "missing"}

\* A relay that refuses everything does not go through the list: with one run at
\* a time the campaign is paused before twice the streak is refused.  A relay that
\* fails, a run cut short and a recipient with a value missing each let it begin
\* once more: rows that were interrupted or miss a value end a streak.
StopsItself ==
    \A c \in Campaigns :
        refusals[c] <= (2 * Streak - 1) * (1 + faults + Cardinality(Missing(c)))

\* What makes MailedOnce inductive: the row of a run's claim is still its own,
\* and cannot be stale while the run lives.
ClaimsOK ==
    \A p \in Runners : Holds(p) =>
        /\ job[p].cur \in Rows
        /\ row[job[p].cur] = "sending" /\ token[job[p].cur] = p
        /\ fresh[job[p].cur] + job[p].age >= StaleTicks

\* The emails a row stands for.
Accounted ==
    /\ \A r \in Rows : row[r] \in {"none", "pending", "refused", "missing", "skipped"}
                       => mails[r] = lost[r]
    /\ \A r \in Rows : row[r] = "sent" => mails[r] = lost[r] + 1
    /\ \A r \in Rows : mails[r] \in {lost[r], lost[r] + 1}
    /\ \A p \in Runners : Holds(p) =>
           mails[job[p].cur] = lost[job[p].cur] + (IF job[p].result = "accepted" THEN 1 ELSE 0)

\* A campaign that does not exist has no rows.
NoRows == \A r \in Rows : camp[r[1]] = "none" => row[r] = "none"

IInv == TypeOK /\ ClaimsOK /\ Accounted /\ NoRows /\ CompletedIsDone

\* The beat starts a run every minute, a run goes on, and time passes.
Fairness ==
    /\ \A p \in Runners : WF_vars(Plan(p) \/ Sending(p) \/ End(p))
    /\ SF_vars(\E p \in Runners : Begin(p))
    /\ SF_vars(Tick)
    /\ WF_vars(NewMinute) /\ WF_vars(NewDay)

FairSpec == Spec /\ Fairness

\* A campaign that is sending ends: completed, paused or cancelled.
Ends == \A c \in Campaigns : camp[c] = "sending" ~> camp[c] # "sending"
=============================================================================
