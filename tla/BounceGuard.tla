----------------------------- MODULE BounceGuard -----------------------------
(***************************************************************************)
(* The bounce guard of an API key                                          *)
(* (backend/apps/mail/services/compliance.py): scans of the delivery log   *)
(* add to two counters in the cache and then compare the rate of bounces   *)
(* with the limit; a key over it is paused until an administrator resumes  *)
(* it.  Each counter expires a day after its own first message.            *)
(***************************************************************************)
EXTENDS Naturals, FiniteSets

CONSTANTS
    Counters,     \* scans that count
    Batches,      \* what a scan may count: <<delivered, bounced>>
    MinMessages,  \* _GUARD_MIN_MESSAGES
    BounceLimit,  \* bounce_limit, in percent
    Day,          \* 24 hours, in ticks
    MaxTicks,     \* bound of the model
    MaxBatches,   \* bound of the model: counts that begin
    MaxMissed     \* bound of the model: times the cache does not answer

\* Nobody counts nothing, and without a limit there is no guard.
ASSUME GuardAssumption ==
    /\ Batches \subseteq (Nat \X Nat) \ {<<0, 0>>}
    /\ MinMessages \in Nat \ {0} /\ BounceLimit \in Nat \ {0}
    /\ Day \in Nat \ {0} /\ MaxTicks \in Nat

VARIABLES
    clock,
    ok, bounced, \* the counters in the cache: their count, and when they were created
    held,     \* compliance:paused
    counting, \* s -> what a scan is doing
    resuming, \* the keys resume() has to delete still
    results,  \* history: tick -> <<delivered, bounced>> counted then, since the key was
              \* last resumed, or both counters were last empty
    doubt,    \* history: a counter is not what results says: it was lost, expired before
              \* the other, outlived a resume, or was counted while one went on
    missedOne, \* history: a counter was lost, or a resume began or left the bounces,
               \* since the last count
    verdict,  \* history: what the day's results said when the key was paused
    begun, missed \* history

history == <<results, doubt, missedOne, verdict, begun, missed>>
gvars == <<clock, ok, bounced, held, counting, resuming, history>>

Empty == [count |-> 0, since |-> 0]
Waiting == [pc |-> "idle", batch |-> <<0, 0>>, ok |-> 0, bounced |-> 0]

GuardInit ==
    /\ clock = 0
    /\ ok = Empty /\ bounced = Empty
    /\ held = FALSE
    /\ counting = [s \in Counters |-> Waiting]
    /\ resuming = {}
    /\ results = [t \in 0 .. MaxTicks |-> <<0, 0>>]
    /\ doubt = FALSE /\ missedOne = FALSE /\ verdict = "none"
    /\ begun = 0 /\ missed = 0

-----------------------------------------------------------------------------
\* bounce_rate(): percent, rounded to one decimal; here in tenths.
Rate(good, bad) == (2000 * bad + good + bad) \div (2 * (good + bad))

\* The comparison of _check_guard().
Over(good, bad) == good + bad >= MinMessages /\ Rate(good, bad) > 10 * BounceLimit

\* The results of the day, each one.
Today == {t \in 0 .. clock : clock < t + Day}
CountedToday(kind) == Cardinality(UNION {{t} \X (1 .. results[t][kind]) : t \in Today})
OverToday == Over(CountedToday(1), CountedToday(2))

Noted(kind, amount) ==
    /\ results' = [results EXCEPT ![clock][kind] = @ + amount]
    /\ doubt' = (doubt \/ resuming # {})
    /\ missedOne' = FALSE
    /\ UNCHANGED <<verdict, begun, missed>>

-----------------------------------------------------------------------------
(* count().                                                                *)

BeginCount(s, batch) ==
    /\ counting[s].pc = "idle"
    /\ begun < MaxBatches
    /\ begun' = begun + 1
    /\ counting' = [counting EXCEPT ![s] = [Waiting EXCEPT !.pc = "ok", !.batch = batch]]
    /\ UNCHANGED <<clock, ok, bounced, held, resuming, results, doubt, missedOne, verdict, missed>>

\* cache.add() and cache.incr(): a counter that is not there begins now.
Plus(counter, amount) ==
    IF counter.count = 0 THEN [count |-> amount, since |-> clock]
    ELSE [counter EXCEPT !.count = @ + amount]

AddOk(s) ==
    /\ counting[s].pc = "ok"
    /\ counting' = [counting EXCEPT ![s].pc = "bounced"]
    /\ IF counting[s].batch[1] = 0 THEN UNCHANGED <<ok, history>>
       ELSE /\ ok' = Plus(ok, counting[s].batch[1])
            /\ Noted(1, counting[s].batch[1])
    /\ UNCHANGED <<clock, bounced, held, resuming>>

\* Mutant of After: a count without deliveries is not followed by a look at the rate.
AfterMutant(s) == IF counting[s].batch[1] = 0 THEN "idle" ELSE "check"

\* _check_guard() follows every count.
After(s) == "check"

AddBounced(s) ==
    /\ counting[s].pc = "bounced"
    /\ counting' = [counting EXCEPT ![s].pc = After(s)]
    /\ IF counting[s].batch[2] = 0 THEN UNCHANGED <<bounced, history>>
       ELSE /\ bounced' = Plus(bounced, counting[s].batch[2])
            /\ Noted(2, counting[s].batch[2])
    /\ UNCHANGED <<clock, ok, held, resuming>>

ReadOk(s) ==
    /\ counting[s].pc = "check"
    /\ counting' = [counting EXCEPT ![s].pc = "rate", ![s].ok = ok.count]
    /\ UNCHANGED <<clock, ok, bounced, held, resuming, history>>

ReadBounced(s) ==
    /\ counting[s].pc = "rate"
    /\ counting' = [counting EXCEPT ![s].pc = "hold", ![s].bounced = bounced.count]
    /\ UNCHANGED <<clock, ok, bounced, held, resuming, history>>

\* Another scan has counted, or a counter expired, since this one read them.
Outdated(s) == counting[s].ok # ok.count \/ counting[s].bounced # bounced.count

\* A key is paused once.
Hold(s) ==
    /\ counting[s].pc = "hold"
    /\ held' = (held \/ Over(counting[s].ok, counting[s].bounced))
    /\ counting' = [counting EXCEPT ![s] = Waiting]
    /\ verdict' = IF held' = held THEN verdict
                  ELSE IF OverToday THEN "fair" ELSE IF doubt \/ Outdated(s) THEN "doubtful" ELSE "unfair"
    /\ UNCHANGED <<clock, ok, bounced, resuming, results, doubt, missedOne, begun, missed>>

NoAnswer == missed < MaxMissed /\ missed' = missed + 1

\* The cache does not answer: the result is not counted, or the rate not looked at.
Unanswered(s) ==
    /\ counting[s].pc # "idle"
    /\ counting[s].pc = "ok" => counting[s].batch[1] # 0
    /\ counting[s].pc = "bounced" => counting[s].batch[2] # 0
    /\ NoAnswer
    /\ doubt' = (doubt \/ counting[s].pc \in {"ok", "bounced"})
    /\ missedOne' = TRUE
    /\ counting' = [counting EXCEPT ![s].pc =
           CASE @ = "ok" -> "bounced" [] @ = "bounced" -> "check" [] OTHER -> "idle"]
    /\ UNCHANGED <<clock, ok, bounced, held, resuming, results, verdict, begun>>

-----------------------------------------------------------------------------
(* resume(), and time.                                                     *)

Nothing == [t \in DOMAIN results |-> <<0, 0>>]

\* The pause is deleted first.  A delete the cache does not answer is passed over,
\* here and below: what it should have deleted stays.
Resume ==
    /\ resuming = {}
    /\ \/ held' = FALSE /\ verdict' = "none" /\ UNCHANGED missed
       \/ NoAnswer /\ UNCHANGED <<held, verdict>>
    /\ resuming' = {"ok", "bounced"}
    /\ doubt' = \E s \in Counters : counting[s].pc \notin {"idle", "ok"}
    /\ missedOne' = TRUE
    /\ results' = Nothing
    /\ UNCHANGED <<clock, ok, bounced, counting, begun>>

\* Mutant of Forgotten: the bounces stay.
ForgottenMutant == {"ok"}

\* What resume() deletes besides the pause.
Forgotten == {"ok", "bounced"}

\* First the one, then the other.
DeleteOk ==
    /\ "ok" \in resuming
    /\ resuming' = {"bounced"}
    /\ \/ ok' = (IF "ok" \in Forgotten THEN Empty ELSE ok) /\ UNCHANGED <<doubt, missed>>
       \/ NoAnswer /\ doubt' = (doubt \/ ok.count > 0) /\ UNCHANGED ok
    /\ UNCHANGED <<clock, bounced, held, counting, results, missedOne, verdict, begun>>

DeleteBounced ==
    /\ resuming = {"bounced"}
    /\ resuming' = {}
    /\ \/ /\ bounced' = IF "bounced" \in Forgotten THEN Empty ELSE bounced
          /\ UNCHANGED <<doubt, missedOne, missed>>
       \/ /\ NoAnswer
          /\ doubt' = (doubt \/ bounced.count > 0) /\ missedOne' = TRUE
          /\ UNCHANGED bounced
    /\ UNCHANGED <<clock, ok, held, counting, results, verdict, begun>>

\* A counter expires a day after it began.
Due(counter) == counter.count > 0 /\ clock + 1 >= counter.since + Day
Later(counter) == IF Due(counter) THEN Empty ELSE counter

\* With both counters gone and nobody at work, the count begins anew.
Afresh == /\ Later(ok).count = 0 /\ Later(bounced).count = 0
          /\ resuming = {} /\ \A s \in Counters : counting[s].pc = "idle"

Tick ==
    /\ clock < MaxTicks
    /\ clock' = clock + 1
    /\ ok' = Later(ok)
    /\ bounced' = Later(bounced)
    /\ results' = IF Afresh THEN Nothing ELSE results
    /\ doubt' = (~Afresh /\ (doubt \/ Due(ok) \/ Due(bounced)))
    /\ missedOne' = (missedOne \/ Due(ok) \/ Due(bounced))
    /\ UNCHANGED <<held, counting, resuming, verdict, begun, missed>>

-----------------------------------------------------------------------------
GuardNext ==
    \/ \E s \in Counters :
          \/ \E batch \in Batches : BeginCount(s, batch)
          \/ AddOk(s) \/ AddBounced(s) \/ ReadOk(s) \/ ReadBounced(s) \/ Hold(s) \/ Unanswered(s)
    \/ Resume \/ DeleteOk \/ DeleteBounced \/ Tick

GuardSpec == GuardInit /\ [][GuardNext]_gvars

-----------------------------------------------------------------------------
(* What must hold.                                                         *)

\* A key is paused only for the results counted since it was last resumed and since its
\* counters were last empty, however the counts of several scans interleave, but in four
\* windows: a counter was lost; one of the two has expired and the other not; a counter
\* outlived the resume that should have deleted it, or was added to while one went on;
\* another scan counted between the look at the counters and the pause.
PausedForItsResults == verdict # "unfair"

\* When nobody counts or resumes, a key whose counters are over the limit is paused,
\* however the counts of several scans interleaved, unless a counter was lost or the
\* key resumed since the last of them (also when the resume has failed half-way).
NoneEscapes ==
    resuming = {} /\ (\A s \in Counters : counting[s].pc = "idle")
    => held \/ missedOne \/ ~Over(ok.count, bounced.count)
=============================================================================
