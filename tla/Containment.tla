----------------------------- MODULE Containment -----------------------------
(***************************************************************************)
(* Containment of a mailbox that sends too much                            *)
(* (backend/apps/mail/services/containment.py): counters in Redis that     *)
(* expire by themselves, an evaluation every minute that pauses a sender   *)
(* or alerts, an administrator who resumes, and the list of paused senders *)
(* that publish_all() writes for Postfix.                                  *)
(*                                                                         *)
(* A counter counts up to one past the limit: more makes no difference.    *)
(***************************************************************************)
EXTENDS Naturals, FiniteSets

CONSTANTS
    Logins,
    Modes,       \* what the plugin may be set to: "notify", "pause"
    Limit,       \* the threshold
    Evaluators,  \* runs of mail.check_outbound_containment
    Admins,      \* requests that resume a sender
    MaxPaused,   \* MAX_PAUSED
    MaxOutages   \* bound of the model: Redis, disk and process failures

Procs == Evaluators \cup Admins \cup {"reconcile"}

VARIABLES
    counter,   \* l -> messages Redis counts
    paused,    \* SENDING_PAUSED
    alerted,   \* SENDING_ALERTED: logins alerted about in the last hour
    list,      \* the published list that Postfix reads
    doing,     \* p -> what a process is doing
    since,     \* history: l -> messages counted since it was last resumed
    uncleared, \* history: logins whose counters still hold what was forgiven
    outages

cvars == <<counter, paused, alerted, list, doing, since, uncleared, outages>>

Resting == [pc |-> "idle", mode |-> "none", over |-> {}, guilty |-> {}, tainted |-> {},
            known |-> {}, login |-> {}, view |-> {}]

ContainmentInit ==
    /\ counter = [l \in Logins |-> 0]
    /\ paused = {} /\ alerted = {} /\ list = {}
    /\ doing = [p \in Procs |-> Resting]
    /\ since = [l \in Logins |-> 0]
    /\ uncleared = {}
    /\ outages = 0

Up(n) == IF n <= Limit THEN n + 1 ELSE n

-----------------------------------------------------------------------------
(* Senders and time.                                                       *)

\* Postfix refuses who is on its list, and the API who is paused.
Send(l) ==
    /\ l \notin list \/ l \notin paused
    /\ counter' = [counter EXCEPT ![l] = Up(@)]
    /\ since' = [since EXCEPT ![l] = Up(@)]
    /\ UNCHANGED <<paused, alerted, list, doing, uncleared, outages>>

\* The hour of a counter is over.
Expire(l) ==
    /\ counter[l] > 0
    /\ counter' = [counter EXCEPT ![l] = 0]
    /\ since' = [since EXCEPT ![l] = 0]
    /\ uncleared' = uncleared \ {l}
    /\ UNCHANGED <<paused, alerted, list, doing, outages>>

\* The hour of an alert is over.
Forget(l) ==
    /\ l \in alerted
    /\ alerted' = alerted \ {l}
    /\ UNCHANGED <<counter, paused, list, doing, since, uncleared, outages>>

-----------------------------------------------------------------------------
(* evaluate().                                                             *)

\* thresholds(), what the plugin is set to, and read_usage(), who is over the limit.
ReadUsage(e, mode) ==
    /\ doing[e].pc = "idle"
    /\ doing' = [doing EXCEPT ![e] = [Resting EXCEPT
           !.pc = "usage", !.mode = mode,
           !.over = {l \in Logins : counter[l] > Limit},
           !.guilty = {l \in Logins : since[l] > Limit},
           !.tainted = uncleared]]
    /\ UNCHANGED <<counter, paused, alerted, list, since, uncleared, outages>>

\* Mutant of Left: everybody over the limit, the paused ones too.
LeftMutant(e) == doing[e].over

\* Who is over the limit and not paused already.
Left(e) == doing[e].over \ paused

ReadPaused(e) ==
    /\ doing[e].pc = "usage"
    /\ doing' = [doing EXCEPT ![e].over = Left(e),
                              ![e].pc = IF Left(e) = {} THEN "idle" ELSE doing[e].mode]
    /\ UNCHANGED <<counter, paused, alerted, list, since, uncleared, outages>>

\* pause(): add the login if nobody has meanwhile, and publish if it was added.
Pause(e, l) ==
    /\ doing[e].pc = "pause"
    /\ l \in doing[e].over
    /\ paused' = paused \cup {l}
    /\ doing' = [doing EXCEPT ![e].over = @ \ {l},
                              ![e].pc = IF l \notin paused THEN "render"
                                        ELSE IF doing[e].over = {l} THEN "idle" ELSE "pause"]
    /\ UNCHANGED <<counter, alerted, list, since, uncleared, outages>>

\* _alert_due() reads the alerts of the last hour, ...
ReadAlerted(e) ==
    /\ doing[e].pc = "notify"
    /\ doing' = [doing EXCEPT ![e].pc = "mark", ![e].known = alerted]
    /\ UNCHANGED <<counter, paused, alerted, list, since, uncleared, outages>>

\* ... and records this one unless it is there.  The alert itself leaves no trace.
Mark(e, l) ==
    /\ doing[e].pc = "mark"
    /\ l \in doing[e].over
    /\ alerted' = IF l \in doing[e].known THEN alerted ELSE alerted \cup {l}
    /\ doing' = [doing EXCEPT ![e].over = @ \ {l},
                              ![e].pc = IF doing[e].over = {l} THEN "idle" ELSE "notify"]
    /\ UNCHANGED <<counter, paused, list, since, uncleared, outages>>

-----------------------------------------------------------------------------
(* resume().                                                               *)

Drop(a, l) ==
    /\ doing[a].pc = "idle"
    /\ l \in paused
    /\ paused' = paused \ {l}
    /\ since' = [since EXCEPT ![l] = 0]
    /\ uncleared' = IF counter[l] > 0 THEN uncleared \cup {l} ELSE uncleared
    /\ doing' = [p \in Procs |-> IF p = a THEN [Resting EXCEPT !.pc = "clear", !.login = {l}]
                                 ELSE IF doing[p].pc = "idle" THEN doing[p]
                                 ELSE [doing[p] EXCEPT !.tainted = @ \cup {l}]]
    /\ UNCHANGED <<counter, alerted, list, outages>>

\* Mutant of Cleared: the counters are left to expire.
ClearedMutant(l) == counter

Cleared(l) == [counter EXCEPT ![l] = 0]

Clear(a) ==
    /\ doing[a].pc = "clear"
    /\ \E l \in doing[a].login :
          /\ counter' = Cleared(l)
          /\ since' = [since EXCEPT ![l] = 0]
          /\ uncleared' = uncleared \ {l}
    /\ doing' = [doing EXCEPT ![a].pc = "render"]
    /\ UNCHANGED <<paused, alerted, list, outages>>

\* Redis does not answer: the counters are left to expire.
ClearFails(a) ==
    /\ doing[a].pc = "clear"
    /\ outages < MaxOutages
    /\ outages' = outages + 1
    /\ doing' = [doing EXCEPT ![a].pc = "render"]
    /\ UNCHANGED <<counter, paused, alerted, list, since, uncleared>>

-----------------------------------------------------------------------------
(* Publishing.                                                             *)

\* Mutant of Listed: a list at its limit is one too long.
ListedMutant == IF Cardinality(paused) < MaxPaused THEN paused ELSE {}

\* A list that is too long is not a valid value, and is left out of the file.
Listed == IF Cardinality(paused) <= MaxPaused THEN paused ELSE {}

Render(p) ==
    /\ doing[p].pc = "render"
    /\ doing' = [doing EXCEPT ![p].pc = "write", ![p].view = Listed]
    /\ UNCHANGED <<counter, paused, alerted, list, since, uncleared, outages>>

Rest(p) == [doing EXCEPT ![p].view = {}, ![p].login = {},
                         ![p].pc = IF doing[p].over = {} THEN "idle" ELSE "pause"]

\* After its write an evaluation goes on with the next login.
Write(p) ==
    /\ doing[p].pc = "write"
    /\ list' = doing[p].view
    /\ doing' = Rest(p)
    /\ UNCHANGED <<counter, paused, alerted, since, uncleared, outages>>

\* publish_all() raises: logged.
WriteFails(p) ==
    /\ doing[p].pc \in {"render", "write"}
    /\ outages < MaxOutages
    /\ outages' = outages + 1
    /\ doing' = Rest(p)
    /\ UNCHANGED <<counter, paused, alerted, list, since, uncleared>>

\* The plugins' reconcile publishes when a file is not what it should be.
Reconcile ==
    /\ doing["reconcile"].pc = "idle"
    /\ list # Listed
    /\ doing' = [doing EXCEPT !["reconcile"].pc = "render"]
    /\ UNCHANGED <<counter, paused, alerted, list, since, uncleared, outages>>

\* A process dies, or the database refuses it.
Die(p) ==
    /\ doing[p].pc # "idle"
    /\ outages < MaxOutages
    /\ outages' = outages + 1
    /\ doing' = [doing EXCEPT ![p] = Resting]
    /\ UNCHANGED <<counter, paused, alerted, list, since, uncleared>>

-----------------------------------------------------------------------------
Evaluating(e) ==
    ReadPaused(e) \/ ReadAlerted(e) \/ \E l \in Logins : Pause(e, l) \/ Mark(e, l)

ContainmentNext ==
    \/ \E l \in Logins : Send(l) \/ Expire(l) \/ Forget(l)
    \/ \E e \in Evaluators : (\E mode \in Modes : ReadUsage(e, mode)) \/ Evaluating(e)
    \/ \E a \in Admins : (\E l \in Logins : Drop(a, l)) \/ Clear(a) \/ ClearFails(a)
    \/ \E p \in Procs : Render(p) \/ Write(p) \/ WriteFails(p) \/ Die(p)
    \/ Reconcile

ContainmentSpec == ContainmentInit /\ [][ContainmentNext]_cvars

-----------------------------------------------------------------------------
(* What must hold.                                                         *)

\* A sender is paused only for what it sent since it was last resumed, unless the
\* resume came between an evaluation's reading of the counters and its pause, or
\* its counters could not be cleared.
Forgiven ==
    \A e \in Evaluators : doing[e].over \subseteq doing[e].guilty \cup doing[e].tainted

\* An evaluation goes on and comes again; reconcile() comes again.
Working(p) == Render(p) \/ Write(p) \/ (p \in Evaluators /\ Evaluating(p)) \/ (p \in Admins /\ Clear(p))

\* The list of Postfix comes to agree with who is paused again and again, whichever
\* of the publishers wrote last and whatever it had read.
Followed == \A l \in Logins : []<>(l \in list <=> l \in paused)

\* Who keeps sending too much while the plugin pauses is refused by Postfix.
Contained == \A l \in Logins : counter[l] > Limit ~> l \in list \/ counter[l] <= Limit

ContainmentFairness ==
    /\ \A p \in Procs : WF_cvars(Working(p))
    /\ \A e \in Evaluators : SF_cvars(ReadUsage(e, "pause"))
    /\ SF_cvars(Reconcile)

FairSpec == ContainmentSpec /\ ContainmentFairness
=============================================================================
