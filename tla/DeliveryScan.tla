----------------------------- MODULE DeliveryScan -----------------------------
(***************************************************************************)
(* mail.scan_delivery_events: the Postfix log becomes delivery events      *)
(* (backend/apps/mail/services/delivery_events.py).                        *)
(*                                                                         *)
(* The log is the lines 1 .. LogLength, written in order and now and then  *)
(* rotated.  A cleanup line ties a queue id to a message; a status line of *)
(* that queue id becomes one event and one count, if the message was       *)
(* remembered when the scan looked.  A position counts lines, where the    *)
(* code counts their bytes.  A scan saves the position when it reads, and  *)
(* puts it back when its soft limit strikes.                               *)
(***************************************************************************)
EXTENDS Integers, FiniteSets, FiniteSetsExt

CONSTANTS
    LogLength,   \* bound of the model: lines written
    Cleanup,     \* l -> the cleanup line of the queue id of line l
    MaxRead,     \* MAX_READ, in lines
    FlushEvery,  \* FLUSH_EVERY
    Scanners,    \* Celery worker processes
    MaxStops,    \* bound of the model: soft limits that strike
    MaxFaults,   \* bound of the model: kills, cache and database errors
    MaxRotations,\* bound of the model
    None

Lines == 1 .. LogLength
CleanupLines == {l \in Lines : Cleanup[l] = l}
StatusLines == Lines \ CleanupLines

ASSUME LogAssumption ==
    /\ LogLength \in Nat
    /\ Cleanup \in [Lines -> Lines]
    /\ \A l \in Lines : Cleanup[l] <= l /\ Cleanup[Cleanup[l]] = Cleanup[l]
    /\ MaxRead \in Nat \ {0} /\ FlushEvery \in Nat \ {0}
    /\ MaxStops \in Nat /\ MaxFaults \in Nat /\ MaxRotations \in Nat
    /\ None \notin [file : Nat, offset : Nat]

VARIABLES
    length,      \* lines in the log
    start,       \* lines in rotated files: the current file begins after them
    position,    \* deliveryevents:position in the cache, None at first
    remembered,  \* messages remember() knows, by their cleanup line
    linked,      \* apiqid: keys in the cache, by their cleanup line
    counted,     \* l -> times the counters saw line l
    written,     \* lines whose event is queued for the webhooks
    job,         \* s -> what a scan holds
    first,       \* history: where the first run began, LogLength before it
    dropped,     \* history: lines given up by a kill, an error, a rotation, a scan
                 \* that overlaps, or because their message was not remembered yet
    again,       \* history: lines read again because two scans overlap
    stopped,     \* history: lines given up by a soft limit
    stops, faults, rotations \* history

log == <<length, start, remembered, rotations>>
effects == <<linked, counted, written>>
vars == <<log, position, effects, job, first, dropped, again, stopped, stops, faults>>

IdleJob == [pc |-> "idle", file |-> 0, from |-> 0, at |-> 0, to |-> 0, known |-> {}, queues |-> {},
            links |-> {}, unwritten |-> {}, counts |-> {}, events |-> {},
            seen |-> 0, limited |-> FALSE, stopping |-> FALSE]

Init ==
    /\ length = 0 /\ start = 0
    /\ position = None
    /\ remembered = {} /\ linked = {} /\ written = {}
    /\ counted = [l \in Lines |-> 0]
    /\ job = [s \in Scanners |-> IdleJob]
    /\ first = LogLength
    /\ dropped = {} /\ again = {} /\ stopped = {}
    /\ stops = 0 /\ faults = 0 /\ rotations = 0

-----------------------------------------------------------------------------
(* The mail server and the senders.                                         *)

Append ==
    /\ length < LogLength
    /\ length' = length + 1
    /\ UNCHANGED <<start, remembered, rotations, position, effects, job, first,
                   dropped, again, stopped, stops, faults>>

\* remember() runs after the relay took the message, and a campaign's at the end
\* of its batch: before or after the log has its lines, and their scan.
Remember(m) ==
    /\ m \in CleanupLines \ remembered
    /\ remembered' = remembered \cup {m}
    /\ UNCHANGED <<length, start, rotations, position, effects, job, first,
                   dropped, again, stopped, stops, faults>>

\* Where a read begins with a saved position: a new file has a new inode and is read
\* from 0.
NextRead(file, offset) == IF file = start THEN offset ELSE start
Offset == IF position = None THEN start ELSE NextRead(position.file, position.offset)

\* The lines still to be read, and those a scan has read and is not through with.
Ahead == (Offset + 1) .. length
Hands(s) == IF job[s].pc = "idle" THEN {} ELSE (job[s].from + 1) .. job[s].to

OtherHands(s) == UNION {Hands(o) : o \in Scanners \ {s}}

\* log-rotate.sh moves the log away; nobody reads the rest of the old file.
Rotate ==
    /\ rotations < MaxRotations /\ start < length
    /\ start' = length
    /\ rotations' = rotations + 1
    /\ dropped' = dropped \cup (Ahead \ UNION {Hands(s) : s \in Scanners})
    /\ UNCHANGED <<length, remembered, position, effects, job, first, again, stopped, stops, faults>>

-----------------------------------------------------------------------------
(* scan(): _follow and the bulk lookups.                                    *)

\* Mutant of FirstRun: the end of the log is not saved.
FirstRunMutant(s) ==
    /\ job[s].pc = "idle" /\ position = None
    /\ first' = length
    /\ UNCHANGED <<log, position, effects, job, dropped, again, stopped, stops, faults>>

\* The first run begins at the end of the log.
FirstRun(s) ==
    /\ job[s].pc = "idle"
    /\ position = None
    /\ position' = [file |-> start, offset |-> length]
    /\ first' = length
    /\ UNCHANGED <<log, effects, job, dropped, again, stopped, stops, faults>>

Read(s) ==
    /\ job[s].pc = "idle"
    /\ position # None
    /\ Offset < length
    /\ job' = [job EXCEPT ![s] =
          [IdleJob EXCEPT !.pc = "save", !.file = start, !.from = Offset, !.at = Offset,
                          !.to = Min({length, Offset + MaxRead})]]
    /\ again' = again \cup (Hands(s)' \cap OtherHands(s))
    /\ UNCHANGED <<log, position, effects, first, dropped, stopped, stops, faults>>

\* Another scan may have moved the position since it was read: what it put back is
\* not read again then, and what it went past is.
SavePosition(s) ==
    LET next == NextRead(job[s].file, job[s].to)
    IN  /\ job[s].pc = "save"
        /\ position' = [file |-> job[s].file, offset |-> job[s].to]
        /\ job' = [job EXCEPT ![s].pc = "lookup"]
        /\ dropped' = dropped \cup ((Offset + 1) .. job[s].from \ OtherHands(s))
        /\ again' = again \cup (next + 1) .. Offset
        /\ UNCHANGED <<log, effects, first, stopped, stops, faults>>

\* Lines whose queue id another scan has read, or put back, and nobody written yet.
Unlinked(s) ==
    {l \in Hands(s) : Cleanup[l] \in (OtherHands(s) \cup Ahead) \ (linked \cup Hands(s))}

\* _Batch: what the cache knows of the lines read, once for all of them.
Lookup(s) ==
    /\ job[s].pc = "lookup"
    /\ job' = [job EXCEPT ![s].pc = "lines", ![s].known = remembered, ![s].queues = linked]
    /\ dropped' = dropped \cup Unlinked(s)
    /\ UNCHANGED <<log, position, effects, first, again, stopped, stops, faults>>

\* The cache is down: the same lines again next time.
LookupFails(s) ==
    /\ job[s].pc = "lookup"
    /\ faults < MaxFaults
    /\ faults' = faults + 1
    /\ job' = [job EXCEPT ![s].pc = "rewind"]
    /\ UNCHANGED <<log, position, effects, first, dropped, again, stopped, stops>>

-----------------------------------------------------------------------------
(* handle_line and flush.                                                   *)

\* Whether line l, a status line, is of a message the batch knows.
Finds(s, l) == l \in StatusLines /\ Cleanup[l] \in job[s].links \cup job[s].queues

Handle(s) ==
    LET l == job[s].at + 1
        link == {l} \cap CleanupLines \cap job[s].known
        event == IF Finds(s, l) THEN {l} ELSE {}
        full == (l - job[s].from) % FlushEvery = 0 \/ l = job[s].to
    IN  /\ job[s].pc = "lines"
        /\ job' = [job EXCEPT ![s].at = l,
                              ![s].links = @ \cup link, ![s].unwritten = @ \cup link,
                              ![s].counts = @ \cup event, ![s].events = @ \cup event,
                              ![s].pc = IF full THEN "links" ELSE "lines"]
        /\ dropped' = dropped \cup (({l} \cap CleanupLines) \ job[s].known)
        /\ UNCHANGED <<log, position, effects, first, again, stopped, stops, faults>>

\* The queue ids are written, or the cache refuses them: a warning, and on.
FlushLinks(s) ==
    /\ job[s].pc = "links"
    /\ \/ /\ linked' = linked \cup job[s].unwritten
          /\ UNCHANGED <<dropped, faults>>
       \/ /\ faults < MaxFaults /\ job[s].unwritten # {}
          /\ faults' = faults + 1
          /\ dropped' = dropped \cup job[s].unwritten
          /\ UNCHANGED linked
    /\ job' = [job EXCEPT ![s].pc = "counts", ![s].unwritten = {}]
    /\ UNCHANGED <<log, position, counted, written, first, again, stopped, stops>>

Count(ls) == counted' = [l \in Lines |-> counted[l] + (IF l \in ls THEN 1 ELSE 0)]

\* The counters and the bounces: an error loses what is left of them.
FlushCounts(s) ==
    /\ job[s].pc = "counts"
    /\ \/ Count(job[s].counts) /\ UNCHANGED faults
       \/ /\ faults < MaxFaults /\ faults' = faults + 1
          /\ \E done \in SUBSET job[s].counts : done # job[s].counts /\ Count(done)
    /\ job' = [job EXCEPT ![s].pc = "events", ![s].counts = {}]
    /\ UNCHANGED <<log, position, linked, written, first, dropped, again, stopped, stops>>

\* emit_many, and one at a time if that fails: an error loses some events.
FlushEvents(s) ==
    /\ job[s].pc = "events"
    /\ \E lost \in SUBSET job[s].events :
          /\ lost # {} => faults < MaxFaults
          /\ faults' = faults + (IF lost = {} THEN 0 ELSE 1)
          /\ written' = written \cup (job[s].events \ lost)
          /\ dropped' = dropped \cup lost
    /\ job' = [job EXCEPT ![s] = IF @.stopping THEN [@ EXCEPT !.pc = "rewind", !.events = {}]
                                 ELSE IF @.at < @.to THEN [@ EXCEPT !.pc = "lines", !.events = {}]
                                 ELSE IdleJob]
    /\ UNCHANGED <<log, position, linked, counted, first, again, stopped, stops>>

-----------------------------------------------------------------------------
(* The soft limit, wherever it strikes.                                     *)

Limited(s, j) ==
    /\ ~job[s].limited
    /\ stops < MaxStops
    /\ stops' = stops + 1
    /\ job' = [job EXCEPT ![s] = j]
    /\ UNCHANGED <<log, position, first, again, faults>>

\* The lines of a scan that nobody comes to when it lets go of them.
Orphans(s) == Hands(s) \ (Ahead \cup OtherHands(s) \cup linked \cup written)

\* Before the position is saved nothing has happened yet: the next run reads the
\* same lines, unless the log was rotated or another scan has moved the position.
LimitBefore(s) ==
    /\ job[s].pc = "save"
    /\ Limited(s, IdleJob)
    /\ dropped' = dropped \cup (IF Offset = job[s].from THEN {} ELSE Orphans(s))
    /\ UNCHANGED <<effects, stopped>>

\* Behind the save and before a try (reading the lines out of the chunk, making the
\* counters of the loop), or in the _rewind of a lookup that failed: nothing puts the
\* position back.
LimitUnguarded(s) ==
    /\ \/ job[s].pc \in {"lookup", "rewind", "reset"}
       \/ job[s].pc = "lines" /\ job[s].at = job[s].from
    /\ Limited(s, IdleJob)
    /\ stopped' = stopped \cup Orphans(s)
    /\ UNCHANGED <<effects, dropped>>

\* In the lookups of _Batch.
LimitInLookup(s) ==
    /\ job[s].pc = "lookup"
    /\ Limited(s, [job[s] EXCEPT !.limited = TRUE, !.pc = "rewind"])
    /\ UNCHANGED <<effects, dropped, stopped>>

\* In handle_line: the line in flight is not handled, but may have been counted.
\* The scan flushes and rewinds.
LimitInLine(s) ==
    LET l == job[s].at + 1
    IN  /\ job[s].pc = "lines"
        /\ \E counts \in {{}, IF Finds(s, l) THEN {l} ELSE {}} :
              Limited(s, [job[s] EXCEPT !.limited = TRUE, !.pc = "links", !.stopping = TRUE,
                                        !.counts = @ \cup counts])
        /\ UNCHANGED <<effects, dropped, stopped>>

\* In the first part of flush: "except Exception" takes the limit for an error of
\* the cache, and the run goes on.
LimitInLinks(s) ==
    /\ job[s].pc = "links"
    /\ Limited(s, [job[s] EXCEPT !.limited = TRUE, !.pc = "counts", !.unwritten = {}])
    /\ \/ linked' = linked \cup job[s].unwritten /\ UNCHANGED stopped
       \/ stopped' = stopped \cup job[s].unwritten /\ UNCHANGED linked
    /\ UNCHANGED <<counted, written, dropped>>

LimitInCounts(s) ==
    /\ job[s].pc = "counts"
    /\ Limited(s, [job[s] EXCEPT !.limited = TRUE, !.pc = "events", !.counts = {}])
    /\ \E done \in SUBSET job[s].counts : Count(done)
    /\ UNCHANGED <<linked, written, dropped, stopped>>

\* In emit_many: the list was emptied before, so the flush that follows has
\* nothing left to write.
LimitInEvents(s) ==
    /\ job[s].pc = "events"
    /\ Limited(s, [job[s] EXCEPT !.limited = TRUE, !.pc = "links", !.stopping = TRUE, !.events = {}])
    /\ \/ written' = written \cup job[s].events /\ UNCHANGED stopped
       \/ stopped' = stopped \cup job[s].events /\ UNCHANGED written
    /\ UNCHANGED <<linked, counted, dropped>>

\* Mutants of Unhandled: the line in flight counts as handled; the position goes
\* back over the whole read.
InFlightMutant(s) == IF job[s].at < job[s].to THEN job[s].to - job[s].at - 1 ELSE 0
WholeReadMutant(s) == job[s].to - job[s].from

\* How far the position goes back.
Unhandled(s) == job[s].to - job[s].at

\* _rewind reads the position, wherever it is by now and in whichever file, if there
\* is something to put back;
Rewind(s) ==
    /\ job[s].pc = "rewind"
    /\ job' = [job EXCEPT ![s] =
          IF Unhandled(s) = 0 THEN IdleJob
          ELSE [@ EXCEPT !.pc = "reset", !.file = position.file, !.seen = position.offset]]
    /\ UNCHANGED <<log, position, effects, first, dropped, again, stopped, stops, faults>>

\* The position is where this scan has left it, in the current file.
Undisturbed(s) ==
    /\ job[s].seen = job[s].to /\ start <= job[s].at
    /\ position = [file |-> start, offset |-> job[s].to]

\* and writes it.  With another scan or a rotation in between, lines are left out or
\* read again.
Reset(s) ==
    LET back == Max({job[s].file, job[s].seen - Unhandled(s)})
        next == NextRead(job[s].file, back)
        own == (job[s].at + 1) .. job[s].to
        lost == (own \cup Ahead) \ ((next + 1) .. length \cup OtherHands(s))
        reread == (next + 1) .. Offset \ own
    IN  /\ job[s].pc = "reset"
        /\ position' = [file |-> job[s].file, offset |-> back]
        /\ dropped' = dropped \cup (IF Undisturbed(s) THEN {} ELSE lost)
        /\ again' = again \cup (IF Undisturbed(s) THEN {} ELSE reread)
        /\ job' = [job EXCEPT ![s] = IdleJob]
        /\ UNCHANGED <<log, effects, first, stopped, stops, faults>>

\* The hard limit or a power cut: what was read and not yet written is skipped.
Kill(s) ==
    /\ job[s].pc # "idle"
    /\ faults < MaxFaults
    /\ faults' = faults + 1
    /\ dropped' = dropped \cup Orphans(s)
    /\ job' = [job EXCEPT ![s] = IdleJob]
    /\ UNCHANGED <<log, position, effects, first, again, stopped, stops>>

-----------------------------------------------------------------------------
Begin(s) == FirstRun(s) \/ Read(s)
Flush(s) == FlushLinks(s) \/ FlushCounts(s) \/ FlushEvents(s)
Scan(s) == SavePosition(s) \/ Lookup(s) \/ LookupFails(s) \/ Handle(s) \/ Flush(s) \/ Rewind(s) \/ Reset(s)
SoftLimit(s) == \/ LimitBefore(s) \/ LimitUnguarded(s) \/ LimitInLookup(s) \/ LimitInLine(s)
                \/ LimitInLinks(s) \/ LimitInCounts(s) \/ LimitInEvents(s)

Next ==
    \/ Append \/ Rotate
    \/ \E m \in CleanupLines : Remember(m)
    \/ \E s \in Scanners : Begin(s) \/ Scan(s) \/ SoftLimit(s) \/ Kill(s)

Spec == Init /\ [][Next]_vars

-----------------------------------------------------------------------------
(* What must hold.                                                          *)

Jobs == [pc : {"idle", "save", "lookup", "lines", "links", "counts", "events", "rewind", "reset"},
         file : 0 .. LogLength, from : 0 .. LogLength, at : 0 .. LogLength, to : 0 .. LogLength,
         known : SUBSET CleanupLines, queues : SUBSET CleanupLines,
         links : SUBSET CleanupLines, unwritten : SUBSET CleanupLines,
         counts : SUBSET StatusLines, events : SUBSET StatusLines, seen : 0 .. LogLength,
         limited : BOOLEAN, stopping : BOOLEAN]

\* Every variable keeps its type, and a position never leaves the log.
TypeOK ==
    /\ length \in 0 .. LogLength /\ start \in 0 .. length
    /\ position \in {None} \cup [file : 0 .. length, offset : 0 .. length]
    /\ remembered \in SUBSET CleanupLines /\ linked \in SUBSET remembered
    /\ counted \in [Lines -> Nat]
    /\ written \in SUBSET StatusLines
    /\ job \in [Scanners -> Jobs]
    /\ first \in 0 .. LogLength
    /\ dropped \in SUBSET Lines /\ again \in SUBSET Lines /\ stopped \in SUBSET Lines
    /\ stops \in 0 .. MaxStops /\ faults \in 0 .. MaxFaults /\ rotations \in 0 .. MaxRotations

\* The lines the scans are through with: behind the position, and in nobody's hands.
Passed ==
    {l \in Lines : /\ position # None /\ first < l /\ l <= Offset
                   /\ \A s \in Scanners : l \notin Hands(s)}

\* A status line whose message and whose own event were not given up.
Kept(l, given) == l \in StatusLines /\ first < Cleanup[l] /\ {l, Cleanup[l]} \cap given = {}

\* Whatever the position went through, forward at a read and back at a stop, a
\* line behind it has its event, unless a kill, an error, a rotation, a message
\* remembered too late, a limit inside a flush or outside the trys of scan, or a scan
\* that overlaps and moves the position or does not know its queue id yet took it:
\* these are all the ways.
NothingSkipped == \A l \in Passed : Kept(l, dropped \cup stopped) => l \in written

\* "At most the line in flight is handled twice": the counters see no more lines
\* again than runs were stopped, but for lines that overlapping scans both read.
CountedTwice == Cardinality(UNION {{l} \X (2 .. counted[l]) : l \in Lines \ again}) <= stops

\* "Stopping one early loses nothing": without kills, errors, rotations and late
\* messages, every line behind the position has its event.
StoppingLosesNothing == \A l \in Passed : Kept(l, dropped) => l \in written

\* The beat starts a scan every minute, and a scan goes on.
Fairness == /\ \A s \in Scanners : WF_vars(Scan(s))
            /\ WF_vars(\E s \in Scanners : Begin(s))

FairSpec == Spec /\ Fairness

\* Every line written after the first run is passed, or given up: neither limits
\* nor errors keep a scan from getting past it, as long as they do not go on for
\* ever.
CatchesUp == \A l \in Lines : l <= length /\ first < l ~> l \in Passed \cup dropped
=============================================================================
