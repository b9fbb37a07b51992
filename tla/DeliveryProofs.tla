---------------------------- MODULE DeliveryProofs ----------------------------
(***************************************************************************)
(* Proofs about DeliveryScan, for every log, every way it is rotated, and  *)
(* any number of scans that overlap: a line the position went past has its *)
(* event or was given up in one of the ways the model knows, and a soft    *)
(* limit makes the counters see at most one line once more.                *)
(***************************************************************************)
EXTENDS DeliveryScan, Sums

-----------------------------------------------------------------------------
(* The invariant.                                                           *)

\* The position is in the current file, or at the end of what was read of an older
\* one; before the first run there is none, and no scan.
Placed ==
    /\ position # None => /\ position.file <= start /\ position.file <= position.offset
                          /\ position.file # start => position.offset <= start
    /\ position = None => first = LogLength /\ \A s \in Scanners : job[s] = IdleJob

\* A scan's numbers are in order: it reads in one file, in front of any rotation since.
Bounds(s) ==
    LET j == job[s]
    IN  /\ j.from <= j.at /\ j.at <= j.to /\ j.to <= length
        /\ j.file <= start /\ j.seen <= length
        /\ j.pc = "idle" => j.at = j.to
        /\ j.pc \in {"save", "lookup"} => j.at = j.from
        /\ j.pc \in {"save", "lookup", "lines"} => j.at < j.to
        /\ j.pc \notin {"idle", "reset"} => /\ j.file <= j.from
                                  /\ (j.file # start => j.to <= start)
        /\ j.pc = "reset" => j.at < j.to /\ (j.file # start => j.seen <= start)

\* What a scan holds belongs to the lines it reads, and only for as long as its flush
\* has not come to it.
Holdings(s) ==
    LET j == job[s]
    IN  /\ j.known \subseteq remembered /\ j.unwritten \subseteq j.known
        /\ j.counts \subseteq (j.from + 1) .. j.to
        /\ j.unwritten # {} => j.pc \in {"lines", "links"}
        /\ j.counts # {} => j.pc \in {"lines", "links", "counts"}
        /\ j.events # {} => j.pc \in {"lines", "links", "counts", "events"}

\* Line l is done, or given up, or its message was, or came before the first run.
GivenUp == dropped \cup stopped
Settled(l) ==
    \/ l \in GivenUp \cup linked \cup written
    \/ l \in StatusLines /\ (Cleanup[l] <= first \/ Cleanup[l] \in GivenUp)

\* The lines the scans are through with are settled;
PassedSettled == \A l \in Passed : Settled(l)

\* so are those a scan has handled, but for what it holds of them,
HandledSettled(s) ==
    \A l \in Lines :
        l \in Hands(s) /\ first < l /\ l <= job[s].at
            => Settled(l) \/ l \in job[s].unwritten \cup job[s].events

\* and it knows the queue ids of the lines before it, or they were given up.
KnowsQueues(s) ==
    job[s].pc \in {"lines", "links", "counts", "events"} =>
    \A l \in StatusLines :
        LET c == Cleanup[l]
        IN  l \in Hands(s) /\ first < c =>
            /\ c <= job[s].from => c \in job[s].queues \cup GivenUp \/ l \in dropped
            /\ job[s].from < c /\ c <= job[s].at => c \in job[s].links \cup dropped

\* But for the lines read again, a line is in the hands of one scan, and behind the
\* position once this scan has saved it.
OneHand ==
    \A l \in Lines \ again, s \in Scanners :
        l \in Hands(s) => /\ \A o \in Scanners \ {s} : l \notin Hands(o)
                          /\ job[s].pc # "save" => l <= Offset

\* How often the counters will have seen a line: what they saw, what a scan is about
\* to count, and what is still to be handled.
Held(l) == \E s \in Scanners : l \in job[s].counts
Pending(l) == l > Offset \/ \E s \in Scanners : job[s].at < l /\ l <= job[s].to
Sight(l) == counted[l] + (IF Held(l) THEN 1 ELSE 0) + (IF Pending(l) THEN 1 ELSE 0)

Repeats == UNION {{l} \X (2 .. Sight(l)) : l \in Lines \ again}

FewRepeats == Cardinality(Repeats) <= stops

-----------------------------------------------------------------------------
(* The shape: types, and where a scan and the position are.                 *)

Shape == TypeOK /\ Placed /\ \A s \in Scanners : Bounds(s) /\ Holdings(s)

LEMMA MaxTwo == ASSUME NEW a \in Int, NEW b \in Int PROVE Max({a, b}) = IF a <= b THEN b ELSE a
<1>1. \E x \in {a, b} : \A y \in {a, b} : x >= y
  OBVIOUS
<1>2. Max({a, b}) \in {a, b} /\ \A y \in {a, b} : Max({a, b}) >= y
  BY <1>1 DEF Max
<1> QED
  BY <1>2

LEMMA MinTwo == ASSUME NEW a \in Int, NEW b \in Int PROVE Min({a, b}) = IF a <= b THEN a ELSE b
<1>1. \E x \in {a, b} : \A y \in {a, b} : x <= y
  OBVIOUS
<1>2. Min({a, b}) \in {a, b} /\ \A y \in {a, b} : Min({a, b}) <= y
  BY <1>1 DEF Min
<1> QED
  BY <1>2

\* The fields of a job.
LEMMA JobFields ==
    ASSUME TypeOK, NEW s \in Scanners
    PROVE  /\ job[s] \in Jobs
           /\ job[s].pc \in {"idle", "save", "lookup", "lines", "links", "counts", "events", "rewind", "reset"}
           /\ job[s].file \in 0 .. LogLength /\ job[s].from \in 0 .. LogLength
           /\ job[s].at \in 0 .. LogLength /\ job[s].to \in 0 .. LogLength
           /\ job[s].seen \in 0 .. LogLength
           /\ job[s].known \subseteq CleanupLines /\ job[s].queues \subseteq CleanupLines
           /\ job[s].links \subseteq CleanupLines /\ job[s].unwritten \subseteq CleanupLines
           /\ job[s].counts \subseteq StatusLines /\ job[s].events \subseteq StatusLines
           /\ job[s].limited \in BOOLEAN /\ job[s].stopping \in BOOLEAN
BY DEF TypeOK, Jobs

\* The types of the numbers.
LEMMA Numbers ==
    ASSUME TypeOK
    PROVE  /\ LogLength \in Nat /\ length \in Nat /\ start \in Nat /\ start <= length /\ length <= LogLength
           /\ position # None => /\ position.file \in Nat /\ position.offset \in Nat
                                 /\ position = [file |-> position.file, offset |-> position.offset]
                                 /\ position.file <= length /\ position.offset <= length
           /\ first \in Nat /\ first <= LogLength
           /\ Lines \subseteq Nat
BY LogAssumption DEF TypeOK, Lines

\* A read begins in the current file.
LEMMA OffsetRange ==
    ASSUME TypeOK, Placed
    PROVE  /\ Offset \in Nat /\ start <= Offset /\ Offset <= length
           /\ position # None => Offset = IF position.file = start THEN position.offset ELSE start
BY Numbers DEF Placed, Offset, NextRead

\* A scan whose job a step leaves alone.
LEMMA OtherShape ==
    ASSUME Shape, NEW o \in Scanners, job'[o] = job[o], UNCHANGED <<start, length>>,
           remembered \subseteq remembered'
    PROVE  Bounds(o)' /\ Holdings(o)'
BY DEF Shape, Bounds, Holdings

\* Positions of the log.
LEMMA PositionOf ==
    ASSUME NEW f \in Nat, NEW o \in Nat
    PROVE  [file |-> f, offset |-> o] # None
BY LogAssumption

LEMMA AppendShape == ASSUME Shape, Append PROVE Shape'
<1>1. TypeOK'
  <2>1. length' \in 0 .. LogLength /\ 0 .. length \subseteq 0 .. length'
    BY Numbers DEF Shape, Append
  <2>2. position' \in {None} \cup [file : 0 .. length', offset : 0 .. length']
    BY <2>1 DEF Shape, TypeOK, Append
  <2> QED
    BY <2>1, <2>2 DEF Shape, TypeOK, Append, effects
<1>2. Placed'
  BY DEF Shape, Placed, Append
<1>3. ASSUME NEW s \in Scanners PROVE Bounds(s)' /\ Holdings(s)'
  BY JobFields, Numbers DEF Shape, Bounds, Holdings, Append
<1> QED
  BY <1>1, <1>2, <1>3 DEF Shape

LEMMA RememberShape == ASSUME Shape, NEW m \in CleanupLines, Remember(m) PROVE Shape'
<1>1. TypeOK'
  BY DEF Shape, TypeOK, Remember, effects
<1>2. Placed'
  BY DEF Shape, Placed, Remember
<1>3. ASSUME NEW s \in Scanners PROVE Bounds(s)' /\ Holdings(s)'
  BY <1>1, OtherShape DEF Shape, Remember
<1> QED
  BY <1>1, <1>2, <1>3 DEF Shape

LEMMA RotateShape == ASSUME Shape, Rotate PROVE Shape'
<1>0. /\ start' = length /\ start < length /\ rotations' = rotations + 1 /\ rotations < MaxRotations
      /\ UNCHANGED <<length, remembered, position, effects, job, first, again, stopped, stops, faults>>
      /\ dropped' \subseteq dropped \cup Ahead
  BY DEF Rotate
<1>1. TypeOK'
  <2>1. Ahead \subseteq Lines
    BY Numbers, OffsetRange DEF Shape, Ahead, Lines
  <2>2. dropped' \in SUBSET Lines
    BY <1>0, <2>1 DEF Shape, TypeOK
  <2>3. rotations' \in 0 .. MaxRotations
    BY <1>0, LogAssumption DEF Shape, TypeOK
  <2> QED
    BY <1>0, <2>2, <2>3, Numbers DEF Shape, TypeOK, effects
<1>2. Placed'
  BY <1>0, Numbers DEF Shape, Placed
<1>3. ASSUME NEW s \in Scanners PROVE Bounds(s)' /\ Holdings(s)'
  BY <1>0, JobFields, Numbers DEF Shape, Bounds, Holdings
<1> QED
  BY <1>1, <1>2, <1>3 DEF Shape

LEMMA FirstRunShape == ASSUME Shape, NEW s \in Scanners, FirstRun(s) PROVE Shape'
<1>1. TypeOK'
  BY Numbers DEF Shape, TypeOK, FirstRun, log, effects
<1>2. Placed'
  BY Numbers, PositionOf DEF Shape, Placed, FirstRun, log
<1>3. ASSUME NEW o \in Scanners PROVE Bounds(o)' /\ Holdings(o)'
  BY OtherShape DEF Shape, FirstRun, log
<1> QED
  BY <1>1, <1>2, <1>3 DEF Shape

LEMMA ReadFields ==
    ASSUME Shape, NEW s \in Scanners, Read(s)
    PROVE  /\ job' = [job EXCEPT ![s] = job'[s]]
           /\ \A o \in Scanners \ {s} : job'[o] = job[o]
           /\ job'[s] \in Jobs
           /\ job'[s].pc = "save" /\ job'[s].file = start /\ job'[s].from = Offset
           /\ job'[s].at = Offset /\ job'[s].to \in Nat /\ Offset < job'[s].to /\ job'[s].to <= length
           /\ job'[s].known = {} /\ job'[s].unwritten = {} /\ job'[s].counts = {} /\ job'[s].events = {}
           /\ job'[s].seen = 0
<1> DEFINE to == Min({length, Offset + MaxRead})
<1>1. Offset \in Nat /\ Offset < length /\ length \in Nat /\ length <= LogLength /\ LogLength \in Nat
      /\ start \in Nat /\ start <= length
  BY OffsetRange, Numbers DEF Shape, Read
<1>2. to \in Nat /\ Offset < to /\ to <= length
  <2>1. length \in Int /\ Offset + MaxRead \in Int /\ MaxRead \in Int /\ MaxRead > 0
    BY <1>1, LogAssumption
  <2>2. to = IF length <= Offset + MaxRead THEN length ELSE Offset + MaxRead
    BY <2>1, MinTwo
  <2> HIDE DEF to
  <2> QED
    BY <1>1, <2>1, <2>2
<1> DEFINE j == [IdleJob EXCEPT !.pc = "save", !.file = start, !.from = Offset, !.at = Offset, !.to = to]
<1>3. job' = [job EXCEPT ![s] = j]
  BY DEF Read
<1>4. job \in [Scanners -> Jobs]
  BY DEF Shape, TypeOK
<1>5. job'[s] = j /\ job' = [job EXCEPT ![s] = job'[s]] /\ \A o \in Scanners \ {s} : job'[o] = job[o]
  <2> HIDE DEF j
  <2> QED
    BY <1>3, <1>4
<1> HIDE DEF to
<1>6. IdleJob \in Jobs
  BY Numbers DEF Shape, IdleJob, Jobs
<1>7. /\ Offset \in 0 .. LogLength /\ to \in 0 .. LogLength /\ start \in 0 .. LogLength
  BY <1>1, <1>2
<1>8. /\ j.pc = "save" /\ j.file = start /\ j.from = Offset /\ j.at = Offset /\ j.to = to
      /\ j.known = {} /\ j.unwritten = {} /\ j.counts = {} /\ j.events = {} /\ j.seen = 0
  BY DEF IdleJob
<1>9. j \in Jobs
  BY <1>6, <1>7 DEF Jobs
<1> QED
  BY <1>2, <1>5, <1>8, <1>9

LEMMA ReadShape == ASSUME Shape, NEW s \in Scanners, Read(s) PROVE Shape'
<1>1. TypeOK'
  <2>1. job' \in [Scanners -> Jobs]
    BY ReadFields DEF Shape, TypeOK
  <2>2. again' \in SUBSET Lines
    <3>1. Hands(s)' \subseteq Lines
      BY ReadFields, Numbers, OffsetRange DEF Shape, Hands, Lines
    <3> QED
      BY <3>1 DEF Read, Shape, TypeOK
  <2> QED
    BY <2>1, <2>2 DEF Read, Shape, TypeOK, log, effects
<1>2. Placed'
  BY DEF Shape, Placed, Read, log
<1>3. Bounds(s)' /\ Holdings(s)'
  <2>1. UNCHANGED <<start, length, remembered>>
    BY DEF Read, log
  <2> QED
    BY <2>1, ReadFields, Numbers, OffsetRange DEF Shape, Bounds, Holdings
<1>4. ASSUME NEW o \in Scanners \ {s} PROVE Bounds(o)' /\ Holdings(o)'
  BY ReadFields, OtherShape DEF Shape, Read, log
<1> QED
  BY <1>1, <1>2, <1>3, <1>4 DEF Shape

\* What no step but a read changes of a job: what it reads.
SameRead(s) == job'[s].file = job[s].file /\ job'[s].from = job[s].from /\ job'[s].to = job[s].to
                  /\ job'[s].seen = job[s].seen
SameFinds(s) == job'[s].known = job[s].known /\ job'[s].queues = job[s].queues
SameHolds(s) == job'[s].unwritten = job[s].unwritten /\ job'[s].counts = job[s].counts
                   /\ job'[s].events = job[s].events
Alone(s) == /\ \A o \in Scanners \ {s} : job'[o] = job[o]
            /\ job' \in [Scanners -> Jobs] /\ job'[s] \in Jobs

\* A step of one scan.
LEMMA StepAlone ==
    ASSUME TypeOK, NEW s \in Scanners, NEW j \in Jobs, job' = [job EXCEPT ![s] = j]
    PROVE  Alone(s) /\ job'[s] = j
BY DEF TypeOK, Alone

LEMMA SaveFields ==
    ASSUME TypeOK, NEW s \in Scanners, SavePosition(s)
    PROVE  /\ Alone(s) /\ SameRead(s) /\ SameFinds(s) /\ SameHolds(s)
           /\ job'[s].at = job[s].at /\ job'[s].links = job[s].links
           /\ job'[s].pc = "lookup"
<1> DEFINE j == [job[s] EXCEPT !.pc = "lookup"]
<1>1. job' = [job EXCEPT ![s] = j]
  BY DEF SavePosition
<1>2. j \in Jobs
  <2>1. job[s] \in Jobs
    BY JobFields
  <2> QED
    BY <2>1 DEF Jobs
<1>3. Alone(s) /\ job'[s] = j
  BY <1>1, <1>2, StepAlone
<1> QED
  BY <1>3, JobFields DEF SameRead, SameFinds, SameHolds, Jobs

LEMMA LookupFields ==
    ASSUME TypeOK, NEW s \in Scanners, Lookup(s)
    PROVE  /\ Alone(s) /\ SameRead(s) /\ SameHolds(s)
           /\ job'[s].at = job[s].at /\ job'[s].links = job[s].links
           /\ job'[s].pc = "lines" /\ job'[s].known = remembered /\ job'[s].queues = linked
<1> DEFINE j == [job[s] EXCEPT !.pc = "lines", !.known = remembered, !.queues = linked]
<1>1. job' = [job EXCEPT ![s] = j]
  BY DEF Lookup
<1>2. j \in Jobs
  <2>1. job[s] \in Jobs
    BY JobFields
  <2>2. remembered \in SUBSET CleanupLines /\ linked \in SUBSET CleanupLines
    BY DEF TypeOK
  <2> QED
    BY <2>1, <2>2 DEF Jobs
<1>3. Alone(s) /\ job'[s] = j
  BY <1>1, <1>2, StepAlone
<1> QED
  BY <1>3, JobFields DEF SameRead, SameFinds, SameHolds, Jobs

LEMMA LookupFailsFields ==
    ASSUME TypeOK, NEW s \in Scanners, LookupFails(s)
    PROVE  /\ Alone(s) /\ SameRead(s) /\ SameFinds(s) /\ SameHolds(s)
           /\ job'[s].at = job[s].at /\ job'[s].links = job[s].links
           /\ job'[s].pc = "rewind"
<1> DEFINE j == [job[s] EXCEPT !.pc = "rewind"]
<1>1. job' = [job EXCEPT ![s] = j]
  BY DEF LookupFails
<1>2. j \in Jobs
  <2>1. job[s] \in Jobs
    BY JobFields
  <2> QED
    BY <2>1 DEF Jobs
<1>3. Alone(s) /\ job'[s] = j
  BY <1>1, <1>2, StepAlone
<1> QED
  BY <1>3, JobFields DEF SameRead, SameFinds, SameHolds, Jobs

\* The next line, its link and its event.
NextLine(s) == job[s].at + 1
Link(s) == {NextLine(s)} \cap CleanupLines \cap job[s].known
Event(s) == IF Finds(s, NextLine(s)) THEN {NextLine(s)} ELSE {}

LEMMA HandleFields ==
    ASSUME TypeOK, NEW s \in Scanners, Bounds(s), Handle(s)
    PROVE  /\ Alone(s) /\ SameRead(s) /\ SameFinds(s)
           /\ job[s].pc = "lines" /\ job'[s].at = NextLine(s)
           /\ job'[s].pc \in {"lines", "links"} /\ (NextLine(s) = job[s].to => job'[s].pc = "links")
           /\ job'[s].links = job[s].links \cup Link(s)
           /\ job'[s].unwritten = job[s].unwritten \cup Link(s)
           /\ job'[s].counts = job[s].counts \cup Event(s)
           /\ job'[s].events = job[s].events \cup Event(s)
<1> DEFINE pc == IF (NextLine(s) - job[s].from) % FlushEvery = 0 \/ NextLine(s) = job[s].to
                 THEN "links" ELSE "lines"
           j == [job[s] EXCEPT !.at = NextLine(s), !.links = @ \cup Link(s), !.unwritten = @ \cup Link(s),
                               !.counts = @ \cup Event(s), !.events = @ \cup Event(s), !.pc = pc]
<1>1. job' = [job EXCEPT ![s] = j]
  BY DEF Handle, NextLine, Link, Event
<1>6. job[s].pc = "lines"
  BY DEF Handle
<1>2. /\ NextLine(s) \in 0 .. LogLength /\ Link(s) \subseteq CleanupLines /\ Event(s) \subseteq StatusLines
  BY <1>6, JobFields, Numbers DEF NextLine, Link, Event, Finds, Bounds
<1>3. pc \in {"lines", "links"} /\ (NextLine(s) = job[s].to => pc = "links")
  OBVIOUS
<1> HIDE DEF pc
<1>4. j \in Jobs
  <2>1. job[s] \in Jobs
    BY JobFields
  <2>2. /\ job[s].links \cup Link(s) \in SUBSET CleanupLines
        /\ job[s].unwritten \cup Link(s) \in SUBSET CleanupLines
        /\ job[s].counts \cup Event(s) \in SUBSET StatusLines
        /\ job[s].events \cup Event(s) \in SUBSET StatusLines
    BY <1>2, JobFields
  <2> QED
    BY <1>2, <1>3, <2>1, <2>2 DEF Jobs
<1>5. Alone(s) /\ job'[s] = j
  BY <1>1, <1>4, StepAlone
<1> QED
  <2>1. job[s] \in Jobs
    BY JobFields
  <2>2. SameRead(s) /\ SameFinds(s)
    BY <1>5, <2>1 DEF SameRead, SameFinds, Jobs
  <2> QED
    BY <1>3, <1>5, <1>6, <2>1, <2>2 DEF Jobs

LEMMA FlushLinksFields ==
    ASSUME TypeOK, NEW s \in Scanners, FlushLinks(s)
    PROVE  /\ Alone(s) /\ SameRead(s) /\ SameFinds(s)
           /\ job'[s].at = job[s].at /\ job'[s].links = job[s].links
           /\ job'[s].counts = job[s].counts /\ job'[s].events = job[s].events
           /\ job'[s].unwritten = {} /\ job[s].pc = "links" /\ job'[s].pc = "counts"
<1> DEFINE j == [job[s] EXCEPT !.pc = "counts", !.unwritten = {}]
<1>1. job' = [job EXCEPT ![s] = j]
  BY DEF FlushLinks
<1>4. job[s].pc = "links"
  BY DEF FlushLinks
<1>2. j \in Jobs
  <2>1. job[s] \in Jobs
    BY JobFields
  <2> QED
    BY <2>1 DEF Jobs
<1>3. Alone(s) /\ job'[s] = j
  BY <1>1, <1>2, StepAlone
<1> QED
  <2>1. job[s] \in Jobs
    BY JobFields
  <2>2. SameRead(s) /\ SameFinds(s)
    BY <1>3, <2>1 DEF SameRead, SameFinds, Jobs
  <2> QED
    BY <1>3, <1>4, <2>1, <2>2 DEF Jobs

LEMMA FlushCountsFields ==
    ASSUME TypeOK, NEW s \in Scanners, FlushCounts(s)
    PROVE  /\ Alone(s) /\ SameRead(s) /\ SameFinds(s)
           /\ job'[s].at = job[s].at /\ job'[s].links = job[s].links
           /\ job'[s].unwritten = job[s].unwritten /\ job'[s].events = job[s].events
           /\ job'[s].counts = {} /\ job[s].pc = "counts" /\ job'[s].pc = "events"
<1> DEFINE j == [job[s] EXCEPT !.pc = "events", !.counts = {}]
<1>1. job' = [job EXCEPT ![s] = j]
  BY DEF FlushCounts
<1>4. job[s].pc = "counts"
  BY DEF FlushCounts
<1>2. j \in Jobs
  <2>1. job[s] \in Jobs
    BY JobFields
  <2> QED
    BY <2>1 DEF Jobs
<1>3. Alone(s) /\ job'[s] = j
  BY <1>1, <1>2, StepAlone
<1> QED
  <2>1. job[s] \in Jobs
    BY JobFields
  <2>2. SameRead(s) /\ SameFinds(s)
    BY <1>3, <2>1 DEF SameRead, SameFinds, Jobs
  <2> QED
    BY <1>3, <1>4, <2>1, <2>2 DEF Jobs

LEMMA IdleFields ==
    ASSUME TypeOK
    PROVE  /\ IdleJob \in Jobs /\ IdleJob.pc = "idle" /\ IdleJob.file = 0 /\ IdleJob.from = 0 /\ IdleJob.at = 0
           /\ IdleJob.to = 0 /\ IdleJob.known = {} /\ IdleJob.unwritten = {} /\ IdleJob.counts = {}
           /\ IdleJob.events = {} /\ IdleJob.seen = 0
BY Numbers DEF IdleJob, Jobs

\* A flush ends and the scan goes on, or stops, or is through.
LEMMA FlushEventsFields ==
    ASSUME TypeOK, NEW s \in Scanners, FlushEvents(s)
    PROVE  /\ Alone(s) /\ job[s].pc = "events"
           /\ \/ job'[s] = IdleJob /\ ~(job[s].at < job[s].to)
              \/ /\ SameRead(s) /\ SameFinds(s)
                 /\ job'[s].at = job[s].at /\ job'[s].links = job[s].links
                 /\ job'[s].unwritten = job[s].unwritten /\ job'[s].counts = job[s].counts
                 /\ job'[s].events = {}
                 /\ job'[s].pc \in {"rewind", "lines"}
                 /\ job'[s].pc = "lines" => job[s].at < job[s].to
<1> DEFINE k(pc) == [job[s] EXCEPT !.pc = pc, !.events = {}]
           j == IF job[s].stopping THEN k("rewind") ELSE IF job[s].at < job[s].to THEN k("lines") ELSE IdleJob
<1>1. job' = [job EXCEPT ![s] = j]
  BY DEF FlushEvents
<1>7. job[s].pc = "events"
  BY DEF FlushEvents
<1>2. \A pc \in {"rewind", "lines"} : k(pc) \in Jobs
  <2>1. job[s] \in Jobs
    BY JobFields
  <2> QED
    BY <2>1 DEF Jobs
<1>3. j \in Jobs
  BY <1>2, IdleFields
<1>4. Alone(s) /\ job'[s] = j
  <2> HIDE DEF j
  <2> QED
    BY <1>1, <1>3, StepAlone
<1>5. CASE job'[s] = IdleJob /\ ~(job[s].at < job[s].to)
  BY <1>4, <1>5, <1>7
<1>6. CASE \E pc \in {"rewind", "lines"} : job'[s] = k(pc) /\ (pc = "lines" => job[s].at < job[s].to)
  <2>1. PICK pc \in {"rewind", "lines"} : job'[s] = k(pc) /\ (pc = "lines" => job[s].at < job[s].to)
    BY <1>6
  <2> HIDE DEF j
  <2>2. job[s] \in Jobs
    BY JobFields
  <2>3. SameRead(s) /\ SameFinds(s)
    BY <2>1, <2>2 DEF SameRead, SameFinds, Jobs
  <2> QED
    BY <1>4, <1>7, <2>1, <2>2, <2>3 DEF Jobs
<1> QED
  BY <1>4, <1>5, <1>6

LEMMA LimitInLookupFields ==
    ASSUME TypeOK, NEW s \in Scanners, LimitInLookup(s)
    PROVE  /\ Alone(s) /\ SameRead(s) /\ SameFinds(s)
           /\ job'[s].at = job[s].at /\ job'[s].links = job[s].links
           /\ job'[s].unwritten = job[s].unwritten /\ job'[s].counts = job[s].counts
           /\ job'[s].events = job[s].events
           /\ job[s].pc = "lookup" /\ job'[s].pc = "rewind"
<1> DEFINE j == [job[s] EXCEPT !.limited = TRUE, !.pc = "rewind"]
<1>1. job' = [job EXCEPT ![s] = j]
  BY DEF LimitInLookup, Limited
<1>2. job[s].pc = "lookup"
  BY DEF LimitInLookup
<1>3. j \in Jobs
  <2>1. job[s] \in Jobs
    BY JobFields
  <2> QED
    BY <2>1 DEF Jobs
<1>4. Alone(s) /\ job'[s] = j
  BY <1>1, <1>3, StepAlone
<1> QED
  <2>1. job[s] \in Jobs
    BY JobFields
  <2>2. SameRead(s) /\ SameFinds(s)
    BY <1>4, <2>1 DEF SameRead, SameFinds, Jobs
  <2> QED
    BY <1>2, <1>4, <2>1, <2>2 DEF Jobs

LEMMA LimitInLinksFields ==
    ASSUME TypeOK, NEW s \in Scanners, LimitInLinks(s)
    PROVE  /\ Alone(s) /\ SameRead(s) /\ SameFinds(s)
           /\ job'[s].at = job[s].at /\ job'[s].links = job[s].links
           /\ job'[s].counts = job[s].counts /\ job'[s].events = job[s].events
           /\ job[s].pc = "links" /\ job'[s].pc = "counts" /\ job'[s].unwritten = {}
<1> DEFINE j == [job[s] EXCEPT !.limited = TRUE, !.pc = "counts", !.unwritten = {}]
<1>1. job' = [job EXCEPT ![s] = j]
  BY DEF LimitInLinks, Limited
<1>2. job[s].pc = "links"
  BY DEF LimitInLinks
<1>3. j \in Jobs
  <2>1. job[s] \in Jobs
    BY JobFields
  <2> QED
    BY <2>1 DEF Jobs
<1>4. Alone(s) /\ job'[s] = j
  BY <1>1, <1>3, StepAlone
<1> QED
  <2>1. job[s] \in Jobs
    BY JobFields
  <2>2. SameRead(s) /\ SameFinds(s)
    BY <1>4, <2>1 DEF SameRead, SameFinds, Jobs
  <2> QED
    BY <1>2, <1>4, <2>1, <2>2 DEF Jobs

LEMMA LimitInCountsFields ==
    ASSUME TypeOK, NEW s \in Scanners, LimitInCounts(s)
    PROVE  /\ Alone(s) /\ SameRead(s) /\ SameFinds(s)
           /\ job'[s].at = job[s].at /\ job'[s].links = job[s].links
           /\ job'[s].unwritten = job[s].unwritten /\ job'[s].events = job[s].events
           /\ job[s].pc = "counts" /\ job'[s].pc = "events" /\ job'[s].counts = {}
<1> DEFINE j == [job[s] EXCEPT !.limited = TRUE, !.pc = "events", !.counts = {}]
<1>1. job' = [job EXCEPT ![s] = j]
  BY DEF LimitInCounts, Limited
<1>2. job[s].pc = "counts"
  BY DEF LimitInCounts
<1>3. j \in Jobs
  <2>1. job[s] \in Jobs
    BY JobFields
  <2> QED
    BY <2>1 DEF Jobs
<1>4. Alone(s) /\ job'[s] = j
  BY <1>1, <1>3, StepAlone
<1> QED
  <2>1. job[s] \in Jobs
    BY JobFields
  <2>2. SameRead(s) /\ SameFinds(s)
    BY <1>4, <2>1 DEF SameRead, SameFinds, Jobs
  <2> QED
    BY <1>2, <1>4, <2>1, <2>2 DEF Jobs

LEMMA LimitInEventsFields ==
    ASSUME TypeOK, NEW s \in Scanners, LimitInEvents(s)
    PROVE  /\ Alone(s) /\ SameRead(s) /\ SameFinds(s)
           /\ job'[s].at = job[s].at /\ job'[s].links = job[s].links
           /\ job'[s].unwritten = job[s].unwritten /\ job'[s].counts = job[s].counts
           /\ job[s].pc = "events" /\ job'[s].pc = "links" /\ job'[s].events = {}
<1> DEFINE j == [job[s] EXCEPT !.limited = TRUE, !.pc = "links", !.stopping = TRUE, !.events = {}]
<1>1. job' = [job EXCEPT ![s] = j]
  BY DEF LimitInEvents, Limited
<1>2. job[s].pc = "events"
  BY DEF LimitInEvents
<1>3. j \in Jobs
  <2>1. job[s] \in Jobs
    BY JobFields
  <2> QED
    BY <2>1 DEF Jobs
<1>4. Alone(s) /\ job'[s] = j
  BY <1>1, <1>3, StepAlone
<1> QED
  <2>1. job[s] \in Jobs
    BY JobFields
  <2>2. SameRead(s) /\ SameFinds(s)
    BY <1>4, <2>1 DEF SameRead, SameFinds, Jobs
  <2> QED
    BY <1>2, <1>4, <2>1, <2>2 DEF Jobs

LEMMA LimitInLineFields ==
    ASSUME TypeOK, NEW s \in Scanners, LimitInLine(s)
    PROVE  /\ Alone(s) /\ SameRead(s) /\ SameFinds(s)
           /\ job'[s].at = job[s].at /\ job'[s].links = job[s].links
           /\ job'[s].unwritten = job[s].unwritten /\ job'[s].events = job[s].events
           /\ \E counts \in SUBSET Event(s) : job'[s].counts = job[s].counts \cup counts
           /\ job[s].pc = "lines" /\ job'[s].pc = "links"
<1> DEFINE j(c) == [job[s] EXCEPT !.limited = TRUE, !.pc = "links", !.stopping = TRUE, !.counts = @ \cup c]
<1>1. \E c \in SUBSET Event(s) : job' = [job EXCEPT ![s] = j(c)]
  BY DEF LimitInLine, Limited, Event, NextLine
<1>2. PICK c \in SUBSET Event(s) : job' = [job EXCEPT ![s] = j(c)]
  BY <1>1
<1>3. job[s].pc = "lines"
  BY DEF LimitInLine
<1>4. Event(s) \subseteq StatusLines
  BY DEF Event, Finds
<1>5. j(c) \in Jobs
  <2>1. job[s] \in Jobs
    BY JobFields
  <2>2. job[s].counts \cup c \in SUBSET StatusLines
    BY <1>4, JobFields
  <2> QED
    BY <2>1, <2>2 DEF Jobs
<1>6. Alone(s) /\ job'[s] = j(c)
  BY <1>2, <1>5, StepAlone
<1> QED
  <2>1. job[s] \in Jobs
    BY JobFields
  <2>2. SameRead(s) /\ SameFinds(s)
    BY <1>6, <2>1 DEF SameRead, SameFinds, Jobs
  <2>3. job'[s].counts = job[s].counts \cup c
    BY <1>6, <2>1 DEF Jobs
  <2> QED
    BY <1>3, <1>6, <2>1, <2>2, <2>3 DEF Jobs

\* A step that lets go of the job.
LEMMA LetGo ==
    ASSUME TypeOK, NEW s \in Scanners, job' = [job EXCEPT ![s] = IdleJob]
    PROVE  Alone(s) /\ job'[s] = IdleJob
BY StepAlone, IdleFields

LEMMA RewindFields ==
    ASSUME Shape, NEW s \in Scanners, Rewind(s)
    PROVE  /\ Alone(s) /\ job[s].pc = "rewind"
           /\ \/ job'[s] = IdleJob /\ Unhandled(s) = 0
              \/ /\ Unhandled(s) # 0
                 /\ job'[s].from = job[s].from /\ job'[s].to = job[s].to /\ job'[s].at = job[s].at
                 /\ SameFinds(s) /\ SameHolds(s)
                 /\ job'[s].pc = "reset" /\ job'[s].file = position.file /\ job'[s].seen = position.offset
<1>1. job[s].pc = "rewind"
  BY DEF Rewind
<1>2. CASE Unhandled(s) = 0
  <2>1. job' = [job EXCEPT ![s] = IdleJob]
    BY <1>2 DEF Rewind
  <2> QED
    BY <1>1, <1>2, <2>1, LetGo DEF Shape
<1>3. CASE Unhandled(s) # 0
  <2> DEFINE j == [job[s] EXCEPT !.pc = "reset", !.file = position.file, !.seen = position.offset]
  <2>1. job' = [job EXCEPT ![s] = j]
    BY <1>3 DEF Rewind
  <2>2. position # None
    <3>1. job[s] # IdleJob
      BY <1>1, IdleFields DEF Shape
    <3> QED
      BY <3>1 DEF Shape, Placed
  <2>3. position.file \in 0 .. LogLength /\ position.offset \in 0 .. LogLength
    BY <2>2, Numbers DEF Shape
  <2>4. job[s] \in Jobs
    BY JobFields DEF Shape
  <2>5. j \in Jobs
    BY <2>3, <2>4 DEF Jobs
  <2>6. Alone(s) /\ job'[s] = j
    BY <2>1, <2>5, StepAlone DEF Shape
  <2>7. SameFinds(s) /\ SameHolds(s)
    BY <2>4, <2>6 DEF SameFinds, SameHolds, Jobs
  <2> QED
    BY <1>1, <1>3, <2>4, <2>6, <2>7 DEF Jobs
<1> QED
  BY <1>2, <1>3

\* The types a step of a scan may touch beside its job.
Rest ==
    /\ linked \in SUBSET remembered /\ counted \in [Lines -> Nat] /\ written \in SUBSET StatusLines
    /\ dropped \in SUBSET Lines /\ again \in SUBSET Lines /\ stopped \in SUBSET Lines
    /\ stops \in 0 .. MaxStops /\ faults \in 0 .. MaxFaults

LEMMA StepShape ==
    ASSUME Shape, NEW s \in Scanners, Alone(s), job[s].pc # "idle", UNCHANGED <<log, first>>,
           position' \in {None} \cup [file : 0 .. length, offset : 0 .. length], Placed',
           Rest', Bounds(s)', Holdings(s)'
    PROVE  Shape'
<1>1. TypeOK'
  BY DEF Shape, TypeOK, Rest, Alone, log
<1>2. ASSUME NEW o \in Scanners \ {s} PROVE Bounds(o)' /\ Holdings(o)'
  BY OtherShape DEF Alone, log
<1> QED
  BY <1>1, <1>2 DEF Shape

\* A step that leaves the position alone.
LEMMA StillShape ==
    ASSUME Shape, NEW s \in Scanners, Alone(s), job[s].pc # "idle", UNCHANGED <<log, first, position>>,
           Rest', Bounds(s)', Holdings(s)'
    PROVE  Shape'
<1>1. position # None
  BY IdleFields DEF Shape, Placed
<1>2. Placed'
  BY <1>1 DEF Shape, Placed, log
<1>3. position' \in {None} \cup [file : 0 .. length, offset : 0 .. length]
  BY DEF Shape, TypeOK
<1> QED
  BY <1>2, <1>3, StepShape

\* What a scan lets go of has no bounds.
LEMMA IdleShape ==
    ASSUME Shape, NEW s \in Scanners, job'[s] = IdleJob, UNCHANGED log
    PROVE  Bounds(s)' /\ Holdings(s)'
BY IdleFields, Numbers DEF Shape, Bounds, Holdings, log

\* What is counted is counted in numbers.
LEMMA CountType ==
    ASSUME counted \in [Lines -> Nat], NEW ls, Count(ls)
    PROVE  counted' \in [Lines -> Nat]
BY DEF Count

LEMMA HandsRange ==
    ASSUME Shape, NEW s \in Scanners
    PROVE  Hands(s) \subseteq Lines /\ Ahead \subseteq Lines /\ Offset \in Nat /\ Offset <= length
<1>1. Ahead \subseteq Lines /\ Offset \in Nat /\ Offset <= length
  BY Numbers, OffsetRange DEF Shape, Ahead, Lines
<1>2. Hands(s) \subseteq Lines
  BY JobFields, Numbers DEF Shape, Bounds, Hands, Lines
<1> QED
  BY <1>1, <1>2

LEMMA SaveShape == ASSUME Shape, NEW s \in Scanners, SavePosition(s) PROVE Shape'
<1>1. job[s].pc = "save" /\ UNCHANGED <<log, effects, first, stopped, stops, faults>>
  BY DEF SavePosition
<1>2. Alone(s) /\ Bounds(s)' /\ Holdings(s)'
  <2>1. Alone(s)
    BY SaveFields DEF Shape
  <2>2. Bounds(s)'
    BY <1>1, SaveFields, JobFields, Numbers DEF Shape, Bounds, SameRead, log
  <2>3. Holdings(s)'
    BY <1>1, SaveFields, JobFields DEF Shape, Holdings, SameRead, SameFinds, SameHolds, log
  <2> QED
    BY <2>1, <2>2, <2>3
<1>3. /\ job[s].file \in Nat /\ job[s].to \in Nat /\ job[s].file <= start /\ job[s].to <= length
      /\ job[s].file <= job[s].to /\ (job[s].file # start => job[s].to <= start)
  BY <1>1, JobFields, Numbers DEF Shape, Bounds
<1>4. position' = [file |-> job[s].file, offset |-> job[s].to]
  BY DEF SavePosition
<1>5. position' \in {None} \cup [file : 0 .. length, offset : 0 .. length]
  BY <1>3, <1>4, Numbers DEF Shape
<1>6. Placed'
  BY <1>1, <1>3, <1>4, PositionOf DEF Placed, log
<1>7. Rest'
  <2>1. (NextRead(job[s].file, job[s].to) + 1) .. Offset \subseteq Lines
    <3>1. NextRead(job[s].file, job[s].to) \in Nat
      BY <1>3, Numbers DEF Shape, NextRead
    <3> HIDE DEF NextRead
    <3> QED
      BY <3>1, HandsRange, Numbers DEF Shape, Lines
  <2>2. (Offset + 1) .. job[s].from \subseteq Lines
    BY HandsRange, JobFields, Numbers DEF Shape, Lines
  <2> QED
    BY <1>1, <2>1, <2>2 DEF SavePosition, Shape, TypeOK, Rest, effects, log
<1> QED
  BY <1>1, <1>2, <1>5, <1>6, <1>7, StepShape

LEMMA LookupShape == ASSUME Shape, NEW s \in Scanners, Lookup(s) PROVE Shape'
<1>1. job[s].pc = "lookup" /\ UNCHANGED <<log, position, effects, first, again, stopped, stops, faults>>
  BY DEF Lookup
<1>2. Alone(s)
  BY LookupFields DEF Shape
<1>4. job[s].unwritten = {} /\ job[s].counts = {} /\ job[s].events = {} /\ job[s].at = job[s].from
  BY <1>1 DEF Shape, Bounds, Holdings
<1>3. Bounds(s)' /\ Holdings(s)'
  <2>2. Bounds(s)'
    BY <1>1, <1>4, LookupFields, JobFields, Numbers DEF Shape, Bounds, SameRead, log
  <2>3. Holdings(s)'
    BY <1>1, <1>4, LookupFields DEF Shape, Holdings, SameHolds, log
  <2> QED
    BY <2>2, <2>3
<1>5. Rest'
  <2>1. dropped' \in SUBSET Lines
    BY HandsRange DEF Lookup, Unlinked, Shape, TypeOK
  <2> QED
    BY <1>1, <2>1 DEF Shape, TypeOK, Rest, effects, log
<1> QED
  BY <1>1, <1>2, <1>3, <1>5, StillShape

LEMMA LookupFailsShape == ASSUME Shape, NEW s \in Scanners, LookupFails(s) PROVE Shape'
<1>1. job[s].pc = "lookup" /\ UNCHANGED <<log, position, effects, first, dropped, again, stopped, stops>>
  BY DEF LookupFails, Limited
<1>2. Alone(s)
  BY LookupFailsFields DEF Shape
<1>3. Bounds(s)' /\ Holdings(s)'
  <2>1. Bounds(s)'
    BY <1>1, LookupFailsFields, JobFields, Numbers DEF Shape, Bounds, SameRead, log
  <2>2. Holdings(s)'
    BY <1>1, LookupFailsFields, JobFields DEF Shape, Holdings, SameRead, SameFinds, SameHolds, log
  <2> QED
    BY <2>1, <2>2
<1>4. Rest'
  <2>1. faults' \in 0 .. MaxFaults
    BY LogAssumption DEF LookupFails, Shape, TypeOK
  <2> QED
    BY <1>1, <2>1 DEF Shape, TypeOK, Rest, effects, log
<1> QED
  BY <1>1, <1>2, <1>3, <1>4, StillShape

LEMMA HandleShape == ASSUME Shape, NEW s \in Scanners, Handle(s) PROVE Shape'
<1>1. job[s].pc = "lines" /\ UNCHANGED <<log, position, effects, first, again, stopped, stops, faults>>
  BY DEF Handle, Limited
<1>2. Alone(s)
  BY HandleFields DEF Shape
<1>3. Bounds(s)' /\ Holdings(s)'
  <2>1. Bounds(s)'
    BY <1>1, HandleFields, JobFields, Numbers DEF Shape, Bounds, SameRead, NextLine, log
  <2>2. Holdings(s)'
    BY <1>1, HandleFields, JobFields DEF Shape, Bounds, Holdings, SameRead, SameFinds, Link, Event, NextLine, log
  <2> QED
    BY <2>1, <2>2
<1>4. Rest'
  <2>1. dropped' \in SUBSET Lines
    BY DEF Handle, CleanupLines, Shape, TypeOK
  <2> QED
    BY <1>1, <2>1 DEF Shape, TypeOK, Rest, effects, log
<1> QED
  BY <1>1, <1>2, <1>3, <1>4, StillShape

LEMMA FlushLinksShape == ASSUME Shape, NEW s \in Scanners, FlushLinks(s) PROVE Shape'
<1>1. job[s].pc = "links" /\ UNCHANGED <<log, position, counted, written, first, again, stopped, stops>>
  BY DEF FlushLinks, Limited
<1>2. Alone(s)
  BY FlushLinksFields DEF Shape
<1>3. Bounds(s)' /\ Holdings(s)'
  <2>1. Bounds(s)'
    BY <1>1, FlushLinksFields, JobFields, Numbers DEF Shape, Bounds, SameRead, log
  <2>2. Holdings(s)'
    BY <1>1, FlushLinksFields, JobFields DEF Shape, Holdings, SameRead, SameFinds, SameHolds, log
  <2> QED
    BY <2>1, <2>2
<1>4. Rest'
  <2>1. faults' \in 0 .. MaxFaults /\ job[s].unwritten \subseteq remembered \cap Lines
    BY LogAssumption, JobFields DEF FlushLinks, Shape, TypeOK, Holdings, CleanupLines
  <2>2. linked' \in SUBSET remembered /\ dropped' \in SUBSET Lines
    BY <2>1 DEF FlushLinks, Shape, TypeOK
  <2> QED
    BY <1>1, <2>1, <2>2 DEF Shape, TypeOK, Rest, log
<1> QED
  BY <1>1, <1>2, <1>3, <1>4, StillShape

LEMMA FlushCountsShape == ASSUME Shape, NEW s \in Scanners, FlushCounts(s) PROVE Shape'
<1>1. job[s].pc = "counts" /\ UNCHANGED <<log, position, linked, written, first, dropped, again, stopped, stops>>
  BY DEF FlushCounts, Limited
<1>2. Alone(s)
  BY FlushCountsFields DEF Shape
<1>3. Bounds(s)' /\ Holdings(s)'
  <2>1. Bounds(s)'
    BY <1>1, FlushCountsFields, JobFields, Numbers DEF Shape, Bounds, SameRead, log
  <2>2. Holdings(s)'
    BY <1>1, FlushCountsFields, JobFields DEF Shape, Holdings, SameRead, SameFinds, SameHolds, log
  <2> QED
    BY <2>1, <2>2
<1>4. Rest'
  <2>1. faults' \in 0 .. MaxFaults
    BY LogAssumption DEF FlushCounts, Shape, TypeOK
  <2>2. counted' \in [Lines -> Nat]
    BY CountType DEF FlushCounts, Shape, TypeOK
  <2> QED
    BY <1>1, <2>1, <2>2 DEF Shape, TypeOK, Rest, log
<1> QED
  BY <1>1, <1>2, <1>3, <1>4, StillShape

LEMMA LimitInLookupShape == ASSUME Shape, NEW s \in Scanners, LimitInLookup(s) PROVE Shape'
<1>1. job[s].pc = "lookup" /\ UNCHANGED <<log, position, first, again, faults, effects, dropped, stopped>>
  BY DEF LimitInLookup, Limited
<1>2. Alone(s)
  BY LimitInLookupFields DEF Shape
<1>3. Bounds(s)' /\ Holdings(s)'
  <2>1. Bounds(s)'
    BY <1>1, LimitInLookupFields, JobFields, Numbers DEF Shape, Bounds, SameRead, log
  <2>2. Holdings(s)'
    BY <1>1, LimitInLookupFields, JobFields DEF Shape, Holdings, SameRead, SameFinds, SameHolds, log
  <2> QED
    BY <2>1, <2>2
<1>4. Rest'
  <2>1. stops' \in 0 .. MaxStops
    BY LogAssumption DEF LimitInLookup, Limited, Shape, TypeOK
  <2> QED
    BY <1>1, <2>1 DEF Shape, TypeOK, Rest, effects, log
<1> QED
  BY <1>1, <1>2, <1>3, <1>4, StillShape

LEMMA LimitInLineShape == ASSUME Shape, NEW s \in Scanners, LimitInLine(s) PROVE Shape'
<1>1. job[s].pc = "lines" /\ UNCHANGED <<log, position, first, again, faults, effects, dropped, stopped>>
  BY DEF LimitInLine, Limited
<1>2. Alone(s)
  BY LimitInLineFields DEF Shape
<1>3. Bounds(s)' /\ Holdings(s)'
  <2>1. Bounds(s)'
    BY <1>1, LimitInLineFields, JobFields, Numbers DEF Shape, Bounds, SameRead, log
  <2>2. Holdings(s)'
    <3>1. job'[s].counts \subseteq job[s].counts \cup {NextLine(s)}
      BY LimitInLineFields DEF Shape, Event
    <3>2. NextLine(s) \in (job[s].from + 1) .. job[s].to
      BY <1>1, JobFields DEF Shape, Bounds, NextLine
    <3>3. job'[s].counts \subseteq (job'[s].from + 1) .. job'[s].to
      BY <3>1, <3>2, LimitInLineFields DEF Shape, Holdings, SameRead
    <3> QED
      BY <1>1, <3>3, LimitInLineFields DEF Shape, Holdings, SameRead, SameFinds, log
  <2> QED
    BY <2>1, <2>2
<1>4. Rest'
  <2>1. stops' \in 0 .. MaxStops
    BY LogAssumption DEF LimitInLine, Limited, Shape, TypeOK
  <2> QED
    BY <1>1, <2>1 DEF Shape, TypeOK, Rest, effects, log
<1> QED
  BY <1>1, <1>2, <1>3, <1>4, StillShape

LEMMA LimitInLinksShape == ASSUME Shape, NEW s \in Scanners, LimitInLinks(s) PROVE Shape'
<1>1. job[s].pc = "links" /\ UNCHANGED <<log, position, first, again, faults, counted, written, dropped>>
  BY DEF LimitInLinks, Limited
<1>2. Alone(s)
  BY LimitInLinksFields DEF Shape
<1>3. Bounds(s)' /\ Holdings(s)'
  <2>1. Bounds(s)'
    BY <1>1, LimitInLinksFields, JobFields, Numbers DEF Shape, Bounds, SameRead, log
  <2>2. Holdings(s)'
    BY <1>1, LimitInLinksFields, JobFields DEF Shape, Holdings, SameRead, SameFinds, SameHolds, log
  <2> QED
    BY <2>1, <2>2
<1>4. Rest'
  <2>1. stops' \in 0 .. MaxStops
    BY LogAssumption DEF LimitInLinks, Limited, Shape, TypeOK
  <2>2. job[s].unwritten \subseteq remembered \cap Lines
    BY JobFields DEF Shape, Holdings, CleanupLines
  <2>3. linked' \in SUBSET remembered /\ stopped' \in SUBSET Lines
    BY <2>2 DEF LimitInLinks, Shape, TypeOK
  <2> QED
    BY <1>1, <2>1, <2>3 DEF Shape, TypeOK, Rest, log
<1> QED
  BY <1>1, <1>2, <1>3, <1>4, StillShape

LEMMA LimitInCountsShape == ASSUME Shape, NEW s \in Scanners, LimitInCounts(s) PROVE Shape'
<1>1. job[s].pc = "counts" /\ UNCHANGED <<log, position, first, again, faults, linked, written, dropped, stopped>>
  BY DEF LimitInCounts, Limited
<1>2. Alone(s)
  BY LimitInCountsFields DEF Shape
<1>3. Bounds(s)' /\ Holdings(s)'
  <2>1. Bounds(s)'
    BY <1>1, LimitInCountsFields, JobFields, Numbers DEF Shape, Bounds, SameRead, log
  <2>2. Holdings(s)'
    BY <1>1, LimitInCountsFields, JobFields DEF Shape, Holdings, SameRead, SameFinds, SameHolds, log
  <2> QED
    BY <2>1, <2>2
<1>4. Rest'
  <2>1. stops' \in 0 .. MaxStops
    BY LogAssumption DEF LimitInCounts, Limited, Shape, TypeOK
  <2>2. counted' \in [Lines -> Nat]
    BY CountType DEF LimitInCounts, Shape, TypeOK
  <2> QED
    BY <1>1, <2>1, <2>2 DEF Shape, TypeOK, Rest, log
<1> QED
  BY <1>1, <1>2, <1>3, <1>4, StillShape

LEMMA LimitInEventsShape == ASSUME Shape, NEW s \in Scanners, LimitInEvents(s) PROVE Shape'
<1>1. job[s].pc = "events" /\ UNCHANGED <<log, position, first, again, faults, linked, counted, dropped>>
  BY DEF LimitInEvents, Limited
<1>2. Alone(s)
  BY LimitInEventsFields DEF Shape
<1>3. Bounds(s)' /\ Holdings(s)'
  <2>1. Bounds(s)'
    BY <1>1, LimitInEventsFields, JobFields, Numbers DEF Shape, Bounds, SameRead, log
  <2>2. Holdings(s)'
    BY <1>1, LimitInEventsFields, JobFields DEF Shape, Holdings, SameRead, SameFinds, SameHolds, log
  <2> QED
    BY <2>1, <2>2
<1>4. Rest'
  <2>1. stops' \in 0 .. MaxStops
    BY LogAssumption DEF LimitInEvents, Limited, Shape, TypeOK
  <2>2. job[s].events \subseteq StatusLines /\ StatusLines \subseteq Lines
    BY JobFields DEF Shape, StatusLines
  <2>3. written' \in SUBSET StatusLines /\ stopped' \in SUBSET Lines
    BY <2>2 DEF LimitInEvents, Shape, TypeOK
  <2> QED
    BY <1>1, <2>1, <2>3 DEF Shape, TypeOK, Rest, log
<1> QED
  BY <1>1, <1>2, <1>3, <1>4, StillShape

LEMMA FlushEventsShape == ASSUME Shape, NEW s \in Scanners, FlushEvents(s) PROVE Shape'
<1>1. job[s].pc = "events" /\ UNCHANGED <<log, position, linked, counted, first, again, stopped, stops>>
  BY DEF FlushEvents
<1>2. Alone(s)
  BY FlushEventsFields DEF Shape
<1>3. Bounds(s)' /\ Holdings(s)'
  <2>1. CASE job'[s] = IdleJob
    BY <1>1, <2>1, IdleShape
  <2>2. CASE job'[s] # IdleJob
    <3>1. Bounds(s)'
      BY <1>1, <2>2, FlushEventsFields, JobFields, Numbers DEF Shape, Bounds, SameRead, log
    <3>2. Holdings(s)'
      BY <1>1, <2>2, FlushEventsFields, JobFields DEF Shape, Holdings, SameRead, SameFinds, log
    <3> QED
      BY <3>1, <3>2
  <2> QED
    BY <2>1, <2>2
<1>4. Rest'
  <2>1. PICK lost \in SUBSET job[s].events :
            /\ lost # {} => faults < MaxFaults
            /\ faults' = faults + (IF lost = {} THEN 0 ELSE 1)
            /\ written' = written \cup (job[s].events \ lost)
            /\ dropped' = dropped \cup lost
    BY DEF FlushEvents
  <2>2. faults' \in 0 .. MaxFaults
    BY <2>1, LogAssumption DEF Shape, TypeOK
  <2>3. written' \in SUBSET StatusLines /\ dropped' \in SUBSET Lines
    BY <2>1, JobFields DEF Shape, TypeOK, StatusLines
  <2> QED
    BY <1>1, <2>2, <2>3 DEF Shape, TypeOK, Rest, log
<1> QED
  BY <1>1, <1>2, <1>3, <1>4, StillShape

LEMMA LimitBeforeShape == ASSUME Shape, NEW s \in Scanners, LimitBefore(s) PROVE Shape'
<1>1. job[s].pc = "save" /\ UNCHANGED <<log, position, first, again, faults, effects, stopped>>
  BY DEF LimitBefore, Limited
<1>2. Alone(s) /\ job'[s] = IdleJob
  BY LetGo DEF LimitBefore, Limited, Shape
<1>3. Bounds(s)' /\ Holdings(s)'
  BY <1>1, <1>2, IdleShape
<1>4. Rest'
  <2>1. stops' \in 0 .. MaxStops
    BY LogAssumption DEF LimitBefore, Limited, Shape, TypeOK
  <2>2. dropped' \in SUBSET Lines
    BY HandsRange DEF LimitBefore, Orphans, Shape, TypeOK
  <2> QED
    BY <1>1, <2>1, <2>2 DEF Shape, TypeOK, Rest, effects, log
<1> QED
  BY <1>1, <1>2, <1>3, <1>4, StillShape

LEMMA LimitUnguardedShape == ASSUME Shape, NEW s \in Scanners, LimitUnguarded(s) PROVE Shape'
<1>1. job[s].pc # "idle" /\ UNCHANGED <<log, position, first, again, faults, effects, dropped>>
  BY DEF LimitUnguarded, Limited
<1>2. Alone(s) /\ job'[s] = IdleJob
  BY LetGo DEF LimitUnguarded, Limited, Shape
<1>3. Bounds(s)' /\ Holdings(s)'
  BY <1>1, <1>2, IdleShape
<1>4. Rest'
  <2>1. stops' \in 0 .. MaxStops
    BY LogAssumption DEF LimitUnguarded, Limited, Shape, TypeOK
  <2>2. stopped' \in SUBSET Lines
    BY HandsRange DEF LimitUnguarded, Orphans, Shape, TypeOK
  <2> QED
    BY <1>1, <2>1, <2>2 DEF Shape, TypeOK, Rest, effects, log
<1> QED
  BY <1>1, <1>2, <1>3, <1>4, StillShape

LEMMA KillShape == ASSUME Shape, NEW s \in Scanners, Kill(s) PROVE Shape'
<1>1. job[s].pc # "idle" /\ UNCHANGED <<log, position, first, again, effects, stopped, stops>>
  BY DEF Kill
<1>2. Alone(s) /\ job'[s] = IdleJob
  BY LetGo DEF Kill, Shape
<1>3. Bounds(s)' /\ Holdings(s)'
  BY <1>1, <1>2, IdleShape
<1>4. Rest'
  <2>1. faults' \in 0 .. MaxFaults
    BY LogAssumption DEF Kill, Shape, TypeOK
  <2>2. dropped' \in SUBSET Lines
    BY HandsRange DEF Kill, Orphans, Shape, TypeOK
  <2> QED
    BY <1>1, <2>1, <2>2 DEF Shape, TypeOK, Rest, effects, log
<1> QED
  BY <1>1, <1>2, <1>3, <1>4, StillShape

LEMMA RewindShape == ASSUME Shape, NEW s \in Scanners, Rewind(s) PROVE Shape'
<1>1. job[s].pc = "rewind" /\ UNCHANGED <<log, position, effects, first, dropped, again, stopped, stops, faults>>
  BY DEF Rewind
<1>2. Alone(s)
  BY RewindFields
<1>3. Bounds(s)' /\ Holdings(s)'
  <2>1. CASE job'[s] = IdleJob
    BY <1>1, <2>1, IdleShape
  <2>2. CASE job'[s] # IdleJob
    <3>1. position # None
      BY <1>1, IdleFields DEF Shape, Placed
    <3>2. /\ job'[s].from = job[s].from /\ job'[s].to = job[s].to /\ job'[s].at = job[s].at
          /\ job[s].to - job[s].at # 0
          /\ job'[s].pc = "reset" /\ job'[s].file = position.file /\ job'[s].seen = position.offset
      BY <2>2, RewindFields DEF Unhandled
    <3>3. position.file <= start /\ position.offset <= length /\ (position.file # start => position.offset <= start)
      BY <3>1, Numbers DEF Shape, Placed
    <3>4. Bounds(s)'
      BY <1>1, <3>2, <3>3, JobFields, Numbers DEF Shape, Bounds, log
    <3>5. Holdings(s)'
      BY <1>1, <2>2, RewindFields, JobFields DEF Shape, Holdings, SameFinds, SameHolds, log
    <3> QED
      BY <3>4, <3>5
  <2> QED
    BY <2>1, <2>2
<1>4. Rest'
  BY <1>1 DEF Shape, TypeOK, Rest, effects, log
<1> QED
  BY <1>1, <1>2, <1>3, <1>4, StillShape

\* Where a reset puts the position.
Back(s) == Max({job[s].file, job[s].seen - Unhandled(s)})

LEMMA ResetPlace ==
    ASSUME Shape, NEW s \in Scanners, Reset(s)
    PROVE  /\ Alone(s) /\ job[s].pc = "reset" /\ job'[s] = IdleJob
           /\ position' = [file |-> job[s].file, offset |-> Back(s)] /\ position' # None
           /\ job[s].file \in Nat /\ job[s].file <= start
           /\ Back(s) \in Nat /\ job[s].file <= Back(s) /\ Back(s) <= length
           /\ Back(s) = IF job[s].file <= job[s].seen - Unhandled(s) THEN job[s].seen - Unhandled(s) ELSE job[s].file
           /\ job[s].file # start => Back(s) <= start
           /\ NextRead(job[s].file, Back(s)) \in Nat /\ NextRead(job[s].file, Back(s)) <= length
           /\ Offset' = NextRead(job[s].file, Back(s))
<1>1. job[s].pc = "reset" /\ position' = [file |-> job[s].file, offset |-> Back(s)] /\ UNCHANGED log
  BY DEF Reset, Back
<1>2. Alone(s) /\ job'[s] = IdleJob
  <2>1. job' = [job EXCEPT ![s] = IdleJob]
    BY DEF Reset
  <2> QED
    BY <2>1, LetGo DEF Shape
<1>3. /\ job[s].file \in Nat /\ job[s].file <= start /\ job[s].seen \in Nat /\ job[s].seen <= length
      /\ Unhandled(s) \in Nat /\ Unhandled(s) > 0
      /\ job[s].file # start => job[s].seen <= start
  BY <1>1, JobFields, Numbers DEF Shape, Bounds, Unhandled
<1>4. Back(s) = IF job[s].file <= job[s].seen - Unhandled(s) THEN job[s].seen - Unhandled(s) ELSE job[s].file
  <2>1. job[s].file \in Int /\ job[s].seen - Unhandled(s) \in Int
    BY <1>3
  <2> HIDE DEF Unhandled
  <2> QED
    BY <2>1, MaxTwo DEF Back
<1>5. /\ Back(s) \in Nat /\ job[s].file <= Back(s) /\ Back(s) <= length
      /\ job[s].file # start => Back(s) <= start
  BY <1>3, <1>4, Numbers DEF Shape
<1>6. position' # None
  BY <1>1, <1>3, <1>5, PositionOf
<1>7. Offset' = NextRead(job[s].file, Back(s))
  BY <1>1, <1>6 DEF Offset, NextRead, log
<1>8. NextRead(job[s].file, Back(s)) \in Nat /\ NextRead(job[s].file, Back(s)) <= length
  BY <1>5, Numbers DEF Shape, NextRead
<1> QED
  BY <1>1, <1>2, <1>3, <1>4, <1>5, <1>6, <1>7, <1>8

LEMMA ResetShape == ASSUME Shape, NEW s \in Scanners, Reset(s) PROVE Shape'
<1>1. job[s].pc = "reset" /\ UNCHANGED <<log, effects, first, stopped, stops, faults>>
  BY DEF Reset
<1>2. Bounds(s)' /\ Holdings(s)'
  BY <1>1, ResetPlace, IdleShape
<1>3. position' \in {None} \cup [file : 0 .. length, offset : 0 .. length]
  BY ResetPlace, Numbers DEF Shape
<1>4. Placed'
  BY <1>1, ResetPlace DEF Placed, log
<1>5. Rest'
  <2> DEFINE next == NextRead(job[s].file, Back(s))
             own == (job[s].at + 1) .. job[s].to
  <2>1. next \in Nat
    BY ResetPlace
  <2> HIDE DEF next
  <2>2. (next + 1) .. Offset \subseteq Lines
    BY <2>1, HandsRange, Numbers DEF Shape, Lines
  <2>3. own \cup Ahead \subseteq Lines
    BY HandsRange, JobFields, Numbers DEF Shape, Bounds, Lines
  <2>4. /\ dropped' \subseteq dropped \cup own \cup Ahead
        /\ again' \subseteq again \cup (next + 1) .. Offset
    BY DEF Reset, Back, next
  <2> HIDE DEF own
  <2> QED
    BY <1>1, <2>2, <2>3, <2>4 DEF Shape, TypeOK, Rest, effects, log
<1> QED
  BY <1>1, <1>2, <1>3, <1>4, <1>5, ResetPlace, StepShape

LEMMA InitShape == Init => Shape
<1> SUFFICES ASSUME Init PROVE Shape
  OBVIOUS
<1>1. IdleJob \in Jobs
  BY LogAssumption DEF IdleJob, Jobs
<1>2. TypeOK
  BY <1>1, LogAssumption DEF Init, TypeOK
<1>3. Placed
  BY DEF Init, Placed
<1>4. ASSUME NEW s \in Scanners PROVE Bounds(s) /\ Holdings(s)
  BY <1>2, IdleFields DEF Init, Bounds, Holdings
<1> QED
  BY <1>2, <1>3, <1>4 DEF Shape

\* A step that changes nothing.
LEMMA StutterShape == ASSUME Shape, UNCHANGED vars PROVE Shape'
<1>1. TypeOK' /\ Placed'
  BY DEF Shape, TypeOK, Placed, vars, log, effects
<1>2. ASSUME NEW s \in Scanners PROVE Bounds(s)' /\ Holdings(s)'
  BY DEF Shape, Bounds, Holdings, vars, log, effects
<1> QED
  BY <1>1, <1>2 DEF Shape

\* One scan's steps, by name.
LEMMA ScanSteps ==
    ASSUME NEW s, Begin(s) \/ Scan(s) \/ SoftLimit(s) \/ Kill(s)
    PROVE  \/ FirstRun(s) \/ Read(s) \/ SavePosition(s) \/ Lookup(s) \/ LookupFails(s) \/ Handle(s)
           \/ FlushLinks(s) \/ FlushCounts(s) \/ FlushEvents(s) \/ Rewind(s) \/ Reset(s)
           \/ LimitBefore(s) \/ LimitUnguarded(s) \/ LimitInLookup(s) \/ LimitInLine(s)
           \/ LimitInLinks(s) \/ LimitInCounts(s) \/ LimitInEvents(s) \/ Kill(s)
BY DEF Begin, Scan, Flush, SoftLimit

LEMMA NextShape == ASSUME Shape, [Next]_vars PROVE Shape'
<1>1. CASE UNCHANGED vars
  BY <1>1, StutterShape
<1>2. CASE Append \/ Rotate \/ \E m \in CleanupLines : Remember(m)
  BY <1>2, AppendShape, RotateShape, RememberShape
<1>3. ASSUME NEW s \in Scanners, Begin(s) \/ Scan(s) \/ SoftLimit(s) \/ Kill(s)
      PROVE  Shape'
  BY <1>3, ScanSteps, FirstRunShape, ReadShape, SaveShape, LookupShape, LookupFailsShape, HandleShape,
     FlushLinksShape, FlushCountsShape, FlushEventsShape, RewindShape, ResetShape, LimitBeforeShape,
     LimitInLookupShape, LimitInLineShape, LimitInLinksShape, LimitInCountsShape, LimitInEventsShape,
     LimitUnguardedShape, KillShape
<1> QED
  BY <1>1, <1>2, <1>3 DEF Next

THEOREM ShapeAlways == Spec => []Shape
<1>1. Init => Shape
  BY InitShape
<1>2. Shape /\ [Next]_vars => Shape'
  BY NextShape
<1> QED
  BY <1>1, <1>2, PTL DEF Spec

\* Every variable keeps its type, whatever the scans, the log and the limits do: a
\* position never leaves the log, and only what was remembered is linked.
THEOREM TypeOKAlways == Spec => []TypeOK
<1>1. Shape => TypeOK
  BY DEF Shape
<1> QED
  BY <1>1, ShapeAlways, PTL

-----------------------------------------------------------------------------
(* Nothing is lost but what was given up.                                   *)

Loss == Shape /\ PassedSettled /\ \A s \in Scanners : HandledSettled(s) /\ KnowsQueues(s)

\* What is done or given up stays so.
Grows == /\ dropped \subseteq dropped' /\ stopped \subseteq stopped' /\ linked \subseteq linked'
         /\ written \subseteq written' /\ first' = first

LEMMA SettledStays ==
    ASSUME Grows, NEW l, Settled(l)
    PROVE  Settled(l)'
BY DEF Grows, Settled, GivenUp

\* A scan whose job a step leaves alone.
LEMMA OtherSettled ==
    ASSUME Loss, Grows, NEW o \in Scanners, job'[o] = job[o]
    PROVE  HandledSettled(o)' /\ KnowsQueues(o)'
<1>1. Hands(o)' = Hands(o)
  BY DEF Hands
<1>2. HandledSettled(o)'
  BY <1>1, SettledStays DEF Loss, Grows, HandledSettled
<1>3. KnowsQueues(o)'
  BY <1>1 DEF Loss, Grows, KnowsQueues, GivenUp
<1> QED
  BY <1>2, <1>3

\* A step of one scan: what it does to its own lines, and to those behind the position.
LEMMA StepSettled ==
    ASSUME Loss, Shape', Grows, NEW s \in Scanners, Alone(s),
           HandledSettled(s)', KnowsQueues(s)',
           \A l \in Passed' \ Passed : Settled(l)'
    PROVE  Loss'
<1>1. \A o \in Scanners \ {s} : HandledSettled(o)' /\ KnowsQueues(o)'
  BY OtherSettled DEF Alone
<1>2. PassedSettled'
  <2> SUFFICES ASSUME NEW l \in Passed' PROVE Settled(l)'
    BY DEF PassedSettled
  <2>1. CASE l \in Passed
    BY <2>1, SettledStays DEF Loss, PassedSettled
  <2> QED
    BY <2>1
<1> QED
  BY <1>1, <1>2 DEF Loss

\* The hands and the position are as they were.
LEMMA SamePassed ==
    ASSUME NEW s \in Scanners, Alone(s), SameRead(s), job[s].pc # "idle", job'[s].pc # "idle",
           UNCHANGED <<log, position, first>>
    PROVE  Passed' = Passed /\ Hands(s)' = Hands(s)
<1>1. \A o \in Scanners : Hands(o)' = Hands(o)
  BY DEF Alone, SameRead, Hands
<1>2. Offset' = Offset
  BY DEF Offset, NextRead, log
<1> QED
  BY <1>1, <1>2 DEF Passed

\* A scan lets go of its lines: those behind the position are looked at again.
LEMMA LetGoSettled ==
    ASSUME Loss, Shape', Grows, NEW s \in Scanners, Alone(s), job'[s] = IdleJob,
           \A l \in Lines : /\ position' # None /\ first < l /\ l <= Offset' /\ l \notin OtherHands(s)
                            /\ l \in Hands(s) \/ l > Offset \/ position = None
                            => Settled(l)'
    PROVE  Loss'
<1>1. Hands(s)' = {} /\ job'[s].pc = "idle"
  BY IdleFields DEF Loss, Shape, Hands
<1>2. HandledSettled(s)' /\ KnowsQueues(s)'
  BY <1>1 DEF HandledSettled, KnowsQueues
<1>3. ASSUME NEW l \in Passed' \ Passed PROVE Settled(l)'
  <2>1. l \in Lines /\ position' # None /\ first < l /\ l <= Offset'
    BY <1>3 DEF Passed, Grows
  <2>2. \A o \in Scanners \ {s} : l \notin Hands(o)
    BY <1>3 DEF Passed, Alone, Hands
  <2>3. l \notin OtherHands(s)
    BY <2>2 DEF OtherHands
  <2>4. l \in Nat /\ Offset \in Nat
    BY <2>1, HandsRange DEF Loss, Lines
  <2>5. l \in Hands(s) \/ l > Offset \/ position = None
    BY <1>3, <2>1, <2>2, <2>4 DEF Passed
  <2> QED
    BY <2>1, <2>3, <2>5
<1> QED
  BY <1>2, <1>3, StepSettled

LEMMA AppendLoss == ASSUME Loss, Append PROVE Loss'
<1>1. Grows /\ job' = job /\ Offset' = Offset /\ position' = position
  BY DEF Append, Grows, Offset, NextRead, effects
<1>2. \A o \in Scanners : HandledSettled(o)' /\ KnowsQueues(o)' /\ Hands(o)' = Hands(o)
  BY <1>1, OtherSettled DEF Hands
<1>3. PassedSettled'
  BY <1>1, <1>2, SettledStays DEF Loss, PassedSettled, Passed, Grows
<1> QED
  BY <1>2, <1>3, AppendShape DEF Loss

LEMMA RememberLoss == ASSUME Loss, NEW m \in CleanupLines, Remember(m) PROVE Loss'
<1>1. Grows /\ job' = job /\ Offset' = Offset /\ position' = position
  BY DEF Remember, Grows, Offset, NextRead, effects
<1>2. \A o \in Scanners : HandledSettled(o)' /\ KnowsQueues(o)' /\ Hands(o)' = Hands(o)
  BY <1>1, OtherSettled DEF Hands
<1>3. PassedSettled'
  BY <1>1, <1>2, SettledStays DEF Loss, PassedSettled, Passed, Grows
<1> QED
  BY <1>2, <1>3, RememberShape DEF Loss

LEMMA RotateLoss == ASSUME Loss, Rotate PROVE Loss'
<1>1. Grows /\ job' = job /\ position' = position /\ start' = length
      /\ dropped' = dropped \cup (Ahead \ UNION {Hands(s) : s \in Scanners})
  BY DEF Rotate, Grows, effects
<1>2. \A o \in Scanners : HandledSettled(o)' /\ KnowsQueues(o)' /\ Hands(o)' = Hands(o)
  BY <1>1, OtherSettled DEF Hands
<1>3. PassedSettled'
  <2> SUFFICES ASSUME NEW l \in Passed' PROVE Settled(l)'
    BY DEF PassedSettled
  <2>1. Shape' /\ length' = length
    BY RotateShape DEF Loss, Rotate
  <2>6. Offset' <= length
    BY <1>1, Numbers DEF Loss, Shape, Offset, NextRead
  <2>7. Offset' \in Nat
    BY <1>1, Numbers DEF Loss, Shape, Offset, NextRead
  <2>2. l \in Nat /\ l <= length
    BY <2>6, <2>7, Numbers DEF Loss, Shape, Passed
  <2>3. CASE l <= Offset
    BY <1>1, <1>2, <2>3, SettledStays DEF Loss, PassedSettled, Passed, Grows
  <2>4. CASE l > Offset
    <3>1. l \in Ahead
      BY <2>2, <2>4, HandsRange, OffsetRange, Numbers DEF Loss, Shape, Ahead
    <3>2. l \in dropped'
      BY <1>1, <1>2, <3>1 DEF Passed
    <3> QED
      BY <3>2 DEF Settled, GivenUp
  <2>5. Offset \in Nat
    BY OffsetRange DEF Loss, Shape
  <2> QED
    BY <2>2, <2>3, <2>4, <2>5
<1> QED
  BY <1>2, <1>3, RotateShape DEF Loss

\* The first run begins at the end of the log, with no scan on its way.
LEMMA FirstRunLoss == ASSUME Loss, NEW s \in Scanners, FirstRun(s) PROVE Loss'
<1>1. job' = job /\ position = None /\ first' = length /\ UNCHANGED log
      /\ position' = [file |-> start, offset |-> length]
  BY DEF FirstRun
<1>2. \A o \in Scanners : job[o].pc = "idle"
  BY <1>1, IdleFields DEF Loss, Shape, Placed
<1>3. \A o \in Scanners : HandledSettled(o)' /\ KnowsQueues(o)'
  BY <1>1, <1>2 DEF HandledSettled, KnowsQueues, Hands
<1>4. Offset' = length
  <2>1. position' # None
    BY <1>1, PositionOf, Numbers DEF Loss, Shape
  <2> QED
    BY <1>1, <2>1 DEF Offset, NextRead, log
<1>5. PassedSettled'
  BY <1>1, <1>4, Numbers DEF Loss, Shape, PassedSettled, Passed, Lines
<1> QED
  BY <1>3, <1>5, FirstRunShape DEF Loss

LEMMA ReadLoss == ASSUME Loss, NEW s \in Scanners, Read(s) PROVE Loss'
<1>1. Grows /\ UNCHANGED <<log, position, first>>
  BY DEF Read, Grows, effects
<1>2. Alone(s)
  BY ReadFields, ReadShape DEF Loss, Shape, Alone, TypeOK
<1>3. HandledSettled(s)' /\ KnowsQueues(s)'
  BY ReadFields, OffsetRange, Numbers DEF Loss, Shape, HandledSettled, KnowsQueues, Hands, Lines
<1>4. Passed' \subseteq Passed
  <2>1. Hands(s) = {}
    BY DEF Read, Hands
  <2>2. \A o \in Scanners : Hands(o) \subseteq Hands(o)'
    BY <1>2, <2>1 DEF Alone, Hands
  <2>3. Offset' = Offset
    BY <1>1 DEF Offset, NextRead, log
  <2> QED
    BY <1>1, <2>2, <2>3 DEF Passed
<1> QED
  BY <1>1, <1>2, <1>3, <1>4, ReadShape, StepSettled DEF Loss

LEMMA SaveLoss == ASSUME Loss, NEW s \in Scanners, SavePosition(s) PROVE Loss'
<1>1. Grows /\ UNCHANGED <<log, first>> /\ job[s].pc = "save"
      /\ (Offset + 1) .. job[s].from \ OtherHands(s) \subseteq dropped'
  BY DEF SavePosition, Grows, effects
<1>2. Alone(s) /\ job'[s].pc = "lookup" /\ job'[s].at = job[s].at /\ Hands(s)' = Hands(s)
  BY <1>1, SaveFields DEF Loss, Shape, SameRead, Hands
<1>3. job[s].at = job[s].from /\ position # None
  BY <1>1, IdleFields DEF Loss, Shape, Bounds, Placed
<1>4. HandledSettled(s)' /\ KnowsQueues(s)'
  <2>1. \A l \in Lines : ~(l \in Hands(s) /\ l <= job[s].at)
    BY <1>1, <1>3, JobFields, Numbers DEF Loss, Shape, Hands
  <2> QED
    BY <1>2, <2>1 DEF HandledSettled, KnowsQueues
<1>5. ASSUME NEW l \in Passed' \ Passed PROVE Settled(l)'
  <2>1. /\ job[s].file \in Nat /\ job[s].to \in Nat /\ job[s].from \in Nat /\ job[s].file <= start
        /\ job[s].file # start => job[s].to <= start
    BY <1>1, JobFields DEF Loss, Shape, Bounds
  <2>2. position' = [file |-> job[s].file, offset |-> job[s].to] /\ position' # None
    BY <2>1, PositionOf DEF SavePosition
  <2>3. Offset' = NextRead(job[s].file, job[s].to)
    BY <1>1, <2>2 DEF Offset, NextRead, log
  <2>4. \A o \in Scanners : Hands(o)' = Hands(o)
    BY <1>2 DEF Alone, Hands
  <2>5. l \in Lines /\ first < l /\ l <= Offset' /\ \A o \in Scanners : l \notin Hands(o)
    BY <1>1, <1>5, <2>4 DEF Passed
  <2>6. l \in Nat /\ Offset \in Nat /\ start <= Offset /\ start \in Nat
    BY <2>5, OffsetRange, Numbers DEF Loss, Shape
  <2>7. l > Offset
    BY <1>3, <1>5, <2>5, <2>6 DEF Passed
  <2>8. job[s].file = start /\ l <= job[s].to
    BY <2>1, <2>3, <2>5, <2>6, <2>7 DEF NextRead
  <2>9. l <= job[s].from
    BY <1>1, <2>1, <2>5, <2>6, <2>8 DEF Hands
  <2>10. l \notin OtherHands(s)
    BY <2>5 DEF OtherHands
  <2>11. l \in dropped'
    BY <1>1, <2>1, <2>6, <2>7, <2>9, <2>10
  <2> QED
    BY <2>11 DEF Settled, GivenUp
<1> QED
  BY <1>1, <1>2, <1>4, <1>5, SaveShape, StepSettled DEF Loss

LEMMA LookupLoss == ASSUME Loss, NEW s \in Scanners, Lookup(s) PROVE Loss'
<1>1. Grows /\ UNCHANGED <<log, position, first>> /\ job[s].pc = "lookup" /\ linked' = linked
      /\ dropped' = dropped \cup Unlinked(s)
  BY DEF Lookup, Grows, effects
<1>2. /\ Alone(s) /\ job'[s].pc = "lines" /\ job'[s].at = job[s].at /\ job'[s].from = job[s].from
      /\ job'[s].queues = linked /\ Passed' = Passed /\ Hands(s)' = Hands(s)
  BY <1>1, LookupFields, SamePassed DEF Loss, Shape, SameRead
<1>3. job[s].at = job[s].from /\ position # None
  BY <1>1, IdleFields DEF Loss, Shape, Bounds, Placed
<1>4. HandledSettled(s)'
  <2>1. \A l \in Lines : ~(l \in Hands(s) /\ l <= job[s].at)
    BY <1>1, <1>3, JobFields, Numbers DEF Loss, Shape, Hands
  <2> QED
    BY <1>2, <2>1 DEF HandledSettled
<1>5. KnowsQueues(s)'
  <2> SUFFICES ASSUME NEW l \in StatusLines, l \in Hands(s), first < Cleanup[l]
               PROVE  /\ Cleanup[l] <= job[s].from
                             => Cleanup[l] \in linked \cup GivenUp' \/ l \in dropped'
                      /\ ~(job[s].from < Cleanup[l] /\ Cleanup[l] <= job[s].from)
    BY <1>1, <1>2, <1>3 DEF KnowsQueues
  <2>1. Cleanup[l] \in CleanupLines /\ Cleanup[l] \in Nat
    BY LogAssumption DEF StatusLines, CleanupLines, Lines
  <2>2. job[s].from \in Nat /\ job[s].from <= length /\ Offset \in Nat
    BY JobFields, Numbers, OffsetRange DEF Loss, Shape, Bounds
  <2>3. ASSUME Cleanup[l] <= job[s].from, Cleanup[l] \notin linked, l \notin dropped'
        PROVE  Cleanup[l] \in GivenUp
    <3>1. Cleanup[l] \notin Hands(s)
      BY <1>1, <2>1, <2>2, <2>3 DEF Hands
    <3>2. Cleanup[l] \notin OtherHands(s) \cup Ahead
      BY <1>1, <2>3, <3>1 DEF Unlinked
    <3>3. Cleanup[l] <= Offset
      BY <2>1, <2>2, <2>3, <3>2, Numbers DEF Loss, Shape, Ahead
    <3>4. \A o \in Scanners : Cleanup[l] \notin Hands(o)
      BY <3>1, <3>2 DEF OtherHands
    <3>5. Cleanup[l] \in Passed
      BY <1>3, <2>1, <3>3, <3>4 DEF Passed, CleanupLines
    <3>6. Cleanup[l] \notin written /\ Cleanup[l] \notin StatusLines
      BY <2>1 DEF Loss, Shape, TypeOK, StatusLines
    <3> QED
      BY <2>3, <3>5, <3>6 DEF Loss, PassedSettled, Settled
  <2>4. ~(job[s].from < Cleanup[l] /\ Cleanup[l] <= job[s].from)
    BY <2>1, <2>2
  <2> QED
    BY <1>1, <2>3, <2>4 DEF GivenUp, Grows
<1> QED
  BY <1>1, <1>2, <1>4, <1>5, LookupShape, StepSettled DEF Loss

LEMMA LookupFailsLoss == ASSUME Loss, NEW s \in Scanners, LookupFails(s) PROVE Loss'
<1>1. Grows /\ UNCHANGED <<log, position, first>> /\ job[s].pc = "lookup"
  BY DEF LookupFails, Grows, effects
<1>2. /\ Alone(s) /\ job'[s].pc = "rewind" /\ job'[s].at = job[s].at
      /\ Passed' = Passed /\ Hands(s)' = Hands(s)
  BY <1>1, LookupFailsFields, SamePassed DEF Loss, Shape, SameRead
<1>3. HandledSettled(s)' /\ KnowsQueues(s)'
  <2>1. \A l \in Lines : ~(l \in Hands(s) /\ l <= job[s].at)
    BY <1>1, JobFields, Numbers DEF Loss, Shape, Bounds, Hands
  <2> QED
    BY <1>2, <2>1 DEF HandledSettled, KnowsQueues
<1> QED
  BY <1>1, <1>2, <1>3, LookupFailsShape, StepSettled DEF Loss

\* A line's message comes before it.
LEMMA CleanupBefore ==
    ASSUME NEW l \in StatusLines
    PROVE  Cleanup[l] \in CleanupLines /\ Cleanup[l] \in Nat /\ l \in Nat /\ Cleanup[l] < l
BY LogAssumption DEF StatusLines, CleanupLines, Lines

LEMMA HandleLoss == ASSUME Loss, NEW s \in Scanners, Handle(s) PROVE Loss'
<1>11. job[s].pc = "lines" /\ NextLine(s) \in Nat
  BY JobFields DEF Loss, Shape, Handle, NextLine
<1>12. PICK n \in Nat : n = NextLine(s)
  BY <1>11
<1>1. /\ Grows /\ UNCHANGED <<log, position, first>> /\ job[s].pc = "lines"
      /\ dropped' = dropped \cup (({n} \cap CleanupLines) \ job[s].known)
  BY <1>12 DEF Handle, Grows, effects, NextLine
<1>2. /\ Alone(s) /\ job'[s].pc \in {"lines", "links"} /\ job'[s].at = n /\ n = job[s].at + 1
      /\ job'[s].from = job[s].from /\ job'[s].queues = job[s].queues
      /\ job'[s].links = job[s].links \cup Link(s) /\ job'[s].unwritten = job[s].unwritten \cup Link(s)
      /\ job'[s].events = job[s].events \cup Event(s)
  BY <1>12, HandleFields DEF Loss, Shape, SameRead, SameFinds, NextLine
<1>3. Passed' = Passed /\ Hands(s)' = Hands(s)
  BY <1>1, <1>2, HandleFields, SamePassed DEF Loss, Shape
<1>4. job[s].at \in Nat /\ job[s].from \in Nat /\ job[s].from <= job[s].at /\ n \in Nat
  BY <1>2, JobFields DEF Loss, Shape, Bounds
<1>10. Link(s) = {n} \cap CleanupLines \cap job[s].known /\ Event(s) = IF Finds(s, n) THEN {n} ELSE {}
  BY <1>12 DEF Link, Event
<1>5. ASSUME n \in StatusLines, n \in Hands(s), first < n, ~Finds(s, n)
      PROVE  Settled(n)'
  <2>1. Cleanup[n] \in Nat /\ Cleanup[n] <= job[s].at /\ first \in Nat
    BY <1>2, <1>4, <1>5, CleanupBefore, Numbers DEF Loss, Shape
  <2>2. Cleanup[n] \notin job[s].links \cup job[s].queues
    BY <1>5 DEF Finds
  <2>3. CASE first < Cleanup[n]
    <3>1. Cleanup[n] \in GivenUp \/ n \in dropped
      BY <1>1, <1>4, <1>5, <2>1, <2>2, <2>3 DEF Loss, KnowsQueues, GivenUp
    <3> QED
      BY <1>1, <1>5, <3>1 DEF Settled, GivenUp, Grows
  <2>4. CASE Cleanup[n] <= first
    BY <1>1, <1>5, <2>4 DEF Settled, Grows
  <2> QED
    BY <2>1, <2>3, <2>4
<1>6. HandledSettled(s)'
  <2> SUFFICES ASSUME NEW l \in Lines, l \in Hands(s), first < l, l <= n
               PROVE  Settled(l)' \/ l \in job'[s].unwritten \cup job'[s].events
    BY <1>1, <1>2, <1>3 DEF HandledSettled
  <2>1. CASE l <= job[s].at
    <3>1. Settled(l) \/ l \in job[s].unwritten \cup job[s].events
      BY <2>1 DEF Loss, HandledSettled
    <3> QED
      BY <1>1, <1>2, <3>1, SettledStays
  <2>2. CASE l = n
    <3>1. CASE l \in StatusLines /\ ~Finds(s, n)
      BY <1>5, <2>2, <3>1
    <3>2. CASE l \in StatusLines /\ Finds(s, n)
      BY <1>2, <1>10, <2>2, <3>2
    <3>3. CASE l \in CleanupLines
      <4>1. l \in Link(s) \/ l \in dropped'
        BY <1>1, <1>10, <2>2, <3>3
      <4> QED
        BY <1>2, <4>1 DEF Settled, GivenUp
    <3> QED
      BY <3>1, <3>2, <3>3 DEF StatusLines
  <2>3. l \in Nat
    BY Numbers DEF Loss, Shape
  <2> QED
    BY <1>2, <1>4, <2>1, <2>2, <2>3
<1>7. KnowsQueues(s)'
  <2> SUFFICES ASSUME NEW l \in StatusLines, l \in Hands(s), first < Cleanup[l]
               PROVE  /\ Cleanup[l] <= job[s].from
                             => Cleanup[l] \in job[s].queues \cup GivenUp' \/ l \in dropped'
                      /\ job[s].from < Cleanup[l] /\ Cleanup[l] <= n
                             => Cleanup[l] \in (job[s].links \cup Link(s)) \cup dropped'
    BY <1>1, <1>2, <1>3 DEF KnowsQueues
  <2>1. /\ Cleanup[l] <= job[s].from => Cleanup[l] \in job[s].queues \cup GivenUp \/ l \in dropped
        /\ job[s].from < Cleanup[l] /\ Cleanup[l] <= job[s].at => Cleanup[l] \in job[s].links \cup dropped
    BY <1>1 DEF Loss, KnowsQueues
  <2>2. Cleanup[l] \in CleanupLines /\ Cleanup[l] \in Nat
    BY CleanupBefore
  <2>3. Cleanup[l] = n => Cleanup[l] \in Link(s) \cup dropped'
    BY <1>1, <1>10, <2>2
  <2>4. Cleanup[l] <= n => Cleanup[l] <= job[s].at \/ Cleanup[l] = n
    BY <1>2, <1>4, <2>2
  <2> QED
    BY <1>1, <2>1, <2>3, <2>4 DEF GivenUp, Grows
<1> QED
  BY <1>1, <1>2, <1>3, <1>6, <1>7, HandleShape, StepSettled DEF Loss

\* A step inside a flush, and the soft limit in it: what it takes from the scan's
\* lists is written or given up.
LEMMA FlushLoss ==
    ASSUME Loss, Shape', Grows, NEW s \in Scanners, Alone(s), SameRead(s), SameFinds(s),
           UNCHANGED <<log, position>>,
           job[s].pc \in {"lines", "links", "counts", "events"}, job'[s].pc # "idle",
           job'[s].at = job[s].at, job'[s].links = job[s].links,
           job[s].unwritten \cup job[s].events
              \subseteq job'[s].unwritten \cup job'[s].events \cup linked' \cup written' \cup dropped' \cup stopped'
    PROVE  Loss'
<1>1. Passed' = Passed /\ Hands(s)' = Hands(s)
  BY SamePassed DEF Grows
<1>2. HandledSettled(s)'
  <2> SUFFICES ASSUME NEW l \in Lines, l \in Hands(s), first < l, l <= job[s].at
               PROVE  Settled(l)' \/ l \in job'[s].unwritten \cup job'[s].events
    BY <1>1 DEF HandledSettled, Grows
  <2>1. Settled(l) \/ l \in job[s].unwritten \cup job[s].events
    BY DEF Loss, HandledSettled
  <2>2. CASE Settled(l)
    BY <2>2, SettledStays
  <2>3. CASE l \in job[s].unwritten \cup job[s].events
    BY <2>3 DEF Settled, GivenUp
  <2> QED
    BY <2>1, <2>2, <2>3
<1>3. KnowsQueues(s)'
  <2>1. KnowsQueues(s)
    BY DEF Loss
  <2> QED
    BY <1>1, <2>1 DEF KnowsQueues, SameRead, SameFinds, Grows, GivenUp
<1> QED
  BY <1>1, <1>2, <1>3, StepSettled

LEMMA FlushLinksLoss == ASSUME Loss, NEW s \in Scanners, FlushLinks(s) PROVE Loss'
<1>1. Grows /\ UNCHANGED <<log, position>>
  BY DEF FlushLinks, Grows
<1>2. job[s].unwritten \subseteq linked' \cup dropped'
  BY DEF FlushLinks
<1> QED
  BY <1>1, <1>2, FlushLinksFields, FlushLinksShape, FlushLoss DEF Loss, Shape

LEMMA FlushCountsLoss == ASSUME Loss, NEW s \in Scanners, FlushCounts(s) PROVE Loss'
<1>1. Grows /\ UNCHANGED <<log, position>>
  BY DEF FlushCounts, Grows
<1> QED
  BY <1>1, FlushCountsFields, FlushCountsShape, FlushLoss DEF Loss, Shape

LEMMA FlushEventsLoss == ASSUME Loss, NEW s \in Scanners, FlushEvents(s) PROVE Loss'
<1>1. /\ Grows /\ UNCHANGED <<log, position, linked>> /\ job[s].pc = "events"
      /\ job[s].events \subseteq written' \cup dropped'
  BY DEF FlushEvents, Grows
<1>2. CASE job'[s] = IdleJob /\ ~(job[s].at < job[s].to)
  <2>1. Offset' = Offset
    BY <1>1 DEF Offset, NextRead, log
  <2>2. ASSUME NEW l \in Lines, l \in Hands(s), first < l PROVE Settled(l)'
    <3>1. l <= job[s].at
      BY <1>1, <1>2, <2>2, JobFields, Numbers DEF Loss, Shape, Bounds, Hands
    <3>2. Settled(l) \/ l \in job[s].unwritten \cup job[s].events
      BY <2>2, <3>1 DEF Loss, HandledSettled
    <3>3. job[s].unwritten = {}
      BY <1>1 DEF Loss, Shape, Holdings
    <3>4. CASE Settled(l)
      BY <1>1, <3>4, SettledStays
    <3>5. CASE l \in job[s].events
      BY <1>1, <3>5 DEF Settled, GivenUp
    <3> QED
      BY <3>2, <3>3, <3>4, <3>5
  <2>3. \A l \in Lines : l <= Offset' => ~(l > Offset)
    BY <2>1, HandsRange, Numbers DEF Loss, Shape
  <2> QED
    BY <1>1, <1>2, <2>2, <2>3, FlushEventsFields, FlushEventsShape, LetGoSettled DEF Loss, Shape
<1>3. CASE job'[s].pc # "idle"
  <2>1. job'[s] # IdleJob
    BY <1>3, IdleFields DEF Loss, Shape
  <2> QED
    BY <1>1, <1>3, <2>1, FlushEventsFields, FlushEventsShape, FlushLoss DEF Loss, Shape
<1> QED
  BY <1>2, <1>3, FlushEventsFields DEF Loss, Shape

LEMMA LimitInLineLoss == ASSUME Loss, NEW s \in Scanners, LimitInLine(s) PROVE Loss'
<1>1. /\ Grows /\ UNCHANGED <<log, position>> /\ job[s].pc = "lines"
  BY DEF LimitInLine, Limited, Grows, effects
<1> QED
  BY <1>1, LimitInLineFields, LimitInLineShape, FlushLoss DEF Loss, Shape

LEMMA LimitInLinksLoss == ASSUME Loss, NEW s \in Scanners, LimitInLinks(s) PROVE Loss'
<1>1. /\ Grows /\ UNCHANGED <<log, position>> /\ job[s].pc = "links"
      /\ job[s].unwritten \subseteq linked' \cup stopped'
  BY DEF LimitInLinks, Limited, Grows, effects
<1> QED
  BY <1>1, LimitInLinksFields, LimitInLinksShape, FlushLoss DEF Loss, Shape

LEMMA LimitInCountsLoss == ASSUME Loss, NEW s \in Scanners, LimitInCounts(s) PROVE Loss'
<1>1. /\ Grows /\ UNCHANGED <<log, position>> /\ job[s].pc = "counts"
  BY DEF LimitInCounts, Limited, Grows, effects
<1> QED
  BY <1>1, LimitInCountsFields, LimitInCountsShape, FlushLoss DEF Loss, Shape

LEMMA LimitInEventsLoss == ASSUME Loss, NEW s \in Scanners, LimitInEvents(s) PROVE Loss'
<1>1. /\ Grows /\ UNCHANGED <<log, position>> /\ job[s].pc = "events"
      /\ job[s].events \subseteq written' \cup stopped'
  BY DEF LimitInEvents, Limited, Grows, effects
<1> QED
  BY <1>1, LimitInEventsFields, LimitInEventsShape, FlushLoss DEF Loss, Shape

LEMMA LimitInLookupLoss == ASSUME Loss, NEW s \in Scanners, LimitInLookup(s) PROVE Loss'
<1>1. Grows /\ UNCHANGED <<log, position, first>> /\ job[s].pc = "lookup"
  BY DEF LimitInLookup, Limited, Grows, effects
<1>2. /\ Alone(s) /\ job'[s].pc = "rewind" /\ job'[s].at = job[s].at
      /\ Passed' = Passed /\ Hands(s)' = Hands(s)
  BY <1>1, LimitInLookupFields, SamePassed DEF Loss, Shape, SameRead
<1>3. HandledSettled(s)' /\ KnowsQueues(s)'
  <2>1. \A l \in Lines : ~(l \in Hands(s) /\ l <= job[s].at)
    BY <1>1, JobFields, Numbers DEF Loss, Shape, Bounds, Hands
  <2> QED
    BY <1>2, <2>1 DEF HandledSettled, KnowsQueues
<1> QED
  BY <1>1, <1>2, <1>3, LimitInLookupShape, StepSettled DEF Loss

\* A scan dies: its lines that nobody comes to are given up.
LEMMA OrphansLoss ==
    ASSUME Loss, Shape', Grows, NEW s \in Scanners, Alone(s), job'[s] = IdleJob, job[s].pc # "idle",
           UNCHANGED <<log, position, linked, written>>,
           Offset = job[s].from \/ Orphans(s) \subseteq dropped' \cup stopped'
    PROVE  Loss'
<1>1. Offset' = Offset /\ position # None /\ Offset \in Nat
  BY OffsetRange, IdleFields DEF Loss, Shape, Placed, Offset, NextRead, log
<1>2. ASSUME NEW l \in Lines, first < l, l <= Offset, l \notin OtherHands(s), l \in Hands(s)
      PROVE  Settled(l)'
  <2>1. l \notin Ahead /\ Offset # job[s].from
    BY <1>1, <1>2, JobFields, Numbers DEF Loss, Shape, Ahead, Hands
  <2>2. l \in linked \cup written \cup dropped' \cup stopped'
    BY <1>2, <2>1 DEF Orphans
  <2> QED
    BY <2>2 DEF Settled, GivenUp
<1>3. \A l \in Lines : l <= Offset => ~(l > Offset)
  BY <1>1, Numbers DEF Loss, Shape
<1> QED
  BY <1>1, <1>2, <1>3, LetGoSettled

LEMMA LimitBeforeLoss == ASSUME Loss, NEW s \in Scanners, LimitBefore(s) PROVE Loss'
<1>1. Grows /\ UNCHANGED <<log, position, linked, written>> /\ job[s].pc = "save"
  BY DEF LimitBefore, Limited, Grows, effects
<1>2. Alone(s) /\ job'[s] = IdleJob
  BY LetGo DEF LimitBefore, Limited, Loss, Shape
<1>3. Offset = job[s].from \/ Orphans(s) \subseteq dropped'
  BY DEF LimitBefore
<1> QED
  BY <1>1, <1>2, <1>3, LimitBeforeShape, OrphansLoss DEF Loss

LEMMA LimitUnguardedLoss == ASSUME Loss, NEW s \in Scanners, LimitUnguarded(s) PROVE Loss'
<1>1. Grows /\ UNCHANGED <<log, position, linked, written>> /\ job[s].pc # "idle"
      /\ Orphans(s) \subseteq stopped'
  BY DEF LimitUnguarded, Limited, Grows, effects
<1>2. Alone(s) /\ job'[s] = IdleJob
  BY LetGo DEF LimitUnguarded, Limited, Loss, Shape
<1> QED
  BY <1>1, <1>2, LimitUnguardedShape, OrphansLoss DEF Loss

LEMMA KillLoss == ASSUME Loss, NEW s \in Scanners, Kill(s) PROVE Loss'
<1>1. Grows /\ UNCHANGED <<log, position, linked, written>> /\ job[s].pc # "idle"
      /\ Orphans(s) \subseteq dropped'
  BY DEF Kill, Grows, effects
<1>2. Alone(s) /\ job'[s] = IdleJob
  BY LetGo DEF Kill, Loss, Shape
<1> QED
  BY <1>1, <1>2, KillShape, OrphansLoss DEF Loss

\* The rewind lets go only when every line was handled.
LEMMA RewindLoss == ASSUME Loss, NEW s \in Scanners, Rewind(s) PROVE Loss'
<1>1. Grows /\ UNCHANGED <<log, position, first>> /\ job[s].pc = "rewind"
  BY DEF Rewind, Grows, effects
<1>2. job[s].unwritten = {} /\ job[s].events = {} /\ Alone(s) /\ Shape'
  BY <1>1, RewindFields, RewindShape DEF Loss, Shape, Holdings
<1>3. CASE job'[s] = IdleJob /\ Unhandled(s) = 0
  <2>1. Offset' = Offset
    BY <1>1 DEF Offset, NextRead, log
  <2>2. ASSUME NEW l \in Lines, l \in Hands(s), first < l PROVE Settled(l)'
    <3>1. l <= job[s].at
      BY <1>1, <1>3, <2>2, JobFields, Numbers DEF Loss, Shape, Hands, Unhandled
    <3>2. Settled(l)
      BY <1>2, <2>2, <3>1 DEF Loss, HandledSettled
    <3> QED
      BY <1>1, <3>2, SettledStays
  <2>3. \A l \in Lines : l <= Offset' => ~(l > Offset)
    BY <2>1, HandsRange, Numbers DEF Loss, Shape
  <2>4. position # None
    BY <1>1, IdleFields DEF Loss, Shape, Placed
  <2> QED
    BY <1>1, <1>2, <1>3, <2>2, <2>3, <2>4, LetGoSettled
<1>4. CASE Unhandled(s) # 0 /\ job'[s].pc = "reset" /\ job'[s].from = job[s].from
           /\ job'[s].to = job[s].to /\ job'[s].at = job[s].at /\ SameHolds(s)
  <2>1. \A o \in Scanners : Hands(o)' = Hands(o)
    BY <1>1, <1>2, <1>4 DEF Alone, Hands
  <2>2. Offset' = Offset
    BY <1>1 DEF Offset, NextRead, log
  <2>3. Passed' = Passed
    BY <1>1, <2>1, <2>2 DEF Passed
  <2>4. KnowsQueues(s)'
    BY <1>4 DEF KnowsQueues
  <2>5. HandledSettled(s)'
    BY <1>1, <1>4, <2>1, SettledStays DEF HandledSettled, Loss, SameHolds
  <2> QED
    BY <1>1, <1>2, <2>3, <2>4, <2>5, StepSettled
<1> QED
  BY <1>3, <1>4, RewindFields DEF Loss

\* An undisturbed reset puts the position back to where the scan is.
LEMMA UndisturbedPlace ==
    ASSUME Shape, NEW s \in Scanners, Reset(s), Undisturbed(s)
    PROVE  /\ Offset = job[s].to /\ Offset' = job[s].at
           /\ job[s].at \in Nat /\ job[s].to \in Nat /\ job[s].at < job[s].to
<1>1. /\ job[s].seen = job[s].to /\ start <= job[s].at
      /\ position.file = start /\ position.offset = job[s].to /\ position # None
  <2>1. start \in Nat /\ job[s].to \in Nat
    BY JobFields, Numbers DEF Shape
  <2> QED
    BY <2>1, PositionOf DEF Undisturbed
<1>2. /\ job[s].at \in Nat /\ job[s].to \in Nat /\ job[s].at < job[s].to /\ start \in Nat
      /\ job[s].file # start => job[s].seen <= start
  BY ResetPlace, JobFields, Numbers DEF Shape, Bounds
<1>3. job[s].file = start
  BY <1>1, <1>2
<1>4. job[s].seen - Unhandled(s) = job[s].at
  BY <1>1, <1>2 DEF Unhandled
<1>5. Back(s) = job[s].at
  BY <1>1, <1>2, <1>3, <1>4, ResetPlace
<1> QED
  BY <1>1, <1>2, <1>3, <1>5, ResetPlace DEF Offset, NextRead

LEMMA ResetLoss == ASSUME Loss, NEW s \in Scanners, Reset(s) PROVE Loss'
<1>1. Grows
  BY DEF Reset, Grows, effects
<1>2. /\ job[s].unwritten = {} /\ job[s].events = {} /\ Alone(s) /\ job'[s] = IdleJob /\ Shape'
      /\ job[s].at \in Nat /\ job[s].to \in Nat
  BY ResetPlace, ResetShape, JobFields DEF Loss, Shape, Holdings
<1>3. PICK next \in Nat : next = Offset' /\ next <= length /\ next = NextRead(job[s].file, Back(s))
  BY ResetPlace DEF Loss
<1>4. Offset \in Nat /\ length \in Nat /\ Lines \subseteq Nat
  BY OffsetRange, Numbers DEF Loss, Shape
<1>5. ASSUME NEW l \in Lines, l \in Hands(s), first < l, l <= job[s].at PROVE Settled(l)'
  <2>1. Settled(l)
    BY <1>2, <1>5 DEF Loss, HandledSettled
  <2> QED
    BY <1>1, <2>1, SettledStays
<1>6. ASSUME NEW l \in Lines, first < l, l <= next, l \notin OtherHands(s), l \in Hands(s) \/ l > Offset
      PROVE  Settled(l)'
  <2>1. CASE Undisturbed(s)
    <3>1. l <= job[s].at /\ ~(l > Offset)
      BY <1>3, <1>4, <1>6, <2>1, UndisturbedPlace DEF Loss
    <3> QED
      BY <1>5, <1>6, <3>1
  <2>2. CASE ~Undisturbed(s)
    <3> DEFINE own == (job[s].at + 1) .. job[s].to
    <3>1. (own \cup Ahead) \ ((next + 1) .. length \cup OtherHands(s)) \subseteq dropped'
      BY <1>3, <2>2 DEF Reset, Back
    <3>2. CASE l \in own \cup Ahead
      <4>1. l \notin (next + 1) .. length
        BY <1>3, <1>4, <1>6
      <4>2. l \in dropped'
        BY <1>6, <3>1, <3>2, <4>1
      <4> QED
        BY <4>2 DEF Settled, GivenUp
    <3>3. CASE l \notin own \cup Ahead
      <4>1. l \in Hands(s) /\ l <= job[s].at
        BY <1>2, <1>3, <1>4, <1>6, <3>3 DEF Ahead, Hands
      <4> QED
        BY <1>5, <1>6, <4>1
    <3> QED
      BY <3>2, <3>3
  <2> QED
    BY <2>1, <2>2
<1>7. position # None
  BY ResetPlace, IdleFields DEF Loss, Shape, Placed
<1> QED
  BY <1>1, <1>2, <1>3, <1>6, <1>7, LetGoSettled

LEMMA InitLoss == Init => Loss
<1> SUFFICES ASSUME Init PROVE Loss
  OBVIOUS
<1>1. Shape
  BY InitShape
<1>2. PassedSettled
  BY DEF Init, PassedSettled, Passed
<1>3. ASSUME NEW s \in Scanners PROVE HandledSettled(s) /\ KnowsQueues(s)
  BY <1>1, IdleFields DEF Init, Shape, HandledSettled, KnowsQueues, Hands
<1> QED
  BY <1>1, <1>2, <1>3 DEF Loss

LEMMA StutterLoss == ASSUME Loss, UNCHANGED vars PROVE Loss'
<1>1. Shape'
  BY StutterShape DEF Loss
<1>2. Grows /\ job' = job /\ Offset' = Offset /\ position' = position
  BY DEF Grows, Offset, NextRead, vars, log, effects
<1>3. \A o \in Scanners : HandledSettled(o)' /\ KnowsQueues(o)' /\ Hands(o)' = Hands(o)
  BY <1>2, OtherSettled DEF Hands
<1>4. PassedSettled'
  BY <1>2, <1>3, SettledStays DEF Loss, PassedSettled, Passed, Grows
<1> QED
  BY <1>1, <1>3, <1>4 DEF Loss

LEMMA NextLoss == ASSUME Loss, [Next]_vars PROVE Loss'
<1>1. CASE UNCHANGED vars
  BY <1>1, StutterLoss
<1>2. CASE Append \/ Rotate \/ \E m \in CleanupLines : Remember(m)
  BY <1>2, AppendLoss, RotateLoss, RememberLoss
<1>3. ASSUME NEW s \in Scanners, Begin(s) \/ Scan(s) \/ SoftLimit(s) \/ Kill(s)
      PROVE  Loss'
  BY <1>3, ScanSteps, FirstRunLoss, ReadLoss, SaveLoss, LookupLoss, LookupFailsLoss, HandleLoss,
     FlushLinksLoss, FlushCountsLoss, FlushEventsLoss, RewindLoss, ResetLoss, LimitBeforeLoss,
     LimitInLookupLoss, LimitInLineLoss, LimitInLinksLoss, LimitInCountsLoss, LimitInEventsLoss,
     LimitUnguardedLoss, KillLoss
<1> QED
  BY <1>1, <1>2, <1>3 DEF Next

\* Whatever the position went through, with any number of scans that overlap, any
\* rotations, kills, errors and limits: a line behind it, in nobody's hands, has its
\* event, or was given up in one of the ways that are known.
THEOREM NothingSkippedAlways == Spec => []NothingSkipped
<1>1. Init => Loss
  BY InitLoss
<1>2. Loss /\ [Next]_vars => Loss'
  BY NextLoss
<1>3. Loss => NothingSkipped
  <2> SUFFICES ASSUME Loss, NEW l \in Passed, Kept(l, dropped \cup stopped) PROVE l \in written
    BY DEF NothingSkipped
  <2>1. l \in StatusLines /\ first < Cleanup[l] /\ {l, Cleanup[l]} \cap (dropped \cup stopped) = {}
    BY DEF Kept
  <2>2. Settled(l)
    BY DEF Loss, PassedSettled
  <2>3. l \notin linked
    BY <2>1 DEF Loss, Shape, TypeOK, StatusLines
  <2>4. ~(Cleanup[l] <= first)
    BY <2>1, CleanupBefore, Numbers DEF Loss, Shape
  <2> QED
    BY <2>1, <2>2, <2>3, <2>4 DEF Settled, GivenUp
<1> QED
  BY <1>1, <1>2, <1>3, PTL DEF Spec

-----------------------------------------------------------------------------
(* A soft limit has at most one line counted again.                         *)

One == Shape /\ OneHand /\ FewRepeats

LEMMA SightNat ==
    ASSUME Shape, NEW l \in Lines
    PROVE  Sight(l) \in Nat /\ counted[l] \in Nat
BY DEF Shape, TypeOK, Sight

LEMMA RepeatsFinite ==
    ASSUME Shape
    PROVE  IsFiniteSet(Repeats) /\ Cardinality(Repeats) \in Nat
<1> DEFINE n == [l \in Lines |-> Sight(l)]
<1>1. n \in [Lines -> Nat]
  BY SightNat
<1>2. IsFiniteSet(Lines)
  <2>1. 1 \in Int /\ LogLength \in Int
    BY LogAssumption
  <2> QED
    BY <2>1, FS_Interval DEF Lines
<1>3. Repeats \subseteq Spots(n, Lines)
  BY DEF Repeats, Spots
<1> HIDE DEF n
<1>4. IsFiniteSet(Spots(n, Lines))
  BY <1>1, <1>2, SpotsFinite
<1>5. IsFiniteSet(Repeats)
  BY <1>3, <1>4, FS_Subset
<1> QED
  BY <1>5, FS_CardinalityType

\* No line is seen more often.
LEMMA NoMore ==
    ASSUME One, Shape', again \subseteq again', stops <= stops',
           \A l \in Lines \ again' : Sight(l)' <= Sight(l)
    PROVE  FewRepeats'
<1>1. Repeats' \subseteq Repeats
  <2> SUFFICES ASSUME NEW l \in Lines \ again', NEW i \in 2 .. Sight(l)'
               PROVE  l \notin again /\ i \in 2 .. Sight(l)
    BY DEF Repeats
  <2>1. Sight(l) \in Nat /\ Sight(l)' \in Nat
    <3>1. Sight(l)' \in Nat
      BY DEF Shape, TypeOK, Sight
    <3> QED
      BY <3>1, SightNat DEF One
  <2> QED
    BY <2>1
<1>2. IsFiniteSet(Repeats) /\ Cardinality(Repeats) \in Nat
  BY RepeatsFinite DEF One
<1>3. Cardinality(Repeats') <= Cardinality(Repeats) /\ Cardinality(Repeats') \in Nat
  BY <1>1, <1>2, FS_Subset, FS_CardinalityType
<1>4. stops \in Nat /\ stops' \in Nat
  BY LogAssumption DEF One, Shape, TypeOK
<1> QED
  BY <1>2, <1>3, <1>4 DEF One, FewRepeats

\* Nothing is counted, nothing more is to be counted or handled.
LEMMA SightLess ==
    ASSUME Shape, NEW l \in Lines, counted'[l] = counted[l], Held(l)' => Held(l), Pending(l)' => Pending(l)
    PROVE  Sight(l)' <= Sight(l)
<1>1. counted[l] \in Nat
  BY SightNat
<1> QED
  BY <1>1 DEF Sight

\* The lines in a scan's hands, when no position moves.
LEMMA QuietHands ==
    ASSUME One, NEW s \in Scanners, Alone(s), UNCHANGED <<log, position, again>>,
           job[s].pc # "idle",
           \/ job'[s] = IdleJob
           \/ /\ job[s].pc # "save" /\ job'[s].pc \notin {"idle", "save"}
              /\ job'[s].from = job[s].from /\ job'[s].to = job[s].to
    PROVE  OneHand' /\ Offset' = Offset
<1>1. Offset' = Offset
  BY DEF Offset, NextRead, log
<1>2. ASSUME NEW o \in Scanners
      PROVE  Hands(o)' \subseteq Hands(o) /\ (job'[o].pc \notin {"idle", "save"} => job[o].pc # "save")
  <2>1. CASE o # s
    BY <2>1 DEF Alone, Hands
  <2>2. CASE o = s /\ job'[s] = IdleJob
    BY <2>2, IdleFields DEF One, Shape, Hands
  <2>3. CASE o = s /\ job'[s] # IdleJob
    BY <2>3 DEF Hands
  <2> QED
    BY <2>1, <2>2, <2>3
<1>3. \A o \in Scanners : job'[o].pc = "idle" => Hands(o)' = {}
  BY DEF Hands
<1> QED
  BY <1>1, <1>2, <1>3 DEF One, OneHand

\* A step that lets go of a job or goes on with it, where nothing is counted.
LEMMA QuietOne ==
    ASSUME One, Shape', NEW s \in Scanners, Alone(s), UNCHANGED <<log, position, again, counted>>,
           stops <= stops', job[s].pc # "idle",
           \/ job'[s] = IdleJob
           \/ /\ job[s].pc # "save" /\ job'[s].pc \notin {"idle", "save"} /\ job'[s].counts \subseteq job[s].counts
              /\ job'[s].from = job[s].from /\ job'[s].to = job[s].to /\ job'[s].at = job[s].at
    PROVE  One'
<1>1. OneHand' /\ Offset' = Offset
  BY QuietHands
<1>2. ASSUME NEW l \in Lines \ again' PROVE Sight(l)' <= Sight(l)
  <2>1. job'[s].counts \subseteq job[s].counts
    BY IdleFields DEF One, Shape
  <2>2. Held(l)' => Held(l)
    BY <2>1 DEF Held, Alone
  <2>3. job'[s].at < l /\ l <= job'[s].to => job[s].at < l /\ l <= job[s].to
    BY IdleFields, Numbers DEF One, Shape
  <2>4. Pending(l)' => Pending(l)
    BY <1>1, <2>3 DEF Pending, Alone
  <2> QED
    BY <2>2, <2>4, SightLess DEF One
<1>3. FewRepeats'
  BY <1>2, NoMore
<1> QED
  BY <1>1, <1>3 DEF One

LEMMA AppendOne == ASSUME One, Append PROVE One'
<1>1. /\ UNCHANGED <<job, again, counted, stops>> /\ Shape' /\ Offset' = Offset
  BY AppendShape DEF Append, One, effects, Offset, NextRead
<1>2. OneHand'
  BY <1>1 DEF One, OneHand, Hands
<1>3. ASSUME NEW l \in Lines PROVE Sight(l)' <= Sight(l)
  BY <1>1, SightLess DEF One, Held, Pending
<1>4. stops <= stops'
  BY <1>1, LogAssumption DEF One, Shape, TypeOK
<1> QED
  BY <1>1, <1>2, <1>3, <1>4, NoMore DEF One

LEMMA RememberOne == ASSUME One, NEW m \in CleanupLines, Remember(m) PROVE One'
<1>1. /\ UNCHANGED <<job, again, counted, stops>> /\ Shape' /\ Offset' = Offset
  BY RememberShape DEF Remember, One, effects, Offset, NextRead
<1>2. OneHand'
  BY <1>1 DEF One, OneHand, Hands
<1>3. ASSUME NEW l \in Lines PROVE Sight(l)' <= Sight(l)
  BY <1>1, SightLess DEF One, Held, Pending
<1>4. stops <= stops'
  BY <1>1, LogAssumption DEF One, Shape, TypeOK
<1> QED
  BY <1>1, <1>2, <1>3, <1>4, NoMore DEF One

\* The position goes to the end of the log, or to a new file: never back.
LEMMA RotateOne == ASSUME One, Rotate PROVE One'
<1>1. /\ UNCHANGED <<job, again, counted, stops, position, length>> /\ Shape' /\ start' = length
  BY RotateShape DEF Rotate, One, effects
<1>2. Offset' = length \/ position = None
  BY <1>1, Numbers DEF One, Shape, Offset, NextRead, Placed, Rotate
<1>3. Offset \in Nat /\ Offset <= length /\ length \in Nat /\ Offset' \in Nat /\ Offset <= Offset'
  <2>1. Offset' = length
    BY <1>1, <1>2 DEF Offset
  <2> QED
    BY <2>1, OffsetRange, Numbers DEF One, Shape
<1>4. OneHand'
  BY <1>1, <1>3, Numbers DEF One, Shape, OneHand, Hands
<1>5. ASSUME NEW l \in Lines PROVE Sight(l)' <= Sight(l)
  <2>1. Pending(l)' => Pending(l)
    BY <1>1, <1>3, Numbers DEF One, Shape, Pending
  <2> QED
    BY <1>1, <2>1, SightLess DEF One, Held
<1>6. stops <= stops'
  BY <1>1, LogAssumption DEF One, Shape, TypeOK
<1> QED
  BY <1>1, <1>4, <1>5, <1>6, NoMore DEF One

LEMMA FirstRunOne == ASSUME One, NEW s \in Scanners, FirstRun(s) PROVE One'
<1>1. /\ UNCHANGED <<job, again, counted, stops, length, start>> /\ Shape' /\ position = None
      /\ position' = [file |-> start, offset |-> length]
  BY FirstRunShape DEF FirstRun, One, effects, log
<1>2. Offset' = length
  <2>1. position' # None
    BY <1>1, PositionOf, Numbers DEF One, Shape
  <2> QED
    BY <1>1, <2>1 DEF Offset, NextRead
<1>3. Offset \in Nat /\ length \in Nat /\ Offset <= Offset'
  BY <1>2, OffsetRange, Numbers DEF One, Shape
<1>4. OneHand'
  BY <1>1, <1>2, <1>3, Numbers DEF One, Shape, OneHand, Hands
<1>5. ASSUME NEW l \in Lines PROVE Sight(l)' <= Sight(l)
  <2>1. Pending(l)' => Pending(l)
    BY <1>1, <1>2, <1>3, Numbers DEF One, Shape, Pending
  <2> QED
    BY <1>1, <2>1, SightLess DEF One, Held
<1>6. stops <= stops'
  BY <1>1, LogAssumption DEF One, Shape, TypeOK
<1> QED
  BY <1>1, <1>4, <1>5, <1>6, NoMore DEF One

LEMMA LookupFailsOne == ASSUME One, NEW s \in Scanners, LookupFails(s) PROVE One'
<1>1. UNCHANGED <<log, position, again, counted>> /\ stops <= stops' /\ job[s].pc \notin {"idle", "save"}
  BY LogAssumption DEF LookupFails, Limited, effects, One, Shape, TypeOK
<1> QED
  BY <1>1, LookupFailsShape, LookupFailsFields, QuietOne DEF One, Shape, SameRead, SameHolds

LEMMA FlushLinksOne == ASSUME One, NEW s \in Scanners, FlushLinks(s) PROVE One'
<1>1. UNCHANGED <<log, position, again, counted>> /\ stops <= stops' /\ job[s].pc \notin {"idle", "save"}
  BY LogAssumption DEF FlushLinks, Limited, effects, One, Shape, TypeOK
<1> QED
  BY <1>1, FlushLinksShape, FlushLinksFields, QuietOne DEF One, Shape, SameRead, SameHolds

LEMMA LimitInLookupOne == ASSUME One, NEW s \in Scanners, LimitInLookup(s) PROVE One'
<1>1. UNCHANGED <<log, position, again, counted>> /\ stops <= stops' /\ job[s].pc \notin {"idle", "save"}
  BY LogAssumption DEF LimitInLookup, Limited, effects, One, Shape, TypeOK
<1> QED
  BY <1>1, LimitInLookupShape, LimitInLookupFields, QuietOne DEF One, Shape, SameRead, SameHolds

LEMMA LimitInLinksOne == ASSUME One, NEW s \in Scanners, LimitInLinks(s) PROVE One'
<1>1. UNCHANGED <<log, position, again, counted>> /\ stops <= stops' /\ job[s].pc \notin {"idle", "save"}
  BY LogAssumption DEF LimitInLinks, Limited, effects, One, Shape, TypeOK
<1> QED
  BY <1>1, LimitInLinksShape, LimitInLinksFields, QuietOne DEF One, Shape, SameRead, SameHolds

LEMMA LimitInEventsOne == ASSUME One, NEW s \in Scanners, LimitInEvents(s) PROVE One'
<1>1. UNCHANGED <<log, position, again, counted>> /\ stops <= stops' /\ job[s].pc \notin {"idle", "save"}
  BY LogAssumption DEF LimitInEvents, Limited, effects, One, Shape, TypeOK
<1> QED
  BY <1>1, LimitInEventsShape, LimitInEventsFields, QuietOne DEF One, Shape, SameRead, SameHolds

LEMMA RewindOne == ASSUME One, NEW s \in Scanners, Rewind(s) PROVE One'
<1>1. UNCHANGED <<log, position, again, counted>> /\ stops <= stops' /\ job[s].pc \notin {"idle", "save"}
  BY LogAssumption DEF Rewind, Limited, effects, One, Shape, TypeOK
<1> QED
  BY <1>1, RewindShape, RewindFields, QuietOne DEF One, Shape, SameRead, SameHolds

LEMMA LookupOne == ASSUME One, NEW s \in Scanners, Lookup(s) PROVE One'
<1>1. UNCHANGED <<log, position, again, counted>> /\ stops <= stops' /\ job[s].pc \notin {"idle", "save"}
  BY LogAssumption DEF Lookup, Limited, effects, One, Shape, TypeOK
<1> QED
  BY <1>1, LookupShape, LookupFields, QuietOne DEF One, Shape, SameRead, SameHolds

LEMMA FlushEventsOne == ASSUME One, NEW s \in Scanners, FlushEvents(s) PROVE One'
<1>1. UNCHANGED <<log, position, again, counted>> /\ stops <= stops' /\ job[s].pc \notin {"idle", "save"}
  BY LogAssumption DEF FlushEvents, One, Shape, TypeOK
<1>2. job'[s].pc \notin {"idle", "save"} \/ job'[s] = IdleJob
  BY FlushEventsFields DEF One, Shape
<1> QED
  BY <1>1, <1>2, FlushEventsShape, FlushEventsFields, QuietOne DEF One, Shape, SameRead

LEMMA LimitBeforeOne == ASSUME One, NEW s \in Scanners, LimitBefore(s) PROVE One'
<1>1. UNCHANGED <<log, position, again, counted>> /\ stops <= stops' /\ job[s].pc # "idle"
  BY LogAssumption DEF LimitBefore, Limited, effects, One, Shape, TypeOK
<1>2. Alone(s) /\ job'[s] = IdleJob
  BY LetGo DEF LimitBefore, Limited, One, Shape
<1> QED
  BY <1>1, <1>2, LimitBeforeShape, QuietOne DEF One

LEMMA LimitUnguardedOne == ASSUME One, NEW s \in Scanners, LimitUnguarded(s) PROVE One'
<1>1. UNCHANGED <<log, position, again, counted>> /\ stops <= stops' /\ job[s].pc # "idle"
  BY LogAssumption DEF LimitUnguarded, Limited, effects, One, Shape, TypeOK
<1>2. Alone(s) /\ job'[s] = IdleJob
  BY LetGo DEF LimitUnguarded, Limited, One, Shape
<1> QED
  BY <1>1, <1>2, LimitUnguardedShape, QuietOne DEF One

LEMMA KillOne == ASSUME One, NEW s \in Scanners, Kill(s) PROVE One'
<1>1. UNCHANGED <<log, position, again, counted>> /\ stops <= stops' /\ job[s].pc # "idle"
  BY LogAssumption DEF Kill, Limited, effects, One, Shape, TypeOK
<1>2. Alone(s) /\ job'[s] = IdleJob
  BY LetGo DEF Kill, Limited, One, Shape
<1> QED
  BY <1>1, <1>2, KillShape, QuietOne DEF One

\* What a read takes that another scan has is read again.
LEMMA ReadOne == ASSUME One, NEW s \in Scanners, Read(s) PROVE One'
<1>1. /\ UNCHANGED <<log, position, counted, stops>> /\ Shape' /\ Alone(s) /\ Offset' = Offset
      /\ again' = again \cup (Hands(s)' \cap OtherHands(s)) /\ Hands(s) = {}
  <2>1. Alone(s)
    BY ReadFields, ReadShape DEF One, Shape, Alone, TypeOK
  <2> QED
    BY <2>1, ReadShape DEF Read, One, Offset, NextRead, log, effects, Hands
<1>2. \A o \in Scanners \ {s} : job'[o] = job[o] /\ Hands(o)' = Hands(o)
  BY <1>1 DEF Alone, Hands
<1>3. OneHand'
  <2> SUFFICES ASSUME NEW l \in Lines \ again', NEW o \in Scanners, l \in Hands(o)'
               PROVE  /\ \A p \in Scanners \ {o} : l \notin Hands(p)'
                      /\ job'[o].pc # "save" => l <= Offset
    BY <1>1 DEF OneHand
  <2>1. CASE o = s
    BY <1>1, <1>2, <2>1, ReadFields DEF One, OtherHands
  <2>2. CASE o # s
    <3>1. l \notin Hands(s)'
      BY <1>1, <1>2, <2>2 DEF OtherHands
    <3> QED
      BY <1>1, <1>2, <2>2, <3>1 DEF One, OneHand
  <2> QED
    BY <2>1, <2>2
<1>4. ASSUME NEW l \in Lines PROVE Sight(l)' <= Sight(l)
  <2>1. Held(l)' => Held(l)
    BY <1>2, ReadFields DEF One, Held
  <2>2. Pending(l)' => Pending(l)
    BY <1>1, <1>2, ReadFields, Numbers, OffsetRange DEF One, Shape, Pending
  <2> QED
    BY <1>1, <2>1, <2>2, SightLess DEF One
<1>5. stops <= stops'
  BY <1>1, LogAssumption DEF One, Shape, TypeOK
<1> QED
  BY <1>1, <1>3, <1>4, <1>5, NoMore DEF One

\* A position that goes back has lines read again.
LEMMA SaveOne == ASSUME One, NEW s \in Scanners, SavePosition(s) PROVE One'
<1>0. PICK next : next = NextRead(job[s].file, job[s].to)
  OBVIOUS
<1>1. /\ UNCHANGED <<log, counted, stops>> /\ Shape' /\ Alone(s) /\ job[s].pc = "save"
      /\ again' = again \cup (next + 1) .. Offset
      /\ SameRead(s) /\ SameHolds(s) /\ job'[s].at = job[s].at /\ job'[s].pc = "lookup"
  BY <1>0, SaveShape, SaveFields DEF SavePosition, One, Shape, effects
<1>2. /\ job[s].file \in Nat /\ job[s].to \in Nat /\ start \in Nat
      /\ job[s].file # start => job[s].to <= start
  BY <1>1, JobFields, Numbers DEF One, Shape, Bounds
<1>3. Offset' = next /\ next \in Nat /\ job[s].to <= next /\ Offset \in Nat
  <2>1. position' = [file |-> job[s].file, offset |-> job[s].to] /\ position' # None
    BY <1>2, PositionOf DEF SavePosition
  <2>2. Offset' = next
    BY <1>0, <1>1, <2>1 DEF Offset, NextRead, log
  <2> QED
    BY <1>0, <1>2, <2>2, OffsetRange DEF One, Shape, NextRead
<1>4. \A o \in Scanners : Hands(o)' = Hands(o) /\ job'[o].at = job[o].at /\ job'[o].to = job[o].to
                          /\ job'[o].counts = job[o].counts /\ (o # s => job'[o].pc = job[o].pc)
  BY <1>1 DEF Alone, SameRead, SameHolds, Hands
<1>5. \A l \in Lines \ again' : l <= Offset => l <= next
  BY <1>1, <1>3, Numbers DEF One, Shape
<1>6. OneHand'
  <2> SUFFICES ASSUME NEW l \in Lines \ again', NEW o \in Scanners, l \in Hands(o)
               PROVE  /\ \A p \in Scanners \ {o} : l \notin Hands(p)
                      /\ job'[o].pc # "save" => l <= next
    BY <1>3, <1>4 DEF OneHand
  <2>1. l \in Lines \ again
    BY <1>1
  <2>2. CASE o = s
    <3>1. l <= next
      BY <1>2, <1>3, <2>2, Numbers DEF One, Shape, Hands
    <3> QED
      BY <2>1, <3>1 DEF One, OneHand
  <2>3. CASE o # s
    BY <1>4, <1>5, <2>1, <2>3 DEF One, OneHand
  <2> QED
    BY <2>2, <2>3
<1>7. ASSUME NEW l \in Lines \ again' PROVE Sight(l)' <= Sight(l)
  <2>1. l > next => l > Offset
    BY <1>3, <1>5, Numbers DEF One, Shape
  <2>2. Pending(l)' => Pending(l)
    BY <1>3, <1>4, <2>1 DEF Pending
  <2>3. Held(l)' => Held(l)
    BY <1>4 DEF Held
  <2> QED
    BY <1>1, <2>2, <2>3, SightLess DEF One
<1>8. stops <= stops' /\ again \subseteq again'
  BY <1>1, LogAssumption DEF One, Shape, TypeOK
<1> QED
  BY <1>1, <1>6, <1>7, <1>8, NoMore DEF One

LEMMA ResetOne == ASSUME One, NEW s \in Scanners, Reset(s) PROVE One'
<1>1. /\ UNCHANGED <<log, counted, stops>> /\ Shape' /\ Alone(s) /\ job[s].pc = "reset" /\ job'[s] = IdleJob
  BY ResetShape, ResetPlace DEF Reset, One, effects
<1>2. PICK next \in Nat : next = Offset' /\ next = NextRead(job[s].file, Back(s))
  BY ResetPlace DEF One
<1>3. Offset \in Nat /\ job[s].at \in Nat /\ job[s].to \in Nat
  BY OffsetRange, JobFields DEF One, Shape
<1>4. again \subseteq again' /\ (~Undisturbed(s) => (next + 1) .. Offset \ (job[s].at + 1) .. job[s].to \subseteq again')
  BY <1>2 DEF Reset, Back
\* The lines the position comes back to are this scan's own.
<1>5. ASSUME NEW l \in Lines \ again', l <= Offset, l > next
      PROVE  job[s].at < l /\ l <= job[s].to /\ l \in Hands(s)
  <2>1. l \in Nat
    BY Numbers DEF One, Shape
  <2>2. CASE Undisturbed(s)
    <3>1. job[s].at < l /\ l <= job[s].to
      BY <1>2, <1>5, <2>2, UndisturbedPlace DEF One
    <3> QED
      BY <1>1, <2>1, <3>1, JobFields DEF One, Shape, Bounds, Hands
  <2>3. CASE ~Undisturbed(s)
    <3>1. job[s].at < l /\ l <= job[s].to
      BY <1>2, <1>3, <1>4, <1>5, <2>1, <2>3
    <3> QED
      BY <1>1, <2>1, <3>1, JobFields DEF One, Shape, Bounds, Hands
  <2> QED
    BY <2>2, <2>3
<1>6. OneHand'
  <2> SUFFICES ASSUME NEW l \in Lines \ again', NEW o \in Scanners, l \in Hands(o)'
               PROVE  /\ \A p \in Scanners \ {o} : l \notin Hands(p)'
                      /\ job'[o].pc # "save" => l <= next
    BY <1>2 DEF OneHand
  <2>1. Hands(s)' = {}
    BY <1>1, IdleFields DEF One, Shape, Hands
  <2>2. o # s /\ l \in Hands(o) /\ l \in Lines \ again /\ job'[o].pc = job[o].pc
    BY <1>1, <1>4, <2>1 DEF Alone, Hands
  <2>3. (\A p \in Scanners \ {o} : l \notin Hands(p)) /\ (job[o].pc # "save" => l <= Offset)
    BY <2>2 DEF One, OneHand
  <2>4. \A p \in Scanners \ {o} : l \notin Hands(p)'
    BY <1>1, <2>1, <2>3 DEF Alone, Hands
  <2>5. l \in Nat
    BY Numbers DEF One, Shape
  <2> QED
    BY <1>5, <2>2, <2>3, <2>4, <2>5
<1>7. ASSUME NEW l \in Lines \ again' PROVE Sight(l)' <= Sight(l)
  <2>1. l \in Nat
    BY Numbers DEF One, Shape
  <2>2. Pending(l)' => Pending(l)
    <3>1. CASE l > Offset'
      BY <1>2, <1>3, <1>5, <2>1, <3>1 DEF Pending
    <3>2. ASSUME NEW o \in Scanners, job'[o].at < l, l <= job'[o].to
          PROVE  Pending(l)
      <4>1. o # s
        BY <1>1, <2>1, <3>2, IdleFields DEF One, Shape
      <4> QED
        BY <1>1, <3>2, <4>1 DEF Alone, Pending
    <3> QED
      BY <3>1, <3>2 DEF Pending
  <2>3. Held(l)' => Held(l)
    BY <1>1, IdleFields DEF One, Shape, Alone, Held
  <2> QED
    BY <1>1, <2>2, <2>3, SightLess DEF One
<1>8. stops <= stops'
  BY <1>1, LogAssumption DEF One, Shape, TypeOK
<1> QED
  BY <1>1, <1>4, <1>6, <1>7, <1>8, NoMore DEF One

\* The line in flight is handled: it is no longer to be handled, and may be held.
LEMMA HandleOne == ASSUME One, NEW s \in Scanners, Handle(s) PROVE One'
<1>1. /\ UNCHANGED <<log, position, again, counted, stops>> /\ Shape' /\ job[s].pc = "lines"
      /\ Alone(s) /\ SameRead(s) /\ job'[s].pc \in {"lines", "links"}
      /\ job'[s].at = NextLine(s) /\ job'[s].counts = job[s].counts \cup Event(s)
  BY HandleFields, HandleShape DEF Handle, One, Shape, effects
<1>2. OneHand' /\ Offset' = Offset
  BY <1>1, QuietHands DEF SameRead
<1>3. job[s].at \in Nat /\ job[s].from \in Nat /\ job[s].to \in Nat /\ job[s].from <= job[s].at
      /\ job[s].at < job[s].to /\ Offset \in Nat
  BY <1>1, JobFields, OffsetRange DEF One, Shape, Bounds
<1>4. ASSUME NEW l \in Lines \ again, l # NextLine(s) PROVE Sight(l)' <= Sight(l)
  <2>1. l \in Nat
    BY Numbers DEF One, Shape
  <2>2. Held(l)' => Held(l)
    BY <1>1, <1>4 DEF Held, Alone, Event
  <2>3. Pending(l)' => Pending(l)
    BY <1>1, <1>2, <1>3, <1>4, <2>1 DEF Pending, Alone, SameRead, NextLine
  <2> QED
    BY <1>1, <2>2, <2>3, SightLess DEF One
<1>5. ASSUME NEW l \in Lines \ again, l = NextLine(s) PROVE Sight(l)' <= Sight(l)
  <2>1. l \in Hands(s) /\ l \in Nat /\ job[s].at < l /\ l <= job[s].to
    BY <1>1, <1>3, <1>5 DEF Hands, NextLine
  <2>2. l <= Offset /\ \A o \in Scanners \ {s} : l \notin Hands(o)
    BY <1>1, <1>5, <2>1 DEF One, OneHand
  <2>3. Pending(l)
    BY <2>1 DEF Pending
  <2>4. ~Pending(l)'
    <3>1. ASSUME NEW o \in Scanners \ {s}, job[o].at < l, l <= job[o].to PROVE FALSE
      <4>1. /\ job[o].at \in Nat /\ job[o].from \in Nat /\ job[o].to \in Nat /\ job[o].from <= job[o].at
            /\ l \notin Hands(o)
        BY <2>2, JobFields DEF One, Shape, Bounds
      <4>2. job[o].pc = "idle"
        BY <2>1, <3>1, <4>1 DEF Hands
      <4> QED
        BY <2>1, <3>1, <4>1, <4>2 DEF One, Shape, Bounds
    <3>2. ~(job'[s].at < l)
      BY <1>1, <1>5, <2>1
    <3> QED
      BY <1>1, <1>2, <1>3, <2>1, <2>2, <3>1, <3>2 DEF Pending, Alone
  <2>5. counted[l] \in Nat /\ counted'[l] = counted[l]
    BY <1>1, <1>5, SightNat DEF One
  <2> QED
    BY <2>3, <2>4, <2>5 DEF Sight
<1>6. stops <= stops'
  BY <1>1, LogAssumption DEF One, Shape, TypeOK
<1> QED
  BY <1>1, <1>2, <1>4, <1>5, <1>6, NoMore DEF One

\* What is counted is no longer held.
LEMMA CountedOne ==
    ASSUME One, Shape', NEW s \in Scanners, Alone(s), SameRead(s), UNCHANGED <<log, position, again>>,
           job[s].pc \notin {"idle", "save"}, job'[s].pc \notin {"idle", "save"}, stops <= stops',
           job'[s].at = job[s].at, job'[s].counts = {}, \E done \in SUBSET job[s].counts : Count(done)
    PROVE  One'
<1>1. OneHand' /\ Offset' = Offset
  BY QuietHands DEF SameRead
<1>2. PICK done \in SUBSET job[s].counts : Count(done)
  OBVIOUS
<1>3. ASSUME NEW l \in Lines \ again PROVE Sight(l)' <= Sight(l)
  <2>1. Pending(l)' => Pending(l)
    BY <1>1 DEF Pending, Alone, SameRead
  <2>2. Held(l)' => Held(l)
    BY DEF Held, Alone
  <2>3. CASE l \notin done
    <3>1. counted'[l] = counted[l]
      BY <1>2, <2>3, SightNat DEF Count, One
    <3> QED
      BY <2>1, <2>2, <3>1, SightLess DEF One
  <2>4. CASE l \in done
    <3>1. counted'[l] = counted[l] + 1 /\ counted[l] \in Nat
      BY <1>2, <2>4, SightNat DEF Count, One
    <3>2. Held(l)
      BY <2>4 DEF Held
    <3>3. ~Held(l)'
      <4>1. l \in Hands(s)
        BY <1>2, <2>4 DEF One, Shape, Holdings, Hands
      <4>2. \A o \in Scanners \ {s} : l \notin Hands(o)
        BY <1>3, <4>1 DEF One, OneHand
      <4>3. \A o \in Scanners \ {s} : l \notin job[o].counts
        BY <4>2 DEF One, Shape, Holdings, Hands
      <4> QED
        BY <4>3 DEF Held, Alone
    <3> QED
      BY <2>1, <3>1, <3>2, <3>3 DEF Sight
  <2> QED
    BY <2>3, <2>4
<1> QED
  BY <1>1, <1>3, NoMore DEF One

LEMMA FlushCountsOne == ASSUME One, NEW s \in Scanners, FlushCounts(s) PROVE One'
<1>1. /\ UNCHANGED <<log, position, again>> /\ stops <= stops' /\ \E done \in SUBSET job[s].counts : Count(done)
  BY LogAssumption DEF FlushCounts, One, Shape, TypeOK
<1> QED
  BY <1>1, FlushCountsShape, FlushCountsFields, CountedOne DEF One, Shape

LEMMA LimitInCountsOne == ASSUME One, NEW s \in Scanners, LimitInCounts(s) PROVE One'
<1>1. /\ UNCHANGED <<log, position, again>> /\ stops <= stops' /\ \E done \in SUBSET job[s].counts : Count(done)
  BY LogAssumption DEF LimitInCounts, Limited, One, Shape, TypeOK
<1> QED
  BY <1>1, LimitInCountsShape, LimitInCountsFields, CountedOne DEF One, Shape

\* The line in flight is held and still to be handled: one more sight of one line,
\* for one more stop.
LEMMA LimitInLineOne == ASSUME One, NEW s \in Scanners, LimitInLine(s) PROVE One'
<1>1. /\ UNCHANGED <<log, position, again, counted>> /\ Shape' /\ stops' = stops + 1
      /\ Alone(s) /\ SameRead(s) /\ job[s].pc = "lines" /\ job'[s].pc = "links" /\ job'[s].at = job[s].at
  BY LimitInLineFields, LimitInLineShape DEF LimitInLine, Limited, One, Shape, effects
<1>2. OneHand' /\ Offset' = Offset
  BY <1>1, QuietHands DEF SameRead
<1>3. PICK counts \in SUBSET Event(s) : job'[s].counts = job[s].counts \cup counts
  BY LimitInLineFields DEF One, Shape
<1>4. PICK n : n = NextLine(s)
  OBVIOUS
<1>5. job'[s].counts \subseteq job[s].counts \cup {n}
  BY <1>3, <1>4 DEF Event
<1>6. ASSUME NEW l \in Lines PROVE Pending(l)' = Pending(l)
  BY <1>1, <1>2 DEF Pending, Alone, SameRead
<1>7. ASSUME NEW l \in Lines, l # n PROVE Sight(l)' <= Sight(l)
  <2>1. Held(l)' => Held(l)
    BY <1>1, <1>5, <1>7 DEF Held, Alone
  <2> QED
    BY <1>1, <1>6, <2>1, SightLess DEF One
<1>8. n \in Lines
  BY <1>1, <1>4, JobFields, Numbers DEF One, Shape, Bounds, NextLine, Lines
<1>9. Sight(n) \in Nat /\ Sight(n)' <= Sight(n) + 1
  <2>1. counted[n] \in Nat /\ counted'[n] = counted[n]
    BY <1>1, <1>8, SightNat DEF One
  <2>2. Pending(n)' => Pending(n)
    BY <1>6, <1>8
  <2> QED
    BY <2>1, <2>2 DEF Sight
<1>10. \A l \in Lines : Sight(l) \in Nat /\ Sight(l)' \in Nat
  <2>1. \A l \in Lines : Sight(l)' \in Nat
    BY <1>1 DEF Shape, TypeOK, Sight
  <2> QED
    BY <2>1, SightNat DEF One
<1>11. PICK x : x = <<n, Sight(n) + 1>>
  OBVIOUS
<1>12. Repeats' \subseteq Repeats \cup {x}
  <2> SUFFICES ASSUME NEW l \in Lines \ again, NEW i \in 2 .. Sight(l)', <<l, i>> # x
               PROVE  i \in 2 .. Sight(l)
    BY <1>1 DEF Repeats
  <2>1. CASE l # n
    BY <1>7, <1>10, <2>1
  <2>2. CASE l = n
    <3>1. i # Sight(n) + 1 /\ i <= Sight(n)' /\ i \in Int /\ 2 <= i /\ Sight(n)' \in Nat
      BY <1>8, <1>10, <1>11, <2>2
    <3>2. i <= Sight(n)
      BY <1>9, <3>1
    <3> QED
      BY <1>9, <2>2, <3>1, <3>2
  <2> QED
    BY <2>1, <2>2
<1>13. IsFiniteSet(Repeats) /\ Cardinality(Repeats) \in Nat
  BY RepeatsFinite DEF One
<1>14. IsFiniteSet(Repeats \cup {x}) /\ Cardinality(Repeats \cup {x}) <= Cardinality(Repeats) + 1
       /\ Cardinality(Repeats \cup {x}) \in Nat
  <2>1. IsFiniteSet(Repeats \cup {x})
        /\ Cardinality(Repeats \cup {x}) = IF x \in Repeats THEN Cardinality(Repeats) ELSE Cardinality(Repeats) + 1
    BY <1>13, FS_AddElement
  <2> QED
    BY <1>13, <2>1
<1>15. Cardinality(Repeats') <= Cardinality(Repeats \cup {x}) /\ Cardinality(Repeats') \in Nat
  BY <1>12, <1>14, FS_Subset, FS_CardinalityType
<1>16. FewRepeats'
  BY <1>1, <1>13, <1>14, <1>15, LogAssumption DEF One, FewRepeats, Shape, TypeOK
<1> QED
  BY <1>1, <1>2, <1>16 DEF One

LEMMA InitOne == Init => One
<1> SUFFICES ASSUME Init PROVE One
  OBVIOUS
<1>1. Shape
  BY InitShape
<1>2. OneHand
  BY <1>1, IdleFields DEF Init, Shape, OneHand, Hands
<1>3. Repeats = {}
  <2>1. \A l \in Lines : ~Held(l) /\ counted[l] = 0
    BY <1>1, IdleFields DEF Init, Shape, Held
  <2>2. \A l \in Lines : Sight(l) \in {0, 1}
    BY <2>1 DEF Sight
  <2>3. \A l \in Lines : 2 .. Sight(l) = {}
    BY <2>2
  <2> QED
    BY <2>3 DEF Repeats
<1>4. FewRepeats
  BY <1>3, FS_EmptySet DEF Init, FewRepeats
<1> QED
  BY <1>1, <1>2, <1>4 DEF One

LEMMA StutterOne == ASSUME One, UNCHANGED vars PROVE One'
<1>1. Shape' /\ Offset' = Offset /\ UNCHANGED <<job, again, counted, stops>>
  BY StutterShape DEF One, Offset, NextRead, vars, log, effects
<1>2. OneHand'
  BY <1>1 DEF One, OneHand, Hands
<1>3. FewRepeats'
  BY <1>1 DEF One, FewRepeats, Repeats, Sight, Held, Pending
<1> QED
  BY <1>1, <1>2, <1>3 DEF One

LEMMA NextOne == ASSUME One, [Next]_vars PROVE One'
<1>1. CASE UNCHANGED vars
  BY <1>1, StutterOne
<1>2. CASE Append \/ Rotate \/ \E m \in CleanupLines : Remember(m)
  BY <1>2, AppendOne, RotateOne, RememberOne
<1>3. ASSUME NEW s \in Scanners, Begin(s) \/ Scan(s) \/ SoftLimit(s) \/ Kill(s)
      PROVE  One'
  BY <1>3, ScanSteps, FirstRunOne, ReadOne, SaveOne, LookupOne, LookupFailsOne, HandleOne,
     FlushLinksOne, FlushCountsOne, FlushEventsOne, RewindOne, ResetOne, LimitBeforeOne,
     LimitInLookupOne, LimitInLineOne, LimitInLinksOne, LimitInCountsOne, LimitInEventsOne,
     LimitUnguardedOne, KillOne
<1> QED
  BY <1>1, <1>2, <1>3 DEF Next

\* "At most the line in flight is handled twice": but for the lines that overlapping
\* scans both read, the counters see no more lines again than runs were stopped.
THEOREM CountedTwiceAlways == Spec => []CountedTwice
<1>1. Init => One
  BY InitOne
<1>2. One /\ [Next]_vars => One'
  BY NextOne
<1>3. One => CountedTwice
  <2> SUFFICES ASSUME One PROVE CountedTwice
    OBVIOUS
  <2> DEFINE twice == UNION {{l} \X (2 .. counted[l]) : l \in Lines \ again}
  <2>1. \A l \in Lines : counted[l] \in Nat /\ Sight(l) \in Nat /\ counted[l] <= Sight(l)
    <3>1. \A l \in Lines : counted[l] \in Nat /\ Sight(l) \in Nat
      BY SightNat DEF One
    <3> QED
      BY <3>1 DEF Sight
  <2>2. twice \subseteq Repeats
    <3> SUFFICES ASSUME NEW l \in Lines \ again, NEW i \in 2 .. counted[l]
                 PROVE  i \in 2 .. Sight(l)
      BY DEF Repeats
    <3> QED
      BY <2>1
  <2>3. IsFiniteSet(Repeats) /\ Cardinality(Repeats) \in Nat
    BY RepeatsFinite DEF One
  <2> HIDE DEF twice
  <2>4. Cardinality(twice) <= Cardinality(Repeats) /\ Cardinality(twice) \in Nat
    BY <2>2, <2>3, FS_Subset, FS_CardinalityType
  <2>5. Cardinality(twice) <= stops
    BY <2>3, <2>4, LogAssumption DEF One, FewRepeats, Shape, TypeOK
  <2> QED
    BY <2>5 DEF CountedTwice, twice
<1> QED
  BY <1>1, <1>2, <1>3, PTL DEF Spec
=============================================================================
