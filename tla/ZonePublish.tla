----------------------------- MODULE ZonePublish -----------------------------
(***************************************************************************)
(* Publishing of an authoritative zone                                     *)
(* (backend/apps/dns/services/zones.py): publish() reads the rows, gives a *)
(* zone whose records changed a new serial, writes the zone file, removes  *)
(* the files of other zones and writes the configuration of Knot, without  *)
(* a lock.  A job publishes every 15 minutes and every change of a zone    *)
(* publishes too.  A loop beside Knot                                      *)
(* (provisioning/docker/dns/entrypoint.sh) compares a fingerprint of those *)
(* files every few seconds and has Knot load them when it changed.  Knot   *)
(* numbers what it serves by itself (zonefile-load: difference-no-serial), *)
(* so secondary servers never see the serial of the rows.                  *)
(***************************************************************************)
EXTENDS Naturals

CONSTANTS
    Publishers, \* requests and jobs that publish
    Contents,   \* what the records of the zone may be
    MaxNow,     \* bound of the model: seconds that pass
    MaxEdits,   \* bound of the model: changes of the records, the mode, the zone, failures and restarts
    Nothing

VARIABLES
    zone,      \* the zone's row: its key (0 when there is none), authoritative, serial, hash
    records,   \* what the records are
    now,       \* the clock
    published, \* the zone file: its records and serial, or Nothing
    knot,      \* the configuration lists the zone
    dns,       \* Knot and the loop beside it
    work,      \* p -> what a publisher is doing
    edits

zvars == <<zone, records, now, published, knot, dns, work, edits>>

NoZone == [pk |-> 0, here |-> FALSE, serial |-> 0, hash |-> Nothing]
AtRest == [pc |-> "idle", pk |-> 0, serial |-> 0, hash |-> Nothing, text |-> Nothing,
           listed |-> FALSE]

\* fingerprint(): the configuration and the zone file.
Files == <<knot, published>>

ZoneInit ==
    /\ zone = [NoZone EXCEPT !.pk = 1, !.here = TRUE]
    /\ records \in Contents
    /\ now = 1
    /\ published = Nothing /\ knot = FALSE
    /\ dns = [pc |-> "load", served |-> Nothing, journal |-> Nothing,
              loaded |-> Files, seen |-> Files, applied |-> Files]
    /\ work = [p \in Publishers |-> AtRest]
    /\ edits = 0

-----------------------------------------------------------------------------
(* The administrator and the world.                                        *)

Change == edits < MaxEdits /\ edits' = edits + 1

Edit(c) ==
    /\ Change
    /\ c # records
    /\ records' = c
    /\ UNCHANGED <<zone, now, published, knot, dns, work>>

\* set_mode(): the row keeps its serial; ensure() makes one when there is none.
SetMode ==
    /\ Change
    /\ zone' = [zone EXCEPT !.pk = IF @ = 0 THEN edits + 2 ELSE @, !.here = ~@]
    /\ UNCHANGED <<records, now, published, knot, dns, work>>

\* remove(): the serial goes with the row.
Remove ==
    /\ Change
    /\ zone.pk # 0
    /\ zone' = NoZone
    /\ UNCHANGED <<records, now, published, knot, dns, work>>

Tick ==
    /\ now < MaxNow
    /\ now' = now + 1
    /\ UNCHANGED <<zone, records, published, knot, dns, work, edits>>

-----------------------------------------------------------------------------
(* Knot and the loop beside it.                                            *)

\* Knot loads a zone it is told of, from its file or, without one, from its journal.
Load ==
    LET found == IF published = Nothing THEN dns.journal ELSE published.records
    IN  [dns EXCEPT !.loaded = Files,
                    !.journal = IF knot THEN found ELSE @,
                    !.served = IF knot THEN found ELSE Nothing]

Start ==
    /\ dns.pc = "load"
    /\ dns' = [Load EXCEPT !.pc = "note"]

\* The first fingerprint is taken after Knot has started.
Note ==
    /\ dns.pc = "note"
    /\ dns' = [dns EXCEPT !.pc = "idle", !.applied = Files]

Poll ==
    /\ dns.pc = "idle"
    /\ Files # dns.applied
    /\ dns' = [dns EXCEPT !.pc = "reload", !.seen = Files]

\* Knot loads what there is by now; the loop remembers what it saw before.
Reload ==
    /\ dns.pc = "reload"
    /\ dns' = [Load EXCEPT !.pc = "idle", !.applied = dns.seen]

\* A reload that fails is not tried again: the loop remembers the files all the same.
Refuse ==
    /\ dns.pc = "reload"
    /\ Change
    /\ dns' = [dns EXCEPT !.pc = "idle", !.applied = dns.seen]
    /\ UNCHANGED <<zone, records, now, published, knot, work>>

Restart ==
    /\ Change
    /\ dns' = [dns EXCEPT !.pc = "load"]
    /\ UNCHANGED <<zone, records, now, published, knot, work>>

Serve == (Start \/ Note \/ Poll \/ Reload) /\ UNCHANGED <<zone, records, now, published, knot, work, edits>>

-----------------------------------------------------------------------------
(* publish().                                                              *)

ReadRows(p) ==
    /\ work[p].pc = "idle"
    /\ work' = [work EXCEPT ![p] = [AtRest EXCEPT
           !.pc = IF zone.here THEN "digest" ELSE "sweep",
           !.pk = zone.pk, !.serial = zone.serial, !.hash = zone.hash,
           !.listed = zone.here]]
    /\ UNCHANGED <<zone, records, now, published, knot, dns, edits>>

NewSerial(p) == IF work[p].serial + 1 > now THEN work[p].serial + 1 ELSE now

\* Mutant of Unchanged: a file is written only when the records changed.
UnchangedMutant(p) == "sweep"

\* Records that did not change are written again.
Unchanged(p) == "compose"

\* The hash of the records is compared with the one in the row that was read.
Digest(p) ==
    /\ work[p].pc = "digest"
    /\ work' = [work EXCEPT ![p] =
           IF records = @.hash /\ @.serial > 0 THEN [@ EXCEPT !.pc = Unchanged(p)]
           ELSE [@ EXCEPT !.pc = "save", !.hash = records, !.serial = NewSerial(p)]]
    /\ UNCHANGED <<zone, records, now, published, knot, dns, edits>>

\* The row is saved as it was read, with the new serial: whatever another publisher
\* has saved since is lost.  A row that is gone cannot be saved: publish() raises.
Save(p) ==
    /\ work[p].pc = "save"
    /\ IF zone.pk = work[p].pk
       THEN /\ zone' = [zone EXCEPT !.serial = work[p].serial, !.hash = work[p].hash]
            /\ work' = [work EXCEPT ![p].pc = "compose"]
       ELSE work' = [work EXCEPT ![p] = AtRest] /\ UNCHANGED zone
    /\ UNCHANGED <<records, now, published, knot, dns, edits>>

\* The records are read a second time for the file.
Compose(p) ==
    /\ work[p].pc = "compose"
    /\ work' = [work EXCEPT ![p].pc = "write",
                            ![p].text = [records |-> records, serial |-> work[p].serial]]
    /\ UNCHANGED <<zone, records, now, published, knot, dns, edits>>

WriteZone(p) ==
    /\ work[p].pc = "write"
    /\ published' = work[p].text
    /\ work' = [work EXCEPT ![p].pc = "sweep"]
    /\ UNCHANGED <<zone, records, now, knot, dns, edits>>

\* The file of a zone that was not in the rows is removed.
Sweep(p) ==
    /\ work[p].pc = "sweep"
    /\ published' = IF work[p].listed THEN published ELSE Nothing
    /\ work' = [work EXCEPT ![p].pc = "configure"]
    /\ UNCHANGED <<zone, records, now, knot, dns, edits>>

Configure(p) ==
    /\ work[p].pc = "configure"
    /\ knot' = work[p].listed
    /\ work' = [work EXCEPT ![p] = AtRest]
    /\ UNCHANGED <<zone, records, now, published, dns, edits>>

-----------------------------------------------------------------------------
Publishing(p) ==
    ReadRows(p) \/ Digest(p) \/ Save(p) \/ Compose(p) \/ WriteZone(p) \/ Sweep(p) \/ Configure(p)

ZoneNext ==
    \/ \E c \in Contents : Edit(c)
    \/ SetMode \/ Remove \/ Tick \/ Serve \/ Refuse \/ Restart
    \/ \E p \in Publishers : Publishing(p)

ZoneSpec == ZoneInit /\ [][ZoneNext]_zvars

\* The job comes again, and so does the loop beside Knot.
Fairness == (\A p \in Publishers : WF_zvars(Publishing(p))) /\ WF_zvars(Serve)

-----------------------------------------------------------------------------
(* What must hold.                                                         *)

\* The loop takes the files for those it has had Knot load, and Knot loaded others: they
\* changed between a fingerprint and the load, and changed back, or between the start of
\* Knot and the first fingerprint, or the load failed.
Overlooked == dns.pc = "idle" /\ dns.applied = Files /\ dns.loaded # Files

\* When the changes end, a zone that is ours is published with its records, whichever
\* publisher wrote or swept last, and one that is not ours is not published; Knot serves
\* the one and not the other, however its loads fell between the writes of the file and
\* of the configuration, unless the loop has overlooked a change.
ServedInTheEnd ==
    <>[](IF zone.here
         THEN /\ knot /\ published # Nothing /\ published.records = records
              /\ dns.served = records \/ Overlooked
         ELSE /\ ~knot /\ published = Nothing
              /\ dns.served = Nothing \/ Overlooked)
=============================================================================
