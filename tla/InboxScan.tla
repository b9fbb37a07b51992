------------------------------ MODULE InboxScan ------------------------------
(***************************************************************************)
(* New mail in a watched mailbox becomes message.received events           *)
(* (backend/apps/mail/services/inbox_events.py): every 30 seconds a scan   *)
(* compares the mailbox with the position kept in the cache, announces the *)
(* newest messages after it, oldest first, and saves the position when the *)
(* batch is done.  A scan may take two minutes, so scans overlap.          *)
(***************************************************************************)
EXTENDS Naturals, FiniteSets

CONSTANTS
    Scanners,  \* scans that may overlap
    Batch,     \* MAX_NEW_PER_MAILBOX
    MaxMail,   \* bound of the model: messages that arrive in one mailbox
    MaxBoxes,  \* bound of the model: times the mailbox is created
    MaxFailures \* bound of the model: what goes wrong

VARIABLES
    validity,  \* UIDVALIDITY of the mailbox
    inbox,     \* uids of the messages in it
    following, \* UIDNEXT
    saved,     \* the position in the cache; validity 0 when there is none
    events,    \* identifiers of the events that were queued
    scan,      \* s -> what a scan is doing
    told,      \* history: message -> events about it
    excused,   \* history: messages the program leaves out knowingly
    failures

ivars == <<validity, inbox, following, saved, events, scan, told, excused, failures>>

Uids == 1 .. MaxMail
Messages == (1 .. MaxBoxes) \X Uids

NoPosition == [validity |-> 0, last |-> 0]
IdleScan == [pc |-> "idle", validity |-> 0, following |-> 0, left |-> {}, newest |-> 0]

InboxInit ==
    /\ validity = 1 /\ inbox = {} /\ following = 1
    /\ saved = NoPosition
    /\ events = {}
    /\ scan = [s \in Scanners |-> IdleScan]
    /\ told = [m \in Messages |-> 0]
    /\ excused = {}
    /\ failures = 0

-----------------------------------------------------------------------------
(* The mailbox.                                                            *)

Arrive ==
    /\ following <= MaxMail
    /\ inbox' = inbox \cup {following}
    /\ following' = following + 1
    /\ UNCHANGED <<validity, saved, events, scan, told, excused, failures>>

Expunge(uid) ==
    /\ uid \in inbox
    /\ inbox' = inbox \ {uid}
    /\ UNCHANGED <<validity, following, saved, events, scan, told, excused, failures>>

\* The mailbox is removed and created again: its uids begin anew.
Recreate ==
    /\ validity < MaxBoxes
    /\ validity' = validity + 1
    /\ inbox' = {} /\ following' = 1
    /\ UNCHANGED <<saved, events, scan, told, excused, failures>>

-----------------------------------------------------------------------------
(* scan_mailbox().                                                         *)

\* mailbox_state()
Look(s) ==
    /\ scan[s].pc = "idle"
    /\ scan' = [scan EXCEPT ![s] = [IdleScan EXCEPT !.pc = "compare", !.validity = validity,
                                                   !.following = following]]
    /\ UNCHANGED <<validity, inbox, following, saved, events, told, excused, failures>>

\* Mutant of SomethingNew: the last message waits for the next one.
SomethingNewMutant(s) == scan[s].following > saved.last + 2

SomethingNew(s) == scan[s].following > saved.last + 1

Compare(s) ==
    /\ scan[s].pc = "compare"
    /\ scan' = IF saved.validity # scan[s].validity THEN [scan EXCEPT ![s].pc = "first"]
               ELSE IF SomethingNew(s)
                    THEN [scan EXCEPT ![s].pc = "list", ![s].newest = saved.last]
                    ELSE [scan EXCEPT ![s] = IdleScan]
    /\ UNCHANGED <<validity, inbox, following, saved, events, told, excused, failures>>

\* The first look: what is there already is not announced.
StartFromNow(s) ==
    /\ scan[s].pc = "first"
    /\ saved' = [validity |-> scan[s].validity, last |-> scan[s].following - 1]
    /\ excused' = excused \cup {<<scan[s].validity, u>> : u \in 1 .. scan[s].following - 1}
    /\ scan' = [scan EXCEPT ![s] = IdleScan]
    /\ UNCHANGED <<validity, inbox, following, events, told, failures>>

Newer(s) == {u \in inbox : u > scan[s].newest}

\* list_messages(): the newest come first and fill the batch; older ones are left
\* out for good.
Batched(s) == {u \in Newer(s) : Cardinality({v \in Newer(s) : v > u}) < Batch}

List(s) ==
    /\ scan[s].pc = "list"
    /\ scan' = [scan EXCEPT ![s].pc = "announce", ![s].left = Batched(s)]
    /\ excused' = excused \cup ({validity} \X (Newer(s) \ Batched(s)))
    /\ UNCHANGED <<validity, inbox, following, saved, events, told, failures>>

\* Mutant of EventId: every scan has identifiers of its own.
EventIdMutant(s, uid) == <<s, uid>>

\* The identifier of an event is made from the mailbox and the uid.
EventId(s, uid) == <<scan[s].validity, uid>>

Oldest(s, uid) == uid \in scan[s].left /\ \A u \in scan[s].left : uid <= u

Past(s, uid) == [scan EXCEPT ![s].left = @ \ {uid}, ![s].newest = uid]

\* get_message() and emit(), which queues an event once.
Announce(s, uid) ==
    /\ scan[s].pc = "announce"
    /\ Oldest(s, uid)
    /\ IF uid \in inbox /\ EventId(s, uid) \notin events
       THEN /\ events' = events \cup {EventId(s, uid)}
            /\ told' = [told EXCEPT ![<<validity, uid>>] = @ + 1]
       ELSE UNCHANGED <<events, told>>
    /\ scan' = Past(s, uid)
    /\ UNCHANGED <<validity, inbox, following, saved, excused, failures>>

\* Mutant of Reached: the position moves to the end of the mailbox.
ReachedMutant(s) == following - 1

Reached(s) == scan[s].newest

SavePosition(s) ==
    /\ scan[s].pc = "announce"
    /\ scan[s].left = {}
    /\ saved' = [validity |-> scan[s].validity, last |-> Reached(s)]
    /\ scan' = [scan EXCEPT ![s] = IdleScan]
    /\ UNCHANGED <<validity, inbox, following, events, told, excused, failures>>

-----------------------------------------------------------------------------
(* What goes wrong.                                                        *)

Trouble == failures < MaxFailures /\ failures' = failures + 1

\* The reader or the database fails, or the time limit strikes: the position stays.
Broken(s) ==
    /\ scan[s].pc # "idle"
    /\ Trouble
    /\ scan' = [scan EXCEPT ![s] = IdleScan]
    /\ UNCHANGED <<validity, inbox, following, saved, events, told, excused>>

\* The server refuses to fetch a message: it is taken for one that is gone.
NotFetched(s, uid) ==
    /\ scan[s].pc = "announce"
    /\ Oldest(s, uid)
    /\ Trouble
    /\ excused' = excused \cup ({validity} \X ({uid} \cap inbox))
    /\ scan' = Past(s, uid)
    /\ UNCHANGED <<validity, inbox, following, saved, events, told>>

\* Redis loses its contents.
PositionLost ==
    /\ Trouble
    /\ saved' = NoPosition
    /\ UNCHANGED <<validity, inbox, following, events, scan, told, excused>>

-----------------------------------------------------------------------------
Scanning(s) ==
    \/ Compare(s) \/ StartFromNow(s) \/ List(s) \/ SavePosition(s)
    \/ \E uid \in Uids : Announce(s, uid)

InboxNext ==
    \/ Arrive \/ Recreate \/ PositionLost
    \/ \E uid \in Uids : Expunge(uid)
    \/ \E s \in Scanners : Look(s) \/ Scanning(s) \/ Broken(s)
    \/ \E s \in Scanners, uid \in Uids : NotFetched(s, uid)

InboxSpec == InboxInit /\ [][InboxNext]_ivars

\* A scan begins every 30 seconds and goes on.
InboxFairness == \A s \in Scanners : WF_ivars(Look(s) \/ Scanning(s))

-----------------------------------------------------------------------------
(* What must hold.                                                         *)

\* The position never passes a message that is there and was not announced, except
\* one that was there at the first look, that a full batch left out, or that the
\* server refused to fetch: whatever overlaps or breaks off, and also when an older
\* scan puts the position back.
NothingPassed ==
    \A u \in inbox : saved.validity = validity /\ u <= saved.last
                     => told[<<validity, u>>] > 0 \/ <<validity, u>> \in excused

\* A message is announced once however often a batch is read again, as long as the
\* mailbox is the one it was.
AnnouncedOnce == \A u \in Uids : told[<<1, u>>] <= 1

\* When mail stops coming, everything in the mailbox has been announced, or left out
\* knowingly.
CaughtUp ==
    <>[](\A u \in inbox : told[<<validity, u>>] > 0 \/ <<validity, u>> \in excused)
=============================================================================
