----------------------------- MODULE InboxProofs -----------------------------
(* No message is passed in silence and none is announced twice, for any number *)
(* of scans, messages, mailboxes and failures.                                 *)
EXTENDS InboxScan, TLAPS

PCs == {"idle", "compare", "first", "list", "announce"}

Types ==
    /\ validity \in Nat /\ validity \in 1 .. MaxBoxes
    /\ following \in Nat \ {0}
    /\ inbox \in SUBSET Uids /\ \A u \in inbox : u < following
    /\ saved \in [validity : Nat, last : Nat]
    /\ events \subseteq Nat \X Uids
    /\ scan \in [Scanners -> [pc : PCs, validity : Nat, following : Nat,
                              left : SUBSET Uids, newest : Nat]]
    /\ told \in [Messages -> Nat]

\* Validities only grow, and so do uids while the validity stays.
SavedOK == saved.validity <= validity /\ (saved.validity = validity => saved.last < following)

ScanOK(s) ==
    scan[s].pc # "idle" =>
        /\ scan[s].validity \in 1 .. validity
        /\ scan[s].following # 0
        /\ scan[s].validity = validity => /\ scan[s].following <= following
                                          /\ scan[s].newest < following
                                          /\ \A w \in scan[s].left : w < following

EventsOK ==
    /\ \A e \in events : e[1] <= validity
    /\ \A u \in Uids : <<validity, u>> \in events => told[<<validity, u>>] > 0
    /\ \A u \in Uids : told[<<1, u>>] <= (IF <<1, u>> \in events THEN 1 ELSE 0)

Known(u) == told[<<validity, u>>] > 0 \/ <<validity, u>> \in excused

\* What is behind a position of this mailbox is known.
Behind(v, last) == v = validity => \A u \in inbox : u <= last => Known(u)

\* A batch holds what is not known, but for what arrived after it was listed.
BatchOK(s) ==
    /\ scan[s].pc \in {"list", "announce"} => Behind(scan[s].validity, scan[s].newest)
    /\ scan[s].pc = "announce" /\ scan[s].validity = validity =>
          \A u \in inbox \ scan[s].left :
             scan[s].newest < u => Known(u) \/ \A w \in scan[s].left : w < u

Positions ==
    /\ SavedOK /\ Behind(saved.validity, saved.last)
    /\ \A s \in Scanners : ScanOK(s) /\ BatchOK(s)

IInv == Types /\ EventsOK /\ Positions

-----------------------------------------------------------------------------
LEMMA InitHolds ==
    ASSUME MaxBoxes \in Nat \ {0}
    PROVE  InboxInit => IInv
<1>1. SUFFICES ASSUME InboxInit PROVE IInv
    OBVIOUS
<1>2. Types
    BY <1>1 DEF InboxInit, Types, NoPosition, IdleScan, PCs, Uids, Messages
<1>3. EventsOK
    BY <1>1 DEF InboxInit, EventsOK, Messages
<1>4. Positions
    BY <1>1 DEF InboxInit, Positions, SavedOK, Behind, ScanOK, BatchOK, NoPosition, IdleScan
<1>5. QED
    BY <1>2, <1>3, <1>4 DEF IInv

-----------------------------------------------------------------------------
(* The mailbox.                                                            *)

\* A new message is behind no position and after every batch.
LEMMA ArriveKeeps ==
    ASSUME MaxMail \in Nat, IInv, Arrive
    PROVE  IInv'
<1>1. Types'
    BY DEF IInv, Types, Arrive, Uids
<1>2. EventsOK'
    BY DEF IInv, EventsOK, Arrive
<1>3. \A u : Known(u)' <=> Known(u)
    BY DEF Arrive, Known
<1>4. SavedOK' /\ Behind(saved.validity, saved.last)'
    BY <1>3 DEF IInv, Types, Positions, SavedOK, Behind, Arrive
<1>5. ASSUME NEW s \in Scanners PROVE ScanOK(s)' /\ BatchOK(s)'
    <2>1. scan[s].left \in SUBSET Uids /\ scan[s].newest \in Nat /\ scan[s].following \in Nat
        BY DEF IInv, Types
    <2>2. ScanOK(s) /\ BatchOK(s)
        BY DEF IInv, Positions
    <2>3. ScanOK(s)'
        <3>1. following' = following + 1 /\ UNCHANGED <<validity, scan>>
            BY DEF Arrive
        <3>2. \A w \in scan[s].left : w \in Nat
            BY <2>1 DEF Uids
        <3>3. following \in Nat
            BY DEF IInv, Types
        <3>4. QED
            BY <2>1, <2>2, <3>1, <3>2, <3>3 DEF ScanOK
    <2>4. BatchOK(s)'
        BY <1>3, <2>1, <2>2 DEF IInv, Types, BatchOK, Behind, ScanOK, Arrive
    <2>5. QED
        BY <2>3, <2>4
<1>6. QED
    BY <1>1, <1>2, <1>4, <1>5 DEF IInv, Positions

LEMMA ExpungeKeeps == ASSUME IInv, NEW uid \in Uids, Expunge(uid) PROVE IInv'
<1>1. Types' /\ EventsOK'
    BY DEF IInv, Types, EventsOK, Expunge
<1>2. \A u : Known(u)' <=> Known(u)
    BY DEF Expunge, Known
<1>3. SavedOK' /\ Behind(saved.validity, saved.last)'
    BY <1>2 DEF IInv, Positions, SavedOK, Behind, Expunge
<1>4. ASSUME NEW s \in Scanners PROVE ScanOK(s)' /\ BatchOK(s)'
    BY <1>2 DEF IInv, Positions, ScanOK, BatchOK, Behind, Expunge
<1>5. QED
    BY <1>1, <1>3, <1>4 DEF IInv, Positions

\* A new mailbox is empty, and every position is of another.
LEMMA RecreateKeeps ==
    ASSUME MaxBoxes \in Nat, IInv, Recreate
    PROVE  IInv'
<1>1. Types' /\ validity' = validity + 1
    BY DEF IInv, Types, Recreate
<1>2. EventsOK'
    <2>1. \A e \in events : e[1] \in Nat /\ e[1] <= validity
        BY DEF IInv, Types, EventsOK
    <2>2. validity \in Nat /\ \A u \in Uids : <<validity', u>> \notin events
        BY <1>1, <2>1 DEF IInv, Types
    <2>3. QED
        BY <1>1, <2>1, <2>2 DEF IInv, EventsOK, Recreate
<1>3. SavedOK' /\ Behind(saved.validity, saved.last)'
    BY <1>1 DEF IInv, Types, Positions, SavedOK, Behind, Recreate
<1>4. ASSUME NEW s \in Scanners PROVE ScanOK(s)' /\ BatchOK(s)'
    BY <1>1 DEF IInv, Types, Positions, ScanOK, BatchOK, Behind, Recreate
<1>5. QED
    BY <1>1, <1>2, <1>3, <1>4 DEF IInv, Positions

-----------------------------------------------------------------------------
(* A scan.                                                                 *)

\* A step that leaves the mailbox alone, forgets nothing that is known, and changes
\* one scan.
LEMMA ScanMoves ==
    ASSUME IInv, Types', EventsOK', NEW s \in Scanners,
           UNCHANGED <<validity, inbox, following>>,
           \A u \in Uids : Known(u) => Known(u)',
           \A r \in Scanners \ {s} : scan'[r] = scan[r],
           SavedOK', Behind(saved.validity, saved.last)', ScanOK(s)', BatchOK(s)'
    PROVE  IInv'
<1>1. ASSUME NEW r \in Scanners \ {s} PROVE ScanOK(r)' /\ BatchOK(r)'
    BY <1>1 DEF IInv, Types, Positions, ScanOK, BatchOK, Behind
<1>2. QED
    BY <1>1 DEF IInv, Positions

\* The same when the position and what is known stay as they are.
LEMMA ScanTurns ==
    ASSUME IInv, Types', NEW s \in Scanners,
           UNCHANGED <<validity, inbox, following, saved, events, told, excused>>,
           \A r \in Scanners \ {s} : scan'[r] = scan[r],
           ScanOK(s)', BatchOK(s)'
    PROVE  IInv'
<1>1. EventsOK'
    BY DEF IInv, EventsOK
<1>2. \A u \in Uids : Known(u) => Known(u)'
    BY DEF Known
<1>3. SavedOK' /\ Behind(saved.validity, saved.last)'
    BY DEF IInv, Positions, SavedOK, Behind, Known
<1>4. QED
    BY <1>1, <1>2, <1>3, ScanMoves

LEMMA LookKeeps == ASSUME IInv, NEW s \in Scanners, Look(s) PROVE IInv'
<1>1. Types'
    BY DEF IInv, Types, Look, IdleScan, PCs
<1>2. ScanOK(s)' /\ BatchOK(s)'
    BY DEF IInv, Types, ScanOK, BatchOK, Look, IdleScan
<1>3. QED
    BY <1>1, <1>2, ScanTurns DEF IInv, Types, Look

LEMMA CompareKeeps == ASSUME IInv, NEW s \in Scanners, Compare(s) PROVE IInv'
<1>1. Types'
    <2> DEFINE d == IF saved.validity # scan[s].validity THEN [scan[s] EXCEPT !.pc = "first"]
                    ELSE IF SomethingNew(s)
                         THEN [scan[s] EXCEPT !.pc = "list", !.newest = saved.last]
                         ELSE IdleScan
    <2>1. d \in [pc : PCs, validity : Nat, following : Nat, left : SUBSET Uids, newest : Nat]
        BY DEF IInv, Types, IdleScan, PCs
    <2>2. scan' = [scan EXCEPT ![s] = d]
        BY DEF IInv, Types, Compare
    <2>3. QED
        BY <2>1, <2>2 DEF IInv, Types, Compare
<1>2. ScanOK(s) /\ SavedOK /\ Behind(saved.validity, saved.last)
    BY DEF IInv, Positions
<1>3. ScanOK(s)'
    BY <1>2 DEF IInv, Types, ScanOK, SavedOK, Compare, IdleScan
<1>4. BatchOK(s)'
    BY <1>2 DEF IInv, Types, BatchOK, Behind, Known, Compare, IdleScan
<1>5. QED
    BY <1>1, <1>3, <1>4, ScanTurns DEF IInv, Types, Compare

LEMMA BrokenKeeps == ASSUME IInv, NEW s \in Scanners, Broken(s) PROVE IInv'
<1>1. Types'
    BY DEF IInv, Types, Broken, IdleScan, PCs
<1>2. ScanOK(s)' /\ BatchOK(s)'
    BY DEF IInv, Types, ScanOK, BatchOK, Broken, IdleScan
<1>3. QED
    BY <1>1, <1>2, ScanTurns DEF IInv, Types, Broken

LEMMA StartFromNowKeeps == ASSUME IInv, NEW s \in Scanners, StartFromNow(s) PROVE IInv'
<1>1. Types'
    <2>1. scan[s].validity \in Nat /\ scan[s].following - 1 \in Nat
        BY DEF IInv, Types, Positions, ScanOK, StartFromNow
    <2>2. IdleScan \in [pc : PCs, validity : Nat, following : Nat, left : SUBSET Uids, newest : Nat]
        BY DEF IdleScan, PCs
    <2>3. QED
        BY <2>1, <2>2 DEF IInv, Types, StartFromNow
<1>2. EventsOK'
    BY DEF IInv, EventsOK, StartFromNow
<1>3. \A u \in Uids : Known(u) => Known(u)'
    BY DEF StartFromNow, Known
<1>4. ScanOK(s) /\ scan[s].pc = "first" /\ scan[s].following \in Nat
    BY DEF IInv, Types, Positions, StartFromNow
<1>5. SavedOK'
    BY <1>4 DEF IInv, Types, ScanOK, SavedOK, StartFromNow
<1>6. Behind(saved.validity, saved.last)'
    <2>1. SUFFICES ASSUME scan[s].validity = validity, NEW u \in inbox, u <= scan[s].following - 1
                   PROVE  <<validity, u>> \in excused'
        BY DEF StartFromNow, Behind, Known
    <2>2. u \in 1 .. scan[s].following - 1
        BY <1>4, <2>1 DEF IInv, Types, Uids
    <2>3. QED
        BY <2>1, <2>2 DEF StartFromNow
<1>7. ScanOK(s)' /\ BatchOK(s)'
    BY DEF IInv, Types, ScanOK, BatchOK, StartFromNow, IdleScan
<1>8. QED
    BY <1>1, <1>2, <1>3, <1>5, <1>6, <1>7, ScanMoves DEF IInv, Types, StartFromNow

\* What a batch leaves out is excused, whatever Batch is.
LEMMA ListKeeps == ASSUME IInv, NEW s \in Scanners, List(s) PROVE IInv'
<1>1. Batched(s) \subseteq Newer(s) /\ Newer(s) \subseteq inbox
    BY DEF Batched, Newer
<1> HIDE DEF Batched
<1>2. Types'
    <2>1. Batched(s) \in SUBSET Uids /\ "announce" \in PCs
        BY <1>1 DEF IInv, Types, PCs
    <2>2. scan' \in [Scanners -> [pc : PCs, validity : Nat, following : Nat,
                                  left : SUBSET Uids, newest : Nat]]
        BY <2>1 DEF IInv, Types, List
    <2>3. QED
        BY <2>2 DEF IInv, Types, List
<1>3. EventsOK' /\ SavedOK'
    BY DEF IInv, EventsOK, Positions, SavedOK, List
<1>4. \A u \in Uids : Known(u) => Known(u)'
    BY DEF List, Known
<1>5. Behind(saved.validity, saved.last)'
    BY <1>4 DEF IInv, Types, Positions, Behind, List
<1>6. /\ scan'[s] = [scan[s] EXCEPT !.pc = "announce", !.left = Batched(s)]
      /\ scan[s].pc = "list" /\ ScanOK(s) /\ BatchOK(s)
    BY DEF IInv, Types, Positions, List
<1>7. ScanOK(s)'
    BY <1>1, <1>6 DEF IInv, Types, ScanOK, List
<1>8. BatchOK(s)'
    <2>1. Behind(scan[s].validity, scan[s].newest)'
        BY <1>4, <1>6 DEF IInv, Types, BatchOK, Behind, List
    <2>2. \A u \in inbox \ Batched(s) : scan[s].newest < u => Known(u)'
        BY <1>6 DEF IInv, Types, List, Known, Newer, Uids
    <2>3. QED
        BY <1>6, <2>1, <2>2 DEF IInv, Types, BatchOK, List
<1>9. QED
    BY <1>2, <1>3, <1>4, <1>5, <1>7, <1>8, ScanMoves DEF IInv, Types, List

LEMMA SavePositionKeeps == ASSUME IInv, NEW s \in Scanners, SavePosition(s) PROVE IInv'
<1>1. Types'
    BY DEF IInv, Types, SavePosition, Reached, IdleScan, PCs
<1>2. EventsOK'
    BY DEF IInv, EventsOK, SavePosition
<1>3. \A u \in Uids : Known(u) => Known(u)'
    BY DEF SavePosition, Known
<1>4. SavedOK' /\ Behind(saved.validity, saved.last)'
    BY DEF IInv, Types, Positions, ScanOK, BatchOK, Behind, Known, SavedOK, SavePosition, Reached
<1>5. ScanOK(s)' /\ BatchOK(s)'
    BY DEF IInv, Types, ScanOK, BatchOK, SavePosition, IdleScan
<1>6. QED
    BY <1>1, <1>2, <1>3, <1>4, <1>5, ScanMoves DEF IInv, Types, SavePosition

LEMMA PositionLostKeeps == ASSUME IInv, PositionLost PROVE IInv'
<1>1. Types' /\ EventsOK' /\ SavedOK'
    BY DEF IInv, Types, EventsOK, SavedOK, PositionLost, NoPosition
<1>2. Behind(saved.validity, saved.last)'
    BY DEF IInv, Types, Behind, PositionLost, NoPosition
<1>3. \A s \in Scanners : ScanOK(s)' /\ BatchOK(s)'
    BY DEF IInv, Positions, ScanOK, BatchOK, Behind, Known, PositionLost
<1>4. QED
    BY <1>1, <1>2, <1>3 DEF IInv, Positions

-----------------------------------------------------------------------------
LEMMA PastType ==
    ASSUME IInv, NEW s \in Scanners, NEW uid \in Uids
    PROVE  Past(s, uid) \in [Scanners -> [pc : PCs, validity : Nat, following : Nat,
                                          left : SUBSET Uids, newest : Nat]]
<1>1. uid \in Nat
    BY DEF Uids
<1>2. [scan[s] EXCEPT !.left = @ \ {uid}, !.newest = uid]
      \in [pc : PCs, validity : Nat, following : Nat, left : SUBSET Uids, newest : Nat]
    BY <1>1 DEF IInv, Types
<1>3. Past(s, uid) = [scan EXCEPT ![s] = [scan[s] EXCEPT !.left = @ \ {uid}, !.newest = uid]]
    BY DEF IInv, Types, Past
<1>4. QED
    BY <1>2, <1>3 DEF IInv, Types

\* Everything behind the oldest message of a batch is known when it is done.
LEMMA PastKeeps ==
    ASSUME IInv, NEW s \in Scanners, scan[s].pc = "announce",
           NEW uid \in Uids, Oldest(s, uid), scan' = Past(s, uid),
           UNCHANGED <<validity, inbox, following, saved>>,
           Types', EventsOK', \A u \in Uids : Known(u) => Known(u)',
           scan[s].validity = validity /\ uid \in inbox => Known(uid)'
    PROVE  IInv'
<1>1. /\ scan'[s] = [scan[s] EXCEPT !.left = @ \ {uid}, !.newest = uid]
      /\ \A r \in Scanners \ {s} : scan'[r] = scan[r]
    BY DEF IInv, Types, Past
<1>2. /\ uid \in scan[s].left /\ \A w \in scan[s].left : uid <= w
      /\ scan[s].left \subseteq Uids
    BY DEF Oldest, IInv, Types
<1>3. \A n \in Uids : n \in Nat
    BY DEF Uids
<1>4. ScanOK(s) /\ BatchOK(s) /\ inbox \subseteq Uids /\ SavedOK /\ Behind(saved.validity, saved.last)
    BY DEF IInv, Types, Positions
<1>5. SavedOK' /\ Behind(saved.validity, saved.last)'
    BY <1>4 DEF SavedOK, Behind
<1>6. ScanOK(s)'
    BY <1>1, <1>2, <1>4 DEF IInv, Types, ScanOK
<1>7. BatchOK(s)'
    <2>1. SUFFICES ASSUME scan[s].validity = validity
                   PROVE  /\ \A u \in inbox : u <= uid => Known(u)'
                          /\ \A u \in inbox \ (scan[s].left \ {uid}) :
                                uid < u => Known(u)' \/ \A w \in scan[s].left \ {uid} : w < u
        BY <1>1 DEF IInv, Types, BatchOK, Behind
    <2>2. scan[s].newest \in Nat
        BY DEF IInv, Types
    <2>3. /\ \A u \in inbox : u <= scan[s].newest => Known(u)'
          /\ \A u \in inbox \ scan[s].left :
                scan[s].newest < u => Known(u)' \/ \A w \in scan[s].left : w < u
        BY <1>4, <2>1 DEF BatchOK, Behind
    <2>4. ASSUME NEW u \in inbox, u <= uid PROVE Known(u)'
        <3>1. CASE u = uid
            BY <2>1, <3>1
        <3>2. CASE u # uid
            BY <1>2, <1>3, <1>4, <2>2, <2>3, <2>4, <3>2
        <3>3. QED
            BY <3>1, <3>2
    <2>5. ASSUME NEW u \in inbox \ (scan[s].left \ {uid}), uid < u
          PROVE  Known(u)' \/ \A w \in scan[s].left \ {uid} : w < u
        <3>1. u \notin scan[s].left
            BY <1>3, <2>5
        <3>2. QED
            BY <1>3, <1>4, <2>2, <2>3, <2>5, <3>1
    <2>6. QED
        BY <2>4, <2>5
<1>8. QED
    BY <1>1, <1>5, <1>6, <1>7, ScanMoves

\* An event that is queued already has been told, unless it was of another mailbox.
LEMMA AnnounceKeeps ==
    ASSUME MaxBoxes \in Nat, IInv, NEW s \in Scanners, NEW uid \in Uids, Announce(s, uid)
    PROVE  IInv'
<1>1. /\ scan[s].pc = "announce" /\ ScanOK(s)
      /\ EventId(s, uid) = <<scan[s].validity, uid>> /\ <<validity, uid>> \in Messages
    BY DEF IInv, Types, Positions, Announce, EventId, Messages
<1>2. scan' \in [Scanners -> [pc : PCs, validity : Nat, following : Nat,
                              left : SUBSET Uids, newest : Nat]]
    BY PastType DEF Announce
<1>3. CASE uid \in inbox /\ EventId(s, uid) \notin events
    <2>1. /\ events' = events \cup {<<scan[s].validity, uid>>}
          /\ told' = [told EXCEPT ![<<validity, uid>>] = @ + 1]
        BY <1>1, <1>3 DEF Announce
    <2>2. told' \in [Messages -> Nat] /\ told'[<<validity, uid>>] = told[<<validity, uid>>] + 1
        BY <1>1, <2>1 DEF IInv, Types
    <2>3. Types'
        BY <1>2, <2>1, <2>2 DEF IInv, Types, Announce
    <2>4. \A m \in Messages : told[m] \in Nat /\ told'[m] = IF m = <<validity, uid>> THEN told[m] + 1
                                                         ELSE told[m]
        BY <2>1 DEF IInv, Types
    <2>5. scan[s].validity \in 1 .. validity /\ validity \in 1 .. MaxBoxes /\ validity \in Nat
        BY <1>1 DEF ScanOK, IInv, Types
    <2>6. EventsOK'
        <3>1. \A e \in events' : e[1] <= validity'
            BY <2>1, <2>5 DEF IInv, EventsOK, Announce
        <3>2. ASSUME NEW u \in Uids, <<validity, u>> \in events'
              PROVE  told'[<<validity, u>>] > 0
            <4>1. <<validity, u>> \in Messages
                BY <2>5 DEF Messages
            <4>2. CASE u = uid
                BY <2>4, <4>1, <4>2
            <4>3. CASE u # uid
                BY <2>1, <2>4, <3>2, <4>1, <4>3 DEF IInv, EventsOK
            <4>4. QED
                BY <4>2, <4>3
        <3>3. ASSUME NEW u \in Uids
              PROVE  told'[<<1, u>>] <= (IF <<1, u>> \in events' THEN 1 ELSE 0)
            <4> 1 \in 1 .. MaxBoxes
                BY DEF IInv, Types
            <4>1. /\ <<1, u>> \in Messages
                  /\ told[<<1, u>>] <= (IF <<1, u>> \in events THEN 1 ELSE 0)
                BY DEF Messages, IInv, EventsOK
            <4>2. CASE <<1, u>> = <<validity, uid>>
                BY <1>1, <1>3, <2>1, <2>4, <2>5, <4>1, <4>2
            <4>3. CASE <<1, u>> # <<validity, uid>>
                BY <2>1, <2>4, <4>1, <4>3
            <4>4. QED
                BY <4>2, <4>3
        <3>4. QED
            BY <3>1, <3>2, <3>3 DEF EventsOK, Announce
    <2>7. \A u \in Uids : Known(u) => Known(u)'
        BY <2>4, <2>5 DEF Known, Announce, Messages
    <2>8. Known(uid)'
        BY <1>1, <2>4 DEF Known, Announce
    <2>9. QED
        BY <1>1, <2>3, <2>6, <2>7, <2>8, PastKeeps DEF Announce
<1>4. CASE ~(uid \in inbox /\ EventId(s, uid) \notin events)
    <2>1. UNCHANGED <<events, told>>
        BY <1>4 DEF Announce
    <2>2. Types'
        BY <1>2, <2>1 DEF IInv, Types, Announce
    <2>3. EventsOK' /\ \A u \in Uids : Known(u)' <=> Known(u)
        BY <2>1 DEF IInv, EventsOK, Known, Announce
    <2>4. scan[s].validity = validity /\ uid \in inbox => Known(uid)
        BY <1>1, <1>4 DEF IInv, EventsOK, Known
    <2>5. QED
        BY <1>1, <2>2, <2>3, <2>4, PastKeeps DEF Announce
<1>5. QED
    BY <1>3, <1>4

LEMMA NotFetchedKeeps ==
    ASSUME IInv, NEW s \in Scanners, NEW uid \in Uids, NotFetched(s, uid)
    PROVE  IInv'
<1>1. Types'
    BY PastType DEF IInv, Types, NotFetched
<1>2. EventsOK' /\ \A u \in Uids : Known(u) => Known(u)'
    BY DEF IInv, EventsOK, Known, NotFetched
<1>3. uid \in inbox => Known(uid)'
    BY DEF Known, NotFetched
<1>4. QED
    BY <1>1, <1>2, <1>3, PastKeeps DEF NotFetched

-----------------------------------------------------------------------------
\* The inductive invariant of the inbox scan: the positions, what the scans have in
\* hand, and the events agree, for any number of scans, messages and failures.
THEOREM Invariant ==
    ASSUME MaxMail \in Nat, MaxBoxes \in Nat \ {0}
    PROVE  InboxSpec => []IInv
<1>1. IInv /\ [InboxNext]_ivars => IInv'
    <2>1. SUFFICES ASSUME IInv, [InboxNext]_ivars PROVE IInv'
        OBVIOUS
    <2>2. CASE InboxNext
        BY <2>1, <2>2, ArriveKeeps, ExpungeKeeps, RecreateKeeps, PositionLostKeeps, LookKeeps,
           CompareKeeps, StartFromNowKeeps, ListKeeps, SavePositionKeeps, AnnounceKeeps,
           BrokenKeeps, NotFetchedKeeps DEF InboxNext, Scanning
    <2>3. CASE UNCHANGED ivars
        BY <2>1, <2>3 DEF IInv, Types, EventsOK, Positions, SavedOK, Behind, ScanOK, BatchOK,
           Known, ivars
    <2>4. QED
        BY <2>1, <2>2, <2>3
<1>2. QED
    BY InitHolds, <1>1, PTL DEF InboxSpec

\* However scans overlap, break off and lose their position, a message that is behind
\* the position has been announced or left out in one of the known ways.
THEOREM NothingPassedAlways ==
    ASSUME MaxMail \in Nat, MaxBoxes \in Nat \ {0}
    PROVE  InboxSpec => []NothingPassed
<1>1. IInv => NothingPassed
    BY DEF IInv, Types, Positions, Behind, Known, NothingPassed
<1>2. QED
    BY Invariant, <1>1, PTL

\* A message of the first mailbox has one event, however often a batch is read again.
THEOREM AnnouncedOnceAlways ==
    ASSUME MaxMail \in Nat, MaxBoxes \in Nat \ {0}
    PROVE  InboxSpec => []AnnouncedOnce
<1>1. IInv => AnnouncedOnce
    <2>1. SUFFICES ASSUME IInv, NEW u \in Uids PROVE told[<<1, u>>] <= 1
        BY DEF AnnouncedOnce
    <2>2. <<1, u>> \in Messages /\ told[<<1, u>>] \in Nat
        BY <2>1 DEF IInv, Types, Messages
    <2>3. QED
        BY <2>1, <2>2 DEF IInv, EventsOK
<1>2. QED
    BY Invariant, <1>1, PTL
=============================================================================
