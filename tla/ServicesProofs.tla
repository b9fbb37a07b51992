---------------------------- MODULE ServicesProofs ---------------------------
(***************************************************************************)
(* Proofs about the services that watch: containment, the logins of        *)
(* administrators and the bounce guard, for any number of senders, logins, *)
(* processes and failures.                                                 *)
(***************************************************************************)
EXTENDS MCServices, Sums, TLAPS

-----------------------------------------------------------------------------
(* Containment: a resumed sender is not paused for what was forgiven.       *)

Doing == [pc : {"idle", "usage", "pause", "notify", "mark", "clear", "render", "write", "none"} \cup Modes,
          mode : Modes \cup {"none"},
          over : SUBSET Logins, guilty : SUBSET Logins, tainted : SUBSET Logins,
          known : SUBSET Logins, login : SUBSET Logins, view : SUBSET Logins]

ContainmentTypes ==
    /\ counter \in [Logins -> Nat]
    /\ since \in [Logins -> Nat]
    /\ paused \subseteq Logins /\ alerted \subseteq Logins /\ uncleared \subseteq Logins
    /\ doing \in [Procs -> Doing]

\* What a counter holds was sent since the sender was last resumed, unless the
\* resume has not cleared it.
CountedSince == \A l \in Logins \ uncleared : counter[l] <= since[l]

\* Forgiven, of every process.
Fair(d) == d.over \subseteq d.guilty \cup d.tainted
AllFair == \A p \in Procs : Fair(doing[p])

ContainmentInv == ContainmentTypes /\ CountedSince /\ AllFair

-----------------------------------------------------------------------------
LEMMA UpGrows ==
    ASSUME Limit \in Nat, NEW m \in Nat, NEW n \in Nat, m <= n
    PROVE  Up(m) \in Nat /\ Up(m) <= Up(n)
BY DEF Up

LEMMA RestingType == Resting \in Doing /\ Fair(Resting)
BY DEF Resting, Doing, Fair

LEMMA ContainmentStarts == ContainmentInit => ContainmentInv
BY RestingType DEF ContainmentInit, ContainmentInv, ContainmentTypes, CountedSince, AllFair

\* A step that leaves the counters alone and gives one process another state.
LEMMA OneMoves ==
    ASSUME ContainmentInv, NEW p \in Procs, NEW d \in Doing, Fair(d),
           doing' = [doing EXCEPT ![p] = d],
           UNCHANGED <<counter, since, uncleared>>,
           paused' \subseteq Logins, alerted' \subseteq Logins
    PROVE  ContainmentInv'
<1>1. ContainmentTypes'
    BY DEF ContainmentInv, ContainmentTypes
<1>2. CountedSince'
    BY DEF ContainmentInv, CountedSince
<1>3. AllFair'
    BY DEF ContainmentInv, ContainmentTypes, AllFair
<1>4. QED
    BY <1>1, <1>2, <1>3 DEF ContainmentInv

-----------------------------------------------------------------------------
LEMMA SendersKeep ==
    ASSUME Limit \in Nat, ContainmentInv, NEW l \in Logins, Send(l) \/ Expire(l) \/ Forget(l)
    PROVE  ContainmentInv'
<1>1. CASE Send(l)
    <2>1. Up(counter[l]) \in Nat /\ Up(since[l]) \in Nat
          /\ (counter[l] <= since[l] => Up(counter[l]) <= Up(since[l]))
        BY UpGrows DEF ContainmentInv, ContainmentTypes, Up
    <2>2. ContainmentTypes' /\ AllFair'
        BY <1>1, <2>1 DEF ContainmentInv, ContainmentTypes, AllFair, Send
    <2>3. CountedSince'
        BY <1>1, <2>1 DEF ContainmentInv, ContainmentTypes, CountedSince, Send
    <2>4. QED
        BY <2>2, <2>3 DEF ContainmentInv
<1>2. CASE Expire(l)
    <2>1. ContainmentTypes' /\ AllFair'
        BY <1>2 DEF ContainmentInv, ContainmentTypes, AllFair, Expire
    <2>2. CountedSince'
        BY <1>2 DEF ContainmentInv, ContainmentTypes, CountedSince, Expire
    <2>3. QED
        BY <2>1, <2>2 DEF ContainmentInv
<1>3. CASE Forget(l)
    BY <1>3 DEF ContainmentInv, ContainmentTypes, CountedSince, AllFair, Forget
<1>4. QED
    BY <1>1, <1>2, <1>3

\* What an evaluation finds over the limit was sent since, or is not cleared.
LEMMA EvaluationsKeep ==
    ASSUME Limit \in Nat, ContainmentInv, NEW e \in Evaluators,
           (\E mode \in Modes : ReadUsage(e, mode)) \/ Evaluating(e)
    PROVE  ContainmentInv'
<1>1. e \in Procs /\ doing[e] \in Doing /\ Fair(doing[e])
    BY DEF ContainmentInv, ContainmentTypes, AllFair, Procs
<1>2. ASSUME NEW mode \in Modes, ReadUsage(e, mode) PROVE ContainmentInv'
    <2> DEFINE d == [Resting EXCEPT !.pc = "usage", !.mode = mode,
                        !.over = {l \in Logins : counter[l] > Limit},
                        !.guilty = {l \in Logins : since[l] > Limit},
                        !.tainted = uncleared]
    <2>1. d \in Doing
        BY DEF ContainmentInv, ContainmentTypes, Resting, Doing
    <2>2. d.over \subseteq d.guilty \cup d.tainted
        BY DEF ContainmentInv, ContainmentTypes, CountedSince, Resting
    <2>3. doing' = [doing EXCEPT ![e] = d]
        BY <1>2 DEF ReadUsage
    <2>4. QED
        BY <1>1, <1>2, <2>1, <2>2, <2>3, OneMoves DEF ContainmentInv, ContainmentTypes, Fair, ReadUsage
<1>3. CASE ReadPaused(e)
    <2> DEFINE d == [doing[e] EXCEPT !.over = Left(e),
                                     !.pc = IF Left(e) = {} THEN "idle" ELSE doing[e].mode]
    <2>1. d \in Doing /\ Fair(d)
        BY <1>1 DEF Doing, Fair, Left
    <2>2. doing' = [doing EXCEPT ![e] = d]
        BY <1>1, <1>3 DEF ReadPaused, Doing, ContainmentInv, ContainmentTypes
    <2>3. QED
        BY <1>1, <1>3, <2>1, <2>2, OneMoves DEF ContainmentInv, ContainmentTypes, ReadPaused
<1>4. ASSUME NEW l \in Logins, Pause(e, l) PROVE ContainmentInv'
    <2> DEFINE d == [doing[e] EXCEPT !.over = @ \ {l},
                         !.pc = IF l \notin paused THEN "render"
                                ELSE IF doing[e].over = {l} THEN "idle" ELSE "pause"]
    <2>1. d \in Doing /\ Fair(d)
        BY <1>1 DEF Doing, Fair
    <2>2. doing' = [doing EXCEPT ![e] = d]
        BY <1>1, <1>4 DEF Pause, Doing, ContainmentInv, ContainmentTypes
    <2>3. UNCHANGED <<counter, since, uncleared>> /\ paused' \subseteq Logins /\ alerted' \subseteq Logins
        BY <1>4 DEF ContainmentInv, ContainmentTypes, Pause
    <2> HIDE DEF d
    <2>4. QED
        BY <1>1, <2>1, <2>2, <2>3, OneMoves
<1>5. CASE ReadAlerted(e)
    <2> DEFINE d == [doing[e] EXCEPT !.pc = "mark", !.known = alerted]
    <2>1. d \in Doing /\ Fair(d)
        BY <1>1 DEF Doing, Fair, ContainmentInv, ContainmentTypes
    <2>2. doing' = [doing EXCEPT ![e] = d]
        BY <1>1, <1>5 DEF ReadAlerted, Doing, ContainmentInv, ContainmentTypes
    <2>3. QED
        BY <1>1, <1>5, <2>1, <2>2, OneMoves DEF ContainmentInv, ContainmentTypes, ReadAlerted
<1>6. ASSUME NEW l \in Logins, Mark(e, l) PROVE ContainmentInv'
    <2> DEFINE d == [doing[e] EXCEPT !.over = @ \ {l},
                         !.pc = IF doing[e].over = {l} THEN "idle" ELSE "notify"]
    <2>1. d \in Doing /\ Fair(d)
        BY <1>1 DEF Doing, Fair
    <2>2. doing' = [doing EXCEPT ![e] = d]
        BY <1>1, <1>6 DEF Mark, Doing, ContainmentInv, ContainmentTypes
    <2>3. /\ UNCHANGED <<counter, since, uncleared>>
          /\ paused' \subseteq Logins /\ alerted' \subseteq Logins
        BY <1>6 DEF ContainmentInv, ContainmentTypes, Mark
    <2> HIDE DEF d
    <2>4. QED
        BY <1>1, <2>1, <2>2, <2>3, OneMoves
<1>7. QED
    BY <1>2, <1>3, <1>4, <1>5, <1>6 DEF Evaluating

\* Whoever is at work when a sender is resumed has read counters from before.
LEMMA ResumesKeep ==
    ASSUME ContainmentInv, NEW a \in Admins, (\E l \in Logins : Drop(a, l)) \/ Clear(a) \/ ClearFails(a)
    PROVE  ContainmentInv'
<1>1. a \in Procs /\ doing[a] \in Doing /\ Fair(doing[a])
    BY DEF ContainmentInv, ContainmentTypes, AllFair, Procs
<1>2. ASSUME NEW l \in Logins, Drop(a, l) PROVE ContainmentInv'
    <2> DEFINE d(p) == IF p = a THEN [Resting EXCEPT !.pc = "clear", !.login = {l}]
                       ELSE IF doing[p].pc = "idle" THEN doing[p]
                       ELSE [doing[p] EXCEPT !.tainted = @ \cup {l}]
    <2>1. ASSUME NEW p \in Procs PROVE d(p) \in Doing /\ Fair(d(p))
        <3>1. doing[p] \in Doing /\ Fair(doing[p])
            BY DEF ContainmentInv, ContainmentTypes, AllFair
        <3>2. CASE p = a
            BY <3>2 DEF Resting, Doing, Fair
        <3>3. CASE p # a
            BY <3>1, <3>3 DEF Doing, Fair
        <3>4. QED
            BY <3>2, <3>3
    <2>2. doing' = [p \in Procs |-> d(p)]
        BY <1>2 DEF Drop
    <2>3. doing' \in [Procs -> Doing] /\ AllFair'
        BY <2>1, <2>2 DEF AllFair
    <2>4. ContainmentTypes'
        BY <1>2, <2>3 DEF ContainmentInv, ContainmentTypes, Drop
    <2>5. CountedSince'
        <3>1. ASSUME NEW m \in Logins \ uncleared' PROVE counter'[m] <= since'[m]
            <4>1. /\ counter' = counter /\ since' = [since EXCEPT ![l] = 0]
                  /\ uncleared' = IF counter[l] > 0 THEN uncleared \cup {l} ELSE uncleared
                BY <1>2 DEF Drop
            <4>2. m \notin uncleared /\ counter[m] <= since[m]
                BY <3>1, <4>1 DEF ContainmentInv, CountedSince
            <4>3. m = l => ~(counter[m] > 0)
                BY <3>1, <4>1
            <4>4. counter[m] \in Nat /\ since[m] \in Nat /\ since \in [Logins -> Nat]
                BY DEF ContainmentInv, ContainmentTypes
            <4>5. QED
                BY <4>1, <4>2, <4>3, <4>4
        <3>2. QED
            BY <3>1 DEF CountedSince
    <2>6. QED
        BY <2>3, <2>4, <2>5 DEF ContainmentInv
<1>3. CASE Clear(a)
    <2> DEFINE d == [doing[a] EXCEPT !.pc = "render"]
    <2>1. d \in Doing /\ Fair(d)
        BY <1>1 DEF Doing, Fair
    <2>2. PICK l \in Logins : /\ counter' = Cleared(l)
                              /\ since' = [since EXCEPT ![l] = 0]
                              /\ uncleared' = uncleared \ {l}
        BY <1>1, <1>3 DEF Clear, Doing
    <2>3. doing' = [doing EXCEPT ![a] = d]
        BY <1>1, <1>3 DEF Clear, Doing, ContainmentInv, ContainmentTypes
    <2>4. doing' \in [Procs -> Doing] /\ AllFair'
        BY <1>1, <2>1, <2>3 DEF ContainmentInv, ContainmentTypes, AllFair
    <2>5. ContainmentTypes'
        BY <1>3, <2>2, <2>4 DEF ContainmentInv, ContainmentTypes, Clear, Cleared
    <2>6. CountedSince'
        BY <2>2 DEF ContainmentInv, ContainmentTypes, CountedSince, Cleared
    <2>7. QED
        BY <2>4, <2>5, <2>6 DEF ContainmentInv
<1>4. CASE ClearFails(a)
    <2> DEFINE d == [doing[a] EXCEPT !.pc = "render"]
    <2>1. d \in Doing /\ Fair(d)
        BY <1>1 DEF Doing, Fair
    <2>2. doing' = [doing EXCEPT ![a] = d]
        BY <1>1, <1>4 DEF ClearFails, Doing, ContainmentInv, ContainmentTypes
    <2>3. QED
        BY <1>1, <1>4, <2>1, <2>2, OneMoves DEF ContainmentInv, ContainmentTypes, ClearFails
<1>5. QED
    BY <1>2, <1>3, <1>4

\* Publishing reads who is paused and touches no counter.
LEMMA PublishersKeep ==
    ASSUME ContainmentInv, NEW p \in Procs, Render(p) \/ Write(p) \/ WriteFails(p) \/ Die(p)
    PROVE  ContainmentInv'
<1>1. doing[p] \in Doing /\ Fair(doing[p])
    BY DEF ContainmentInv, ContainmentTypes, AllFair
<1>2. CASE Render(p)
    <2> DEFINE d == [doing[p] EXCEPT !.pc = "write", !.view = Listed]
    <2>1. d \in Doing /\ Fair(d)
        BY <1>1 DEF Doing, Fair, Listed, ContainmentInv, ContainmentTypes
    <2>2. doing' = [doing EXCEPT ![p] = d]
        BY <1>1, <1>2 DEF Render, Doing, ContainmentInv, ContainmentTypes
    <2>3. QED
        BY <1>1, <1>2, <2>1, <2>2, OneMoves DEF ContainmentInv, ContainmentTypes, Render
<1>3. CASE Write(p) \/ WriteFails(p)
    <2> DEFINE d == [doing[p] EXCEPT !.view = {}, !.login = {},
                                     !.pc = IF doing[p].over = {} THEN "idle" ELSE "pause"]
    <2>1. d \in Doing /\ Fair(d)
        BY <1>1 DEF Doing, Fair
    <2>2. doing' = [doing EXCEPT ![p] = d]
        BY <1>1, <1>3 DEF Write, WriteFails, Rest, Doing, ContainmentInv, ContainmentTypes
    <2>3. QED
        BY <1>1, <1>3, <2>1, <2>2, OneMoves DEF ContainmentInv, ContainmentTypes, Write, WriteFails
<1>4. CASE Die(p)
    BY <1>4, RestingType, OneMoves DEF ContainmentInv, ContainmentTypes, Die
<1>5. QED
    BY <1>2, <1>3, <1>4

LEMMA ReconcileKeeps == ASSUME ContainmentInv, Reconcile PROVE ContainmentInv'
<1> DEFINE d == [doing["reconcile"] EXCEPT !.pc = "render"]
<1>1. "reconcile" \in Procs /\ doing["reconcile"] \in Doing /\ Fair(doing["reconcile"])
    BY DEF ContainmentInv, ContainmentTypes, AllFair, Procs
<1>2. d \in Doing /\ Fair(d)
    BY <1>1 DEF Doing, Fair
<1>3. doing' = [doing EXCEPT !["reconcile"] = d]
    BY <1>1 DEF Reconcile, Doing, ContainmentInv, ContainmentTypes
<1>4. QED
    BY <1>1, <1>2, <1>3, OneMoves DEF ContainmentInv, ContainmentTypes, Reconcile

-----------------------------------------------------------------------------
\* However evaluations, resumes and failures overlap, nobody is about to be paused
\* for messages that were forgiven before the evaluation began.
THEOREM ForgivenAlways ==
    ASSUME Limit \in Nat
    PROVE  ContainmentSpec => []Forgiven
<1>1. ContainmentInv /\ [ContainmentNext]_cvars => ContainmentInv'
    <2>1. SUFFICES ASSUME ContainmentInv, [ContainmentNext]_cvars PROVE ContainmentInv'
        OBVIOUS
    <2>2. CASE ContainmentNext
        BY <2>1, <2>2, SendersKeep, EvaluationsKeep, ResumesKeep, PublishersKeep,
           ReconcileKeeps DEF ContainmentNext
    <2>3. CASE UNCHANGED cvars
        BY <2>1, <2>3 DEF ContainmentInv, ContainmentTypes, CountedSince, AllFair, Fair, cvars
    <2>4. QED
        BY <2>1, <2>2, <2>3
<1>2. ContainmentInv => Forgiven
    BY DEF ContainmentInv, AllFair, Fair, Forgiven, Procs
<1>3. QED
    BY ContainmentStarts, <1>1, <1>2, PTL DEF ContainmentSpec

-----------------------------------------------------------------------------
(* Administrators: one is left.                                             *)

Operations == Removals \cup WholeRow \cup {"enable", "promote", "create", "appoint", "none"}

AdministratorsTypes ==
    /\ login \in [Users -> Row]
    /\ deed \in [Consoles -> [op : Operations, user : Users, row : Row]]
    /\ crossed \in BOOLEAN

AnAdmin == \E u \in Users : IsAdmin(u, login[u])

\* A removal that passed the check still leaves somebody else.
Covered == \A c \in Consoles : Checked(deed[c].op, deed[c].user) => OtherAdmin(deed[c].user)

AdministratorsInv == AdministratorsTypes /\ (crossed \/ (AnAdmin /\ Covered))

-----------------------------------------------------------------------------
LEMMA NoDeedType ==
    ASSUME Users # {}
    PROVE  NoDeed \in [op : Operations, user : Users, row : Row] /\ NoDeed.op = "none"
BY DEF NoDeed, Operations, Gone, Row

\* What is saved is a row, and only a removal takes an administrator away.
LEMMA SavedKeeps ==
    ASSUME NEW op \in Operations \ {"none"}, NEW u \in Users, NEW row \in Row, NEW old \in Row
    PROVE  /\ Saved(op, row, old) \in Row
           /\ op \notin Removals /\ IsAdmin(u, row) /\ (op \in WholeRow => row = old)
              => IsAdmin(u, Saved(op, row, old))
           /\ op = "demote" /\ u \in Superusers /\ IsAdmin(u, row)
              => IsAdmin(u, Saved(op, row, old))
<1>1. CASE op = "delete"
    BY <1>1 DEF Saved, Removals, Row, Gone
<1>2. CASE op = "password"
    BY <1>2 DEF Saved, WholeRow, Row, IsAdmin
<1>3. CASE op = "accept"
    BY <1>3 DEF Saved, WholeRow, Row, IsAdmin
<1>4. CASE op = "adopt"
    BY <1>4 DEF Saved, WholeRow, Row, IsAdmin
<1>5. CASE op \in {"create", "appoint"}
    BY <1>5 DEF Saved, Row, IsAdmin
<1>6. CASE op \in {"enable", "disable"}
    BY <1>6 DEF Saved, Removals, Row, Gone, IsAdmin
<1>7. CASE op \in {"promote", "demote"}
    BY <1>7 DEF Saved, Removals, Row, Gone, IsAdmin
<1>8. QED
    BY <1>1, <1>2, <1>3, <1>4, <1>5, <1>6, <1>7 DEF Operations, Removals, WholeRow

LEMMA AdministratorsStart == AdministratorsInit => AdministratorsInv
<1>1. SUFFICES ASSUME AdministratorsInit PROVE AdministratorsInv
    OBVIOUS
<1>2. Users # {} /\ AnAdmin
    BY <1>1 DEF AdministratorsInit, AnAdmin
<1>3. AdministratorsTypes
    BY <1>1, <1>2, NoDeedType DEF AdministratorsInit, AdministratorsTypes
<1>4. Covered
    BY <1>1, <1>2, NoDeedType DEF AdministratorsInit, Covered, Checked
<1>5. QED
    BY <1>2, <1>3, <1>4 DEF AdministratorsInv

-----------------------------------------------------------------------------
LEMMA ReadKeeps ==
    ASSUME AdministratorsInv, NEW c \in Consoles, NEW u \in Users,
           NEW op \in Removals \cup WholeRow \cup {"enable", "promote", "create", "appoint"},
           Read(c, op, u)
    PROVE  AdministratorsInv'
<1>1. AdministratorsTypes'
    BY DEF AdministratorsInv, AdministratorsTypes, Read, Operations
<1>2. CASE crossed
    BY <1>1, <1>2 DEF AdministratorsInv, Read
<1>3. CASE AnAdmin /\ Covered
    <2>1. AnAdmin'
        BY <1>3 DEF AnAdmin, Read
    <2>2. ASSUME NEW d \in Consoles, Checked(deed[d].op, deed[d].user)'
          PROVE  OtherAdmin(deed[d].user)'
        <3>1. CASE d # c
            BY <1>3, <2>2, <3>1 DEF AdministratorsInv, AdministratorsTypes, Covered, Read, OtherAdmin, Checked
        <3>2. CASE d = c
            <4>1. Checked(op, u) /\ deed[d].user' = u
                BY <2>2, <3>2 DEF AdministratorsInv, AdministratorsTypes, Read, Checked
            <4>2. OtherAdmin(u)
                BY <1>3, <4>1 DEF Read, AnAdmin, OtherAdmin
            <4>3. QED
                BY <4>1, <4>2 DEF Read, OtherAdmin
        <3>3. QED
            BY <3>1, <3>2
    <2>3. QED
        BY <1>1, <2>1, <2>2 DEF AdministratorsInv, Covered
<1>4. QED
    BY <1>2, <1>3 DEF AdministratorsInv

LEMMA SaveKeeps ==
    ASSUME AdministratorsInv, NEW c \in Consoles, Save(c)
    PROVE  AdministratorsInv'
<1> DEFINE op == deed[c].op
           u == deed[c].user
           row == Saved(op, login[u], deed[c].row)
<1>1. /\ op \in Operations \ {"none"} /\ u \in Users
      /\ login[u] \in Row /\ deed[c].row \in Row
    BY DEF AdministratorsInv, AdministratorsTypes, Save
<1>2. /\ login' = [login EXCEPT ![u] = row]
      /\ deed' = [deed EXCEPT ![c] = NoDeed]
      /\ crossed' = \/ crossed
                    \/ op \in WholeRow /\ login[u] # deed[c].row
                    \/ op \in Removals /\ \E d \in Consoles \ {c} : deed[d].op \in Removals
    BY <1>1 DEF Save
<1>3. NoDeed \in [op : Operations, user : Users, row : Row] /\ NoDeed.op = "none"
    BY <1>1, NoDeedType
<1>4. row \in Row
    BY <1>1, SavedKeeps
<1>5. AdministratorsTypes'
    BY <1>1, <1>2, <1>3, <1>4 DEF AdministratorsInv, AdministratorsTypes
<1>6. /\ login'[u] = row
      /\ \A v \in Users \ {u} : login'[v] = login[v]
      /\ deed'[c].op = "none"
      /\ \A d \in Consoles \ {c} : deed'[d] = deed[d]
    BY <1>1, <1>2, <1>3 DEF AdministratorsInv, AdministratorsTypes
<1>7. CASE crossed'
    BY <1>5, <1>7 DEF AdministratorsInv
<1>8. CASE ~crossed'
    <2>1. AnAdmin /\ Covered
        BY <1>2, <1>8 DEF AdministratorsInv
    <2>2. CASE op \in Removals
        <3>1. \A d \in Consoles \ {c} : deed[d].op \notin Removals
            BY <1>2, <1>8, <2>2
        <3>2. \A d \in Consoles : deed'[d].op \notin Removals
            BY <1>6, <3>1 DEF Removals
        <3>3. Covered'
            BY <3>2 DEF Covered, Checked, Removals
        <3>4. AnAdmin'
            <4>1. CASE Checked(op, u)
                <5>1. PICK v \in Users \ {u} : IsAdmin(v, login[v])
                    BY <2>1, <4>1 DEF Covered, OtherAdmin
                <5>2. QED
                    BY <1>6, <5>1 DEF AnAdmin, IsAdmin
            <4>2. CASE ~Checked(op, u)
                <5>1. op = "demote" /\ u \in Superusers
                    BY <2>2, <4>2 DEF Checked, Removals
                <5>2. PICK v \in Users : IsAdmin(v, login[v])
                    BY <2>1 DEF AnAdmin
                <5>3. CASE v = u
                    <6>1. IsAdmin(u, row)
                        BY <1>1, <5>1, <5>2, <5>3, SavedKeeps
                    <6>2. QED
                        BY <1>1, <1>6, <6>1 DEF AnAdmin, IsAdmin
                <5>4. CASE v # u
                    BY <1>6, <5>2, <5>4 DEF AnAdmin, IsAdmin
                <5>5. QED
                    BY <5>3, <5>4
            <4>3. QED
                BY <4>1, <4>2
        <3>5. QED
            BY <1>5, <3>3, <3>4 DEF AdministratorsInv
    <2>3. CASE op \notin Removals
        <3>1. ASSUME NEW v \in Users, IsAdmin(v, login[v])
              PROVE  IsAdmin(v, login'[v])
            <4>1. CASE v = u
                <5>1. op \in WholeRow => login[u] = deed[c].row
                    BY <1>2, <1>8
                <5>2. IsAdmin(u, row)
                    BY <1>1, <2>3, <3>1, <4>1, <5>1, SavedKeeps
                <5>3. QED
                    BY <1>6, <4>1, <5>2
            <4>2. CASE v # u
                BY <1>6, <3>1, <4>2
            <4>3. QED
                BY <4>1, <4>2
        <3>2. AnAdmin'
            BY <2>1, <3>1 DEF AnAdmin, IsAdmin
        <3>3. ASSUME NEW d \in Consoles, Checked(deed'[d].op, deed'[d].user)
              PROVE  \E v \in Users \ {deed'[d].user} : IsAdmin(v, login'[v])
            <4>1. d # c
                BY <1>6, <3>3 DEF Checked
            <4>2. deed'[d] = deed[d]
                BY <1>6, <4>1
            <4>3. PICK v \in Users \ {deed[d].user} : IsAdmin(v, login[v])
                BY <2>1, <3>3, <4>2 DEF Covered, OtherAdmin
            <4>4. QED
                BY <3>1, <4>2, <4>3
        <3>4. Covered'
            BY <3>3 DEF Covered, OtherAdmin, IsAdmin, Checked
        <3>5. QED
            BY <1>5, <3>2, <3>4 DEF AdministratorsInv
    <2>4. QED
        BY <2>2, <2>3
<1>9. QED
    BY <1>7, <1>8

-----------------------------------------------------------------------------
\* However many consoles change, disable, delete and invite logins at once, an
\* administrator is left unless two removals or an old row crossed.
THEOREM AdministratorLeftAlways == AdministratorsSpec => []AdministratorLeft
<1>1. AdministratorsInv /\ [AdministratorsNext]_avars => AdministratorsInv'
    <2>1. SUFFICES ASSUME AdministratorsInv, [AdministratorsNext]_avars PROVE AdministratorsInv'
        OBVIOUS
    <2>2. CASE AdministratorsNext
        BY <2>1, <2>2, ReadKeeps, SaveKeeps DEF AdministratorsNext
    <2>3. CASE UNCHANGED avars
        BY <2>1, <2>3 DEF AdministratorsInv, AdministratorsTypes, AnAdmin, Covered, OtherAdmin, avars
    <2>4. QED
        BY <2>1, <2>2, <2>3
<1>2. AdministratorsInv => AdministratorLeft
    BY DEF AdministratorsInv, AnAdmin, AdministratorLeft
<1>3. QED
    BY AdministratorsStart, <1>1, <1>2, PTL DEF AdministratorsSpec

-----------------------------------------------------------------------------
(* The bounce guard: what a key is paused for, and that none escapes.         *)

Times == 0 .. MaxTicks
Steps == {"idle", "ok", "bounced", "check", "rate", "hold"}
Kept == [count : Nat, since : Nat]

GuardTypes ==
    /\ clock \in Times
    /\ ok \in Kept /\ bounced \in Kept
    /\ held \in BOOLEAN
    /\ resuming \in {{}, {"bounced"}, {"ok", "bounced"}}
    /\ counting \in [Counters -> [pc : Steps, batch : Nat \X Nat, ok : Nat, bounced : Nat]]
    /\ results \in [Times -> Nat \X Nat]
    /\ doubt \in BOOLEAN /\ missedOne \in BOOLEAN

\* Who counts has something to count; a counter that is there has not expired.
Busy == \A s \in Counters : counting[s].pc # "idle" => counting[s].batch # <<0, 0>>
Lasting(tally) == tally.count > 0 => tally.since <= clock /\ clock < tally.since + Day

\* Everything counted of one kind since the counters were last said to be empty.
Given(kind) == [t \in Times |-> results[t][kind]]
Total(kind) == Cardinality(Spots(Given(kind), Times))

\* A counter that holds just that, and all of it since it began.
Matches(tally, kind) ==
    /\ tally.count = Total(kind)
    /\ \A t \in Times : results[t][kind] # 0
                        => tally.count > 0 /\ tally.since <= t /\ t <= clock

\* Whoever has added something.
Counted(s) == \/ counting[s].pc \in {"check", "rate", "hold"}
              \/ counting[s].pc = "bounced" /\ counting[s].batch[1] # 0

\* What a scan has read of the counters is what is in them.
ReadTrue(s) ==
    /\ counting[s].pc \in {"rate", "hold"} => counting[s].ok = ok.count
    /\ counting[s].pc = "hold" => counting[s].bounced = bounced.count

\* While nothing is in doubt, the counters hold the results, or are still to be
\* deleted and nothing has been counted since.
Certain ==
    /\ resuming = {} => Matches(ok, 1) /\ Matches(bounced, 2)
    /\ resuming # {} => \A t \in Times : results[t] = <<0, 0>>
    /\ resuming = {"bounced"} => ok.count = 0
    /\ \A s \in Counters : Counted(s) => resuming = {}

GuardInv ==
    /\ GuardTypes /\ Busy /\ Lasting(ok) /\ Lasting(bounced)
    /\ doubt \/ Certain
    /\ verdict # "unfair"

\* Somebody who has still to compare what is in the counters now.
Looks(s) == counting[s].pc \in {"bounced", "check", "rate", "hold"} /\ ReadTrue(s)
Escaped == resuming = {} /\ ~held /\ ~missedOne /\ Over(ok.count, bounced.count)
Watched == Escaped => \E s \in Counters : Looks(s)

-----------------------------------------------------------------------------
(* Sums of results.                                                         *)

LEMMA TimesFinite == IsFiniteSet(Times)
<1>1. 0 \in Int /\ MaxTicks \in Int
    BY GuardAssumption
<1>2. QED
    BY <1>1, FS_Interval DEF Times

LEMMA GivenType ==
    ASSUME GuardTypes, NEW kind \in {1, 2}
    PROVE  /\ Given(kind) \in [Times -> Nat]
           /\ \A t \in Times : results[t][kind] \in Nat /\ Given(kind)[t] = results[t][kind]
<1>1. ASSUME NEW t \in Times PROVE results[t][kind] \in Nat
    <2>1. results[t] \in Nat \X Nat
        BY DEF GuardTypes
    <2>2. QED
        BY <2>1
<1>2. QED
    BY <1>1 DEF Given

LEMMA TotalType ==
    ASSUME GuardTypes, NEW kind \in {1, 2}
    PROVE  Total(kind) \in Nat
BY GivenType, TimesFinite, SpotsFinite DEF Total

LEMMA NothingCounted ==
    ASSUME \A t \in Times : results[t] = <<0, 0>>, NEW kind \in {1, 2}
    PROVE  Total(kind) = 0
<1>1. \A t \in Times : Given(kind)[t] = 0
    BY DEF Given
<1>2. Spots(Given(kind), Times) = {}
    BY <1>1 DEF Spots
<1>3. QED
    BY <1>2, FS_EmptySet, Zenon DEF Total

\* A result more.
LEMMA OneMore ==
    ASSUME GuardTypes, NEW kind \in {1, 2}, NEW other \in {1, 2} \ {kind}, NEW amount \in Nat,
           results' = [results EXCEPT ![clock][kind] = @ + amount]
    PROVE  /\ results' \in [Times -> Nat \X Nat]
           /\ Total(kind)' = Total(kind) + amount
           /\ Total(other)' = Total(other)
           /\ \A t \in Times : results'[t][other] = results[t][other]
           /\ \A t \in Times : t # clock => results'[t][kind] = results[t][kind]
<1>1. /\ clock \in Times /\ results \in [Times -> Nat \X Nat]
      /\ results[clock] \in Nat \X Nat
    BY DEF GuardTypes
<1>2. PICK good \in Nat, bad \in Nat : results[clock] = <<good, bad>>
    BY <1>1
<1>3. /\ kind = 1 => results' = [results EXCEPT ![clock] = <<good + amount, bad>>]
      /\ kind = 2 => results' = [results EXCEPT ![clock] = <<good, bad + amount>>]
    <2>1. /\ [<<good, bad>> EXCEPT ![1] = good + amount] = <<good + amount, bad>>
          /\ [<<good, bad>> EXCEPT ![2] = bad + amount] = <<good, bad + amount>>
        OBVIOUS
    <2>2. results[clock][1] = good /\ results[clock][2] = bad
        BY <1>2
    <2>3. results' = [results EXCEPT ![clock] = [results[clock] EXCEPT ![kind] = results[clock][kind] + amount]]
        BY <1>1
    <2>4. CASE kind = 1
        BY <1>2, <2>1, <2>2, <2>3, <2>4
    <2>5. CASE kind = 2
        BY <1>2, <2>1, <2>2, <2>3, <2>5
    <2>6. QED
        BY <2>4, <2>5
<1>4. /\ results' \in [Times -> Nat \X Nat]
      /\ results'[clock][kind] = results[clock][kind] + amount
      /\ results'[clock][other] = results[clock][other]
      /\ \A t \in Times : t # clock => results'[t] = results[t]
    <2>1. CASE kind = 1
        BY <1>1, <1>2, <1>3, <2>1
    <2>2. CASE kind = 2
        BY <1>1, <1>2, <1>3, <2>2
    <2>3. QED
        BY <2>1, <2>2
<1>5. /\ Given(kind) \in [Times -> Nat] /\ Given(other) \in [Times -> Nat]
      /\ Given(kind)[clock] \in Nat
    BY <1>1, GivenType
<1>6. \A k \in {1, 2} : \A t \in Times : Given(k)'[t] = results'[t][k] /\ Given(k)[t] = results[t][k]
    BY DEF Given, Times
<1>7. Given(other)' = Given(other)
    BY <1>4 DEF Given, Times
<1>8. Total(other)' = Total(other)
    BY <1>7 DEF Total, Times
<1>9. /\ Given(kind)' \in [Times -> Nat]
      /\ Given(kind)'[clock] = Given(kind)[clock] + amount
      /\ \A t \in Times \ {clock} : Given(kind)[t] = Given(kind)'[t]
    <2>1. \A t \in Times : results'[t][kind] \in Nat
        <3>1. ASSUME NEW t \in Times PROVE results'[t][kind] \in Nat
            <4>1. results'[t] \in Nat \X Nat
                BY <1>4
            <4>2. QED
                BY <4>1
        <3>2. QED
            BY <3>1
    <2>2. Given(kind)' = [t \in Times |-> results'[t][kind]]
        BY DEF Given, Times
    <2>3. QED
        BY <1>1, <1>4, <1>6, <2>1, <2>2
<1>10. PICK m \in [Times -> Nat] : m = Given(kind)
    BY <1>5
<1>11. PICK n \in [Times -> Nat] : n = Given(kind)'
    BY <1>9
<1>12. PICK rest \in Nat :
          /\ Cardinality(Spots(m, Times)) = rest + (IF clock \in Times THEN m[clock] ELSE 0)
          /\ Cardinality(Spots(n, Times)) = rest + (IF clock \in Times THEN n[clock] ELSE 0)
    <2>1. \A q \in Times \ {clock} : m[q] = n[q]
        BY <1>9, <1>10, <1>11
    <2>2. QED
        BY <2>1, TimesFinite, Weigh
<1>13. Total(kind)' = Cardinality(Spots(n, Times)) /\ Total(kind) = Cardinality(Spots(m, Times))
    BY <1>10, <1>11 DEF Total, Times
<1>14. n[clock] = m[clock] + amount /\ m[clock] \in Nat
    BY <1>1, <1>9, <1>10, <1>11
<1>15. Total(kind)' = Total(kind) + amount
    BY <1>1, <1>12, <1>13, <1>14
<1>16. QED
    BY <1>1, <1>4, <1>8, <1>15

\* What a lasting counter holds was counted today.
LEMMA CountedInTheDay ==
    ASSUME GuardTypes, NEW kind \in {1, 2}, NEW tally \in Kept,
           Lasting(tally), Matches(tally, kind)
    PROVE  CountedToday(kind) = tally.count
<1>1. clock \in Nat /\ Day \in Nat /\ tally.since \in Nat /\ Times \subseteq Nat /\ 0 .. clock \subseteq Times
    BY GuardAssumption DEF GuardTypes, Times, Kept
<1>2. ASSUME NEW t \in Times, t \notin Today PROVE results[t][kind] = 0
    <2>1. CASE results[t][kind] # 0
        <3>1. tally.since <= t /\ t <= clock /\ clock < tally.since + Day
            BY <2>1 DEF Matches, Lasting
        <3>2. QED
            BY <1>1, <1>2, <3>1 DEF Today
    <2>2. QED
        BY <2>1
<1>3. Today \subseteq Times
    BY <1>1 DEF Today
<1>4. \A t \in Times : Given(kind)[t] = results[t][kind]
    BY DEF Given
<1>5. Spots(Given(kind), Times) = UNION {{t} \X (1 .. results[t][kind]) : t \in Today}
    <2>1. \A t \in Times \ Today : {t} \X (1 .. results[t][kind]) = {}
        BY <1>2
    <2>2. Spots(Given(kind), Times) = UNION {{t} \X (1 .. results[t][kind]) : t \in Times}
        BY <1>4 DEF Spots
    <2>3. QED
        BY <1>3, <2>1, <2>2
<1>6. QED
    BY <1>5, Zenon DEF Total, CountedToday, Matches

-----------------------------------------------------------------------------
(* One step at a time.                                                      *)

Count == [pc : Steps, batch : Nat \X Nat, ok : Nat, bounced : Nat]

LEMMA GuardStarts == GuardInit => GuardInv
<1>1. SUFFICES ASSUME GuardInit PROVE GuardInv
    OBVIOUS
<1>2. <<0, 0>> \in Nat \X Nat /\ 0 \in Times
    BY GuardAssumption DEF Times
<1>3. Waiting \in [pc : Steps, batch : Nat \X Nat, ok : Nat, bounced : Nat] /\ Waiting.pc = "idle"
    BY <1>2 DEF Waiting, Steps
<1>4. Empty \in Kept /\ Empty.count = 0
    BY DEF Empty, Kept
<1>5. GuardTypes
    BY <1>1, <1>2, <1>3, <1>4 DEF GuardInit, GuardTypes, Times
<1>6. Busy /\ Lasting(ok) /\ Lasting(bounced)
    BY <1>1, <1>3, <1>4 DEF GuardInit, Busy, Lasting
<1>7. \A t \in Times : results[t] = <<0, 0>>
    BY <1>1 DEF GuardInit, Times
<1>8. \A kind \in {1, 2} : Total(kind) = 0 /\ \A t \in Times : results[t][kind] = 0
    BY <1>7, NothingCounted
<1>9. Matches(ok, 1) /\ Matches(bounced, 2)
    BY <1>1, <1>4, <1>8 DEF GuardInit, Matches
<1>10. \A s \in Counters : ~Counted(s) /\ ReadTrue(s)
    BY <1>1, <1>3 DEF GuardInit, Counted, ReadTrue
<1>11. Certain
    BY <1>1, <1>9, <1>10 DEF GuardInit, Certain
<1>12. verdict # "unfair"
    BY <1>1 DEF GuardInit
<1>13. QED
    BY <1>5, <1>6, <1>11, <1>12 DEF GuardInv

\* What is in a counter that is there, and in one that was not.
LEMMA PlusKeeps ==
    ASSUME GuardTypes, NEW tally \in Kept, Lasting(tally), NEW amount \in Nat \ {0}
    PROVE  /\ Plus(tally, amount) \in Kept
           /\ Plus(tally, amount).count = tally.count + amount
           /\ Plus(tally, amount).since <= clock
           /\ clock < Plus(tally, amount).since + Day
           /\ tally.count > 0 => Plus(tally, amount).since = tally.since
<1>1. clock \in Nat /\ Day \in Nat \ {0} /\ tally.count \in Nat /\ tally.since \in Nat
    BY GuardAssumption DEF GuardTypes, Times, Kept
<1>2. CASE tally.count = 0
    <2>1. Plus(tally, amount) = [count |-> amount, since |-> clock]
        BY <1>2 DEF Plus
    <2>2. QED
        BY <1>1, <1>2, <2>1 DEF Kept
<1>3. CASE tally.count # 0
    <2>1. Plus(tally, amount) = [tally EXCEPT !.count = tally.count + amount]
        BY <1>3 DEF Plus
    <2>2. /\ Plus(tally, amount) \in Kept
          /\ Plus(tally, amount).count = tally.count + amount
          /\ Plus(tally, amount).since = tally.since
        BY <1>1, <2>1 DEF Kept
    <2>3. tally.since <= clock /\ clock < tally.since + Day
        BY <1>1, <1>3 DEF Lasting
    <2>4. QED
        BY <2>2, <2>3
<1>4. QED
    BY <1>2, <1>3

\* A scan that goes on while the counters, the pause and the results stay.
LEMMA OneGoesOn ==
    ASSUME GuardInv, NEW s \in Counters, NEW d \in Count,
           counting' = [counting EXCEPT ![s] = d],
           UNCHANGED <<clock, ok, bounced, resuming, results, doubt>>,
           held' \in BOOLEAN, missedOne' \in BOOLEAN, verdict' # "unfair",
           d.pc # "idle" => d.batch # <<0, 0>>,
           doubt \/ ((d.pc \in {"check", "rate", "hold"}
                      \/ (d.pc = "bounced" /\ d.batch[1] # 0)) => resuming = {})
    PROVE  GuardInv'
<1>1. counting' \in [Counters -> Count] /\ counting'[s] = d
      /\ \A c \in Counters \ {s} : counting'[c] = counting[c]
    BY DEF GuardInv, GuardTypes, Count
<1>2. GuardTypes'
    BY <1>1 DEF GuardInv, GuardTypes, Count, Times
<1>3. Busy' /\ Lasting(ok)' /\ Lasting(bounced)'
    BY <1>1 DEF GuardInv, Busy, Lasting
<1>4. ASSUME ~doubt, NEW c \in Counters PROVE Counted(c)' => resuming' = {}
    <2>1. CASE c = s
        BY <1>1, <1>4, <2>1 DEF Counted
    <2>2. CASE c # s
        BY <1>1, <1>4, <2>2 DEF GuardInv, Certain, Counted
    <2>3. QED
        BY <2>1, <2>2
<1>5. Total(1)' = Total(1) /\ Total(2)' = Total(2)
    BY DEF Total, Given, Times
<1>6. ASSUME ~doubt PROVE Certain'
    <2>1. resuming = {} => Matches(ok, 1)' /\ Matches(bounced, 2)'
        BY <1>5, <1>6 DEF GuardInv, Certain, Matches, Times
    <2>2. resuming # {} => \A t \in Times : results'[t] = <<0, 0>>
        BY <1>6 DEF GuardInv, Certain
    <2>3. resuming = {"bounced"} => ok'.count = 0
        BY <1>6 DEF GuardInv, Certain
    <2>4. QED
        BY <1>4, <1>6, <2>1, <2>2, <2>3 DEF Certain, Times
<1>7. QED
    BY <1>2, <1>3, <1>6 DEF GuardInv

LEMMA CountType ==
    ASSUME GuardInv, NEW s \in Counters
    PROVE  /\ counting[s] \in Count
           /\ counting[s].batch \in Nat \X Nat
           /\ counting[s].batch[1] \in Nat /\ counting[s].batch[2] \in Nat
           /\ counting[s].pc # "idle" => counting[s].batch[1] # 0 \/ counting[s].batch[2] # 0
<1>1. counting[s] \in Count
    BY DEF GuardInv, GuardTypes, Count
<1>2. counting[s].batch \in Nat \X Nat
    BY <1>1 DEF Count
<1>3. PICK good \in Nat, bad \in Nat : counting[s].batch = <<good, bad>>
    BY <1>2
<1>4. counting[s].pc # "idle" => <<good, bad>> # <<0, 0>>
    BY <1>3 DEF GuardInv, Busy
<1>5. QED
    BY <1>1, <1>2, <1>3, <1>4

LEMMA NothingType ==
    ASSUME GuardInv
    PROVE  Nothing \in [Times -> Nat \X Nat] /\ \A t \in Times : Nothing[t] = <<0, 0>>
<1>1. Nothing = [t \in Times |-> <<0, 0>>]
    BY DEF Nothing, GuardInv, GuardTypes
<1>2. <<0, 0>> \in Nat \X Nat
    OBVIOUS
<1>3. QED
    BY <1>1, <1>2

LEMMA BeginKeeps ==
    ASSUME GuardInv, NEW s \in Counters, NEW batch \in Batches, BeginCount(s, batch)
    PROVE  GuardInv'
<1>1. batch \in Nat \X Nat /\ batch # <<0, 0>>
    BY GuardAssumption
<1>2. PICK d : d = [Waiting EXCEPT !.pc = "ok", !.batch = batch]
    OBVIOUS
<1>3. d = [pc |-> "ok", batch |-> batch, ok |-> 0, bounced |-> 0]
    BY <1>2 DEF Waiting
<1>4. d \in Count /\ d.pc = "ok" /\ d.batch = batch
    BY <1>1, <1>3 DEF Count, Steps
<1>5. /\ counting' = [counting EXCEPT ![s] = d]
      /\ UNCHANGED <<clock, ok, bounced, held, resuming, results, doubt, missedOne, verdict>>
    BY <1>2 DEF BeginCount
<1>6. QED
    BY <1>1, <1>4, <1>5, OneGoesOn DEF GuardInv, GuardTypes

\* A scan adds to a counter.
LEMMA AddKeeps ==
    ASSUME GuardInv, NEW s \in Counters, NEW d \in Count,
           counting[s].pc \in {"ok", "bounced"}, d.pc \in {"bounced", "check"},
           d.batch # <<0, 0>>,
           counting' = [counting EXCEPT ![s] = d],
           NEW kind \in {1, 2}, NEW amount \in Nat \ {0},
           kind = 1 => ok' = Plus(ok, amount) /\ bounced' = bounced,
           kind = 2 => bounced' = Plus(bounced, amount) /\ ok' = ok,
           Noted(kind, amount), UNCHANGED <<clock, held, resuming>>
    PROVE  GuardInv'
<1>1. counting' \in [Counters -> Count] /\ counting'[s] = d
      /\ \A c \in Counters \ {s} : counting'[c] = counting[c]
    BY DEF GuardInv, GuardTypes, Count
<1>2. /\ results' = [results EXCEPT ![clock][kind] = @ + amount]
      /\ doubt' = (doubt \/ resuming # {}) /\ missedOne' = FALSE /\ verdict' = verdict
    BY DEF Noted
<1>3. GuardTypes /\ ok \in Kept /\ bounced \in Kept /\ Lasting(ok) /\ Lasting(bounced)
    BY DEF GuardInv, GuardTypes
<1>4. /\ kind = 1 => ok' \in Kept /\ Lasting(ok)' /\ ok'.count > 0
      /\ kind = 2 => bounced' \in Kept /\ Lasting(bounced)'
    <2>1. ok.count \in Nat /\ bounced.count \in Nat
        BY <1>3 DEF Kept
    <2>2. ASSUME NEW tally \in Kept, Lasting(tally), NEW more, more = Plus(tally, amount)
          PROVE  /\ more \in Kept /\ more.count > 0
                 /\ more.since <= clock /\ clock < more.since + Day
        <3>1. /\ more \in Kept /\ more.count = tally.count + amount
              /\ more.since <= clock /\ clock < more.since + Day
            BY <1>3, <2>2, PlusKeeps
        <3>2. tally.count \in Nat
            BY DEF Kept
        <3>3. QED
            BY <3>1, <3>2
    <2>3. CASE kind = 1
        BY <1>3, <2>2, <2>3 DEF Lasting
    <2>4. CASE kind = 2
        BY <1>3, <2>2, <2>4 DEF Lasting
    <2>5. QED
        BY <2>3, <2>4
<1>5. ok' \in Kept /\ bounced' \in Kept /\ Lasting(ok)' /\ Lasting(bounced)'
    BY <1>3, <1>4 DEF Lasting
<1>6. results' \in [Times -> Nat \X Nat]
    <2>1. PICK other \in {1, 2} \ {kind} : TRUE
        OBVIOUS
    <2>2. QED
        BY <1>2, <1>3, <2>1, OneMore
<1>7. GuardTypes'
    BY <1>1, <1>2, <1>3, <1>5, <1>6 DEF GuardTypes, Count, Times
<1>8. Busy'
    BY <1>1 DEF GuardInv, Busy
<1>9. ASSUME ~doubt' PROVE Certain'
    <2>1. resuming = {} /\ Matches(ok, 1) /\ Matches(bounced, 2)
        BY <1>2, <1>9 DEF GuardInv, Certain
    <2>2. Matches(ok, 1)' /\ Matches(bounced, 2)'
        <3>1. PICK other \in {1, 2} \ {kind} : TRUE
            OBVIOUS
        <3>2. PICK first : first = IF kind = 1 THEN ok ELSE bounced
            OBVIOUS
        <3>3. PICK second : second = IF kind = 1 THEN bounced ELSE ok
            OBVIOUS
        <3>4. PICK more : more = Plus(first, amount)
            OBVIOUS
        <3>5. /\ first \in Kept /\ Lasting(first) /\ Matches(first, kind)
              /\ second \in Kept /\ Matches(second, other)
            BY <1>3, <2>1, <3>1, <3>2, <3>3
        <3>6. /\ more.count = Total(kind)'
              /\ \A t \in Times : results'[t][kind] # 0
                                  => more.count > 0 /\ more.since <= t /\ t <= clock
              /\ second.count = Total(other)'
              /\ \A t \in Times : results'[t][other] # 0
                                  => second.count > 0 /\ second.since <= t /\ t <= clock
            <4>1. /\ Total(kind)' = Total(kind) + amount /\ Total(other)' = Total(other)
                  /\ \A t \in Times : results'[t][other] = results[t][other]
                  /\ \A t \in Times : t # clock => results'[t][kind] = results[t][kind]
                BY <1>2, <1>3, <3>1, OneMore
            <4>2. /\ more.count = first.count + amount /\ more.since <= clock
                  /\ first.count > 0 => more.since = first.since
                BY <1>3, <3>4, <3>5, PlusKeeps
            <4>3. first.count \in Nat /\ clock \in Nat
                BY <1>3, <3>5 DEF Kept, GuardTypes, Times
            <4>4. more.count = Total(kind)' /\ more.count > 0
                BY <3>5, <4>1, <4>2, <4>3 DEF Matches
            <4>5. ASSUME NEW t \in Times, results'[t][kind] # 0
                  PROVE  more.since <= t /\ t <= clock
                <5>1. CASE t = clock
                    BY <4>2, <4>3, <5>1
                <5>2. CASE t # clock
                    <6>1. first.count > 0 /\ first.since <= t /\ t <= clock
                        BY <3>5, <4>1, <4>5, <5>2 DEF Matches
                    <6>2. QED
                        BY <4>2, <6>1
                <5>3. QED
                    BY <5>1, <5>2
            <4>6. /\ second.count = Total(other)'
                  /\ \A t \in Times : results'[t][other] # 0
                                      => second.count > 0 /\ second.since <= t /\ t <= clock
                BY <3>5, <4>1 DEF Matches
            <4>7. QED
                BY <4>4, <4>5, <4>6
        <3>7. CASE kind = 1
            <4>1. other = 2 /\ ok' = more /\ bounced' = second
                BY <3>1, <3>2, <3>3, <3>4, <3>7
            <4>2. QED
                BY <3>6, <3>7, <4>1 DEF Matches, Times
        <3>8. CASE kind = 2
            <4>1. other = 1 /\ bounced' = more /\ ok' = second
                BY <3>1, <3>2, <3>3, <3>4, <3>8
            <4>2. QED
                BY <3>6, <3>8, <4>1 DEF Matches, Times
        <3>9. QED
            BY <3>7, <3>8
    <2>3. resuming' = {}
        BY <2>1
    <2>4. QED
        BY <2>2, <2>3 DEF Certain
<1>10. verdict' # "unfair"
    BY <1>2 DEF GuardInv
<1>11. QED
    BY <1>5, <1>7, <1>8, <1>9, <1>10 DEF GuardInv

LEMMA AddOkKeeps ==
    ASSUME GuardInv, NEW s \in Counters, AddOk(s)
    PROVE  GuardInv'
<1>1. PICK d : d = [counting[s] EXCEPT !.pc = "bounced"]
    OBVIOUS
<1>2. /\ d \in Count /\ d.pc = "bounced" /\ d.batch = counting[s].batch
      /\ d.batch # <<0, 0>> /\ counting[s].pc = "ok"
    BY <1>1, CountType DEF Count, Steps, AddOk, GuardInv, Busy
<1>3. counting' = [counting EXCEPT ![s] = d]
    BY <1>1 DEF AddOk
<1>4. CASE counting[s].batch[1] = 0
    <2>1. UNCHANGED <<clock, ok, bounced, held, resuming, results, doubt, missedOne, verdict>>
        BY <1>4 DEF AddOk, history
    <2>2. QED
        BY <1>2, <1>3, <1>4, <2>1, OneGoesOn DEF GuardInv, GuardTypes
<1>5. CASE counting[s].batch[1] # 0
    <2>1. PICK amount \in Nat \ {0} : amount = counting[s].batch[1]
        BY <1>5, CountType
    <2>2. /\ ok' = Plus(ok, amount) /\ Noted(1, amount)
          /\ UNCHANGED <<clock, bounced, held, resuming>>
        BY <1>5, <2>1 DEF AddOk
    <2>3. /\ 1 \in {1, 2}
          /\ 1 = 1 => ok' = Plus(ok, amount) /\ bounced' = bounced
          /\ 1 = 2 => bounced' = Plus(bounced, amount) /\ ok' = ok
        BY <2>2
    <2>4. QED
        BY <1>2, <1>3, <2>2, <2>3, AddKeeps
<1>6. QED
    BY <1>4, <1>5

LEMMA AddBouncedKeeps ==
    ASSUME GuardInv, NEW s \in Counters, AddBounced(s)
    PROVE  GuardInv'
<1>1. PICK d : d = [counting[s] EXCEPT !.pc = "check"]
    OBVIOUS
<1>2. /\ d \in Count /\ d.pc = "check" /\ d.batch = counting[s].batch
      /\ d.batch # <<0, 0>> /\ counting[s].pc = "bounced"
    BY <1>1, CountType DEF Count, Steps, AddBounced, GuardInv, Busy
<1>3. counting' = [counting EXCEPT ![s] = d]
    BY <1>1 DEF AddBounced, After
<1>4. CASE counting[s].batch[2] = 0
    <2>1. UNCHANGED <<clock, ok, bounced, held, resuming, results, doubt, missedOne, verdict>>
        BY <1>4 DEF AddBounced, history
    <2>2. counting[s].batch[1] # 0
        BY <1>2, <1>4, CountType
    <2>3. doubt \/ resuming = {}
        BY <1>2, <2>2 DEF GuardInv, Certain, Counted
    <2>4. QED
        BY <1>2, <1>3, <2>1, <2>3, OneGoesOn DEF GuardInv, GuardTypes
<1>5. CASE counting[s].batch[2] # 0
    <2>1. PICK amount \in Nat \ {0} : amount = counting[s].batch[2]
        BY <1>5, CountType
    <2>2. /\ bounced' = Plus(bounced, amount) /\ Noted(2, amount)
          /\ UNCHANGED <<clock, ok, held, resuming>>
        BY <1>5, <2>1 DEF AddBounced
    <2>3. /\ 2 \in {1, 2}
          /\ 2 = 1 => ok' = Plus(ok, amount) /\ bounced' = bounced
          /\ 2 = 2 => bounced' = Plus(bounced, amount) /\ ok' = ok
        BY <2>2
    <2>4. QED
        BY <1>2, <1>3, <2>2, <2>3, AddKeeps
<1>6. QED
    BY <1>4, <1>5

LEMMA ReadsKeep ==
    ASSUME GuardInv, NEW s \in Counters, ReadOk(s) \/ ReadBounced(s)
    PROVE  GuardInv'
<1>1. ok.count \in Nat /\ bounced.count \in Nat
    BY DEF GuardInv, GuardTypes, Kept
<1>2. counting[s].pc # "idle" => counting[s].batch # <<0, 0>>
    BY DEF GuardInv, Busy
<1>3. counting[s].pc \in {"check", "rate"} => doubt \/ resuming = {}
    BY DEF GuardInv, Certain, Counted
<1>4. CASE ReadOk(s)
    <2>1. PICK d : d = [counting[s] EXCEPT !.pc = "rate", !.ok = ok.count]
        OBVIOUS
    <2>2. d \in Count /\ d.pc = "rate" /\ d.batch = counting[s].batch /\ d.ok = ok.count
        BY <1>1, <2>1, CountType DEF Count, Steps
    <2>3. /\ counting[s].pc = "check" /\ counting' = [counting EXCEPT ![s] = d]
          /\ UNCHANGED <<clock, ok, bounced, held, resuming, results, doubt, missedOne, verdict>>
        BY <1>4, <2>1 DEF ReadOk, history
    <2>4. QED
        BY <1>2, <1>3, <2>2, <2>3, OneGoesOn DEF GuardInv, GuardTypes
<1>5. CASE ReadBounced(s)
    <2>1. PICK d : d = [counting[s] EXCEPT !.pc = "hold", !.bounced = bounced.count]
        OBVIOUS
    <2>2. /\ d \in Count /\ d.pc = "hold" /\ d.batch = counting[s].batch
          /\ d.ok = counting[s].ok /\ d.bounced = bounced.count
        BY <1>1, <2>1, CountType DEF Count, Steps
    <2>3. /\ counting[s].pc = "rate" /\ counting' = [counting EXCEPT ![s] = d]
          /\ UNCHANGED <<clock, ok, bounced, held, resuming, results, doubt, missedOne, verdict>>
        BY <1>5, <2>1 DEF ReadBounced, history
    <2>4. QED
        BY <1>2, <1>3, <2>2, <2>3, OneGoesOn DEF GuardInv, GuardTypes
<1>6. QED
    BY <1>4, <1>5

\* Who pauses a key compares what was counted, or is in doubt, or outdated.
LEMMA HoldKeeps ==
    ASSUME GuardInv, NEW s \in Counters, Hold(s)
    PROVE  GuardInv'
<1>1. Waiting \in Count /\ Waiting.pc = "idle"
    BY DEF Waiting, Count, Steps
<1>2. /\ counting[s].pc = "hold" /\ counting' = [counting EXCEPT ![s] = Waiting]
      /\ held' = (held \/ Over(counting[s].ok, counting[s].bounced))
      /\ UNCHANGED <<clock, ok, bounced, resuming, results, doubt, missedOne>>
    BY DEF Hold
<1>3. ASSUME ~doubt, ~Outdated(s), held' # held PROVE OverToday
    <2>1. /\ Matches(ok, 1) /\ Matches(bounced, 2)
          /\ counting[s].ok = ok.count /\ counting[s].bounced = bounced.count
        BY <1>2, <1>3 DEF GuardInv, Certain, Counted, Outdated
    <2>2. CountedToday(1) = ok.count /\ CountedToday(2) = bounced.count
        BY <2>1, CountedInTheDay DEF GuardInv, GuardTypes
    <2>3. ASSUME ~Over(counting[s].ok, counting[s].bounced) PROVE FALSE
        <3>1. held \in BOOLEAN /\ held' = held
            BY <1>2, <2>3 DEF GuardInv, GuardTypes
        <3>2. QED
            BY <1>3, <3>1
    <2>4. QED
        BY <2>1, <2>2, <2>3 DEF OverToday
<1>4. verdict' # "unfair"
    BY <1>3 DEF Hold, GuardInv
<1>5. held' \in BOOLEAN
    BY <1>2 DEF GuardInv, GuardTypes
<1>6. QED
    BY <1>1, <1>2, <1>4, <1>5, OneGoesOn DEF GuardInv, GuardTypes

LEMMA UnansweredKeeps ==
    ASSUME GuardInv, NEW s \in Counters, Unanswered(s)
    PROVE  GuardInv'
<1>1. PICK pc : pc = CASE counting[s].pc = "ok" -> "bounced"
                       [] counting[s].pc = "bounced" -> "check" [] OTHER -> "idle"
    OBVIOUS
<1>2. PICK d : d = [counting[s] EXCEPT !.pc = pc]
    OBVIOUS
<1>3. counting' = [counting EXCEPT ![s] = d]
    <2>1. counting[s] \in Count /\ counting \in [Counters -> Count]
        BY CountType DEF GuardInv, GuardTypes, Count
    <2>2. counting' = [counting EXCEPT ![s].pc =
               CASE counting[s].pc = "ok" -> "bounced"
                 [] counting[s].pc = "bounced" -> "check" [] OTHER -> "idle"]
        BY DEF Unanswered
    <2>3. QED
        BY <1>1, <1>2, <2>1, <2>2
<1>4. pc \in Steps
    BY <1>1 DEF Steps
<1>5. d \in Count /\ d.batch = counting[s].batch
    BY <1>2, <1>4, CountType DEF Count
<1>6. /\ doubt' = (doubt \/ counting[s].pc \in {"ok", "bounced"})
      /\ missedOne' = TRUE /\ counting[s].pc # "idle"
      /\ UNCHANGED <<clock, ok, bounced, held, resuming, results, verdict>>
    BY DEF Unanswered
<1>7. counting' \in [Counters -> Count] /\ counting'[s] = d
      /\ \A c \in Counters \ {s} : counting'[c] = counting[c]
    BY <1>3, <1>5 DEF GuardInv, GuardTypes, Count
<1>8. CASE counting[s].pc \in {"ok", "bounced"}
    <2>1. GuardTypes'
        BY <1>6, <1>7 DEF GuardInv, GuardTypes, Count, Times
    <2>2. Busy' /\ Lasting(ok)' /\ Lasting(bounced)'
        BY <1>5, <1>6, <1>7 DEF GuardInv, Busy, Lasting
    <2>3. QED
        BY <1>6, <1>8, <2>1, <2>2 DEF GuardInv
<1>9. CASE counting[s].pc \notin {"ok", "bounced"}
    <2>1. doubt' = doubt /\ pc = "idle" /\ d.pc = "idle"
        BY <1>1, <1>2, <1>6, <1>9, CountType DEF GuardInv, GuardTypes, Count
    <2>2. held' \in BOOLEAN /\ verdict' # "unfair" /\ missedOne' \in BOOLEAN
        BY <1>6 DEF GuardInv, GuardTypes
    <2>3. QED
        BY <1>3, <1>5, <1>6, <2>1, <2>2, OneGoesOn
<1>10. QED
    BY <1>8, <1>9

\* A resume that begins forgives everything, also one that cannot delete the pause.
LEMMA ResumeKeeps ==
    ASSUME GuardInv, Resume
    PROVE  GuardInv'
<1>1. /\ resuming' = {"ok", "bounced"} /\ missedOne' = TRUE
      /\ doubt' = \E s \in Counters : counting[s].pc \notin {"idle", "ok"}
      /\ UNCHANGED <<clock, ok, bounced, counting>>
    BY DEF Resume
<1>2. results' \in [Times -> Nat \X Nat] /\ \A t \in Times : results'[t] = <<0, 0>>
    BY NothingType DEF Resume, GuardInv
<1>3. doubt' \in BOOLEAN
    BY <1>1
<1>4. held' \in BOOLEAN /\ verdict' # "unfair"
    BY DEF Resume, GuardInv, GuardTypes
<1>5. GuardTypes'
    BY <1>1, <1>2, <1>3, <1>4 DEF GuardInv, GuardTypes, Times
<1>6. Busy' /\ Lasting(ok)' /\ Lasting(bounced)'
    BY <1>1 DEF GuardInv, Busy, Lasting
<1>7. ASSUME ~doubt' PROVE Certain'
    <2>1. \A s \in Counters : counting'[s].pc \in {"idle", "ok"}
        BY <1>1, <1>7
    <2>2. \A s \in Counters : ~Counted(s)'
        BY <2>1 DEF Counted
    <2>3. resuming' # {} /\ resuming' # {"bounced"}
        BY <1>1
    <2>4. QED
        BY <1>2, <2>2, <2>3 DEF Certain, Times
<1>8. QED
    BY <1>4, <1>5, <1>6, <1>7 DEF GuardInv

\* A counter is deleted, or stays in doubt, or was empty anyway.
LEMMA DeletesKeep ==
    ASSUME GuardInv, DeleteOk \/ DeleteBounced
    PROVE  GuardInv'
<1>1. Empty \in Kept /\ Empty.count = 0
    BY DEF Empty, Kept
<1>2. ok \in Kept /\ bounced \in Kept /\ missedOne \in BOOLEAN /\ doubt \in BOOLEAN
    BY DEF GuardInv, GuardTypes
<1>3. resuming # {} /\ UNCHANGED <<clock, held, counting, results, verdict>>
    BY DEF DeleteOk, DeleteBounced
<1>4. \/ /\ ok' \in {ok, Empty} /\ bounced' = bounced /\ resuming' = {"bounced"}
         /\ ok' = Empty \/ doubt' = (doubt \/ ok.count > 0)
      \/ /\ bounced' \in {bounced, Empty} /\ ok' = ok /\ resuming' = {} /\ resuming = {"bounced"}
         /\ bounced' = Empty \/ doubt' = (doubt \/ bounced.count > 0)
    BY DEF DeleteOk, DeleteBounced, Forgotten
<1>5. doubt' \in BOOLEAN /\ missedOne' \in BOOLEAN /\ (doubt => doubt')
    BY <1>2 DEF DeleteOk, DeleteBounced
<1>6. ok' \in Kept /\ bounced' \in Kept
      /\ resuming' \in {{}, {"bounced"}, {"ok", "bounced"}}
    BY <1>1, <1>2, <1>4
<1>7. GuardTypes'
    BY <1>3, <1>5, <1>6 DEF GuardInv, GuardTypes, Times
<1>8. Busy' /\ Lasting(ok)' /\ Lasting(bounced)'
    BY <1>1, <1>3, <1>4 DEF GuardInv, Busy, Lasting
<1>9. ASSUME ~doubt' PROVE Certain'
    <2>1. /\ \A t \in Times : results[t] = <<0, 0>>
          /\ \A s \in Counters : ~Counted(s)
          /\ resuming = {"bounced"} => ok.count = 0
        BY <1>3, <1>5, <1>9 DEF GuardInv, Certain
    <2>2. \A t \in Times : results'[t] = <<0, 0>>
        BY <1>3, <2>1
    <2>3. \A s \in Counters : ~Counted(s)'
        BY <1>3, <2>1 DEF Counted
    <2>4. /\ resuming' = {"bounced"} => ok'.count = 0
          /\ resuming' = {} => bounced'.count = 0 /\ ok'.count = 0
        <3>1. ok.count \in Nat /\ bounced.count \in Nat
            BY <1>2 DEF Kept
        <3>2. (~(ok.count > 0) => ok.count = 0) /\ (~(bounced.count > 0) => bounced.count = 0)
            BY <3>1
        <3>3. QED
            BY <1>1, <1>4, <1>9, <2>1, <3>2
    <2>5. ASSUME resuming' = {} PROVE Matches(ok, 1)' /\ Matches(bounced, 2)'
        <3>1. Total(1) = 0 /\ Total(2) = 0
            BY <2>1, NothingCounted
        <3>2. Total(1)' = Total(1) /\ Total(2)' = Total(2)
            BY <1>3 DEF Total, Given, Times
        <3>3. \A t \in Times : results'[t][1] = 0 /\ results'[t][2] = 0
            BY <2>2
        <3>4. QED
            BY <2>4, <2>5, <3>1, <3>2, <3>3 DEF Matches, Times
    <2>6. QED
        BY <2>2, <2>3, <2>4, <2>5 DEF Certain, Times
<1>10. QED
    BY <1>3, <1>7, <1>8, <1>9 DEF GuardInv

\* Time passes: a counter that is due expires, and nothing is certain any more, unless
\* none is left and the count begins anew.
LEMMA TickKeeps ==
    ASSUME GuardInv, Tick
    PROVE  GuardInv'
<1>1. /\ clock < MaxTicks /\ clock' = clock + 1
      /\ ok' = Later(ok) /\ bounced' = Later(bounced)
      /\ results' = (IF Afresh THEN Nothing ELSE results)
      /\ doubt' = (~Afresh /\ (doubt \/ Due(ok) \/ Due(bounced)))
      /\ missedOne' = (missedOne \/ Due(ok) \/ Due(bounced))
      /\ UNCHANGED <<held, counting, resuming, verdict>>
    BY DEF Tick
<1>2. clock \in Nat /\ MaxTicks \in Nat /\ Day \in Nat \ {0} /\ clock' \in Times
    BY <1>1, GuardAssumption DEF GuardInv, GuardTypes, Times
<1>3. Empty \in Kept /\ Empty.count = 0
    BY DEF Empty, Kept
<1>4. ok \in Kept /\ bounced \in Kept
    BY DEF GuardInv, GuardTypes
<1>5. ASSUME NEW tally \in Kept, Lasting(tally), ~Due(tally), tally.count > 0
      PROVE  tally.since <= clock + 1 /\ clock + 1 < tally.since + Day
    <2>1. tally.since \in Nat
        BY DEF Kept
    <2>2. tally.since <= clock
        BY <1>5 DEF Lasting
    <2>3. ~(clock + 1 >= tally.since + Day)
        BY <1>5 DEF Due
    <2>4. QED
        BY <1>2, <2>1, <2>2, <2>3
<1>6. Lasting(ok)' /\ ok' \in Kept
    <2>1. CASE Due(ok)
        BY <1>1, <1>3, <2>1 DEF Lasting, Later
    <2>2. CASE ~Due(ok)
        BY <1>1, <1>4, <1>5, <2>2 DEF Lasting, GuardInv, Later
    <2>3. QED
        BY <2>1, <2>2
<1>7. Lasting(bounced)' /\ bounced' \in Kept
    <2>1. CASE Due(bounced)
        BY <1>1, <1>3, <2>1 DEF Lasting, Later
    <2>2. CASE ~Due(bounced)
        BY <1>1, <1>4, <1>5, <2>2 DEF Lasting, GuardInv, Later
    <2>3. QED
        BY <2>1, <2>2
<1>8. doubt' \in BOOLEAN /\ missedOne' \in BOOLEAN
    BY <1>1 DEF Due, Afresh
<1>9. results' \in [Times -> Nat \X Nat]
    BY <1>1, NothingType DEF GuardInv, GuardTypes
<1>10. GuardTypes'
    BY <1>1, <1>2, <1>6, <1>7, <1>8, <1>9 DEF GuardInv, GuardTypes, Times
<1>11. Busy'
    BY <1>1 DEF GuardInv, Busy
<1>12. CASE Afresh
    <2>1. /\ ok'.count = 0 /\ bounced'.count = 0 /\ resuming' = {}
          /\ \A s \in Counters : counting'[s].pc = "idle"
        BY <1>1, <1>12 DEF Afresh
    <2>2. \A t \in Times : results'[t] = <<0, 0>>
        BY <1>1, <1>12, NothingType DEF GuardInv
    <2>3. Total(1)' = 0 /\ Total(2)' = 0
        <3>1. ASSUME NEW kind \in {1, 2} PROVE Total(kind)' = 0
            <4>1. \A t \in Times : Given(kind)'[t] = 0
                BY <2>2 DEF Given, Times
            <4>2. Spots(Given(kind), Times)' = {}
                BY <4>1 DEF Spots, Times
            <4>3. QED
                BY <4>2, FS_EmptySet, Zenon DEF Total
        <3>2. QED
            BY <3>1
    <2>4. Matches(ok, 1)' /\ Matches(bounced, 2)'
        BY <2>1, <2>2, <2>3 DEF Matches, Times
    <2>5. Certain'
        BY <2>1, <2>2, <2>4 DEF Certain, Counted, Times
    <2>6. QED
        BY <1>1, <1>6, <1>7, <1>10, <1>11, <2>5 DEF GuardInv
<1>13. CASE ~Afresh
    <2>1. ASSUME ~doubt' PROVE Certain'
        <3>1. ok' = ok /\ bounced' = bounced /\ results' = results /\ Certain
            BY <1>1, <1>13, <2>1 DEF GuardInv, Later
        <3>2. Total(1)' = Total(1) /\ Total(2)' = Total(2)
            BY <3>1 DEF Total, Given, Times
        <3>3. \A t \in Times : t \in Nat /\ (t <= clock => t <= clock')
            BY <1>1, <1>2, GuardAssumption DEF Times
        <3>4. resuming = {} => Matches(ok, 1)' /\ Matches(bounced, 2)'
            BY <1>1, <3>1, <3>2, <3>3 DEF Certain, Matches, Times
        <3>5. \A s \in Counters : Counted(s)' => resuming' = {}
            BY <1>1, <3>1 DEF Certain, Counted
        <3>6. QED
            BY <1>1, <3>1, <3>4, <3>5 DEF Certain, Times
    <2>2. QED
        BY <1>1, <1>6, <1>7, <1>10, <1>11, <2>1 DEF GuardInv
<1>14. QED
    BY <1>12, <1>13

LEMMA GuardKeeps == GuardInv /\ [GuardNext]_gvars => GuardInv'
<1>1. SUFFICES ASSUME GuardInv, [GuardNext]_gvars PROVE GuardInv'
    OBVIOUS
<1>2. CASE GuardNext
    BY <1>1, <1>2, BeginKeeps, AddOkKeeps, AddBouncedKeeps, ReadsKeep, HoldKeeps, UnansweredKeeps,
       ResumeKeeps, DeletesKeep, TickKeeps DEF GuardNext
<1>3. CASE UNCHANGED gvars
    <2>1. UNCHANGED <<clock, ok, bounced, held, counting, resuming, results, doubt, missedOne, verdict>>
        BY <1>3 DEF gvars, history
    <2>2. GuardTypes' /\ Busy' /\ Lasting(ok)' /\ Lasting(bounced)'
        BY <1>1, <2>1 DEF GuardInv, GuardTypes, Busy, Lasting, Times
    <2>3. Total(1)' = Total(1) /\ Total(2)' = Total(2)
        BY <2>1 DEF Total, Given, Times
    <2>4. Certain => Certain'
        BY <2>1, <2>3 DEF Certain, Matches, Counted, Times
    <2>5. QED
        BY <1>1, <2>1, <2>2, <2>4 DEF GuardInv
<1>4. QED
    BY <1>1, <1>2, <1>3

-----------------------------------------------------------------------------
\* For any number of scans that count, and whatever expires or fails meanwhile, a key
\* is paused only for what was counted since it was last resumed and its counters were
\* last empty, unless a counter was lost, expired before the other, outlived a resume or
\* was added to while one went on, or another scan counted between the look and the pause.
THEOREM PausedForItsResultsAlways == GuardSpec => []PausedForItsResults
<1>1. GuardInv => PausedForItsResults
    BY DEF GuardInv, PausedForItsResults
<1>2. QED
    BY GuardStarts, GuardKeeps, <1>1, PTL DEF GuardSpec

\* Without bounces nobody is over the limit.
LEMMA NoBounces ==
    ASSUME NEW good \in Nat PROVE ~Over(good, 0)
<1>1. MinMessages \in Nat \ {0} /\ BounceLimit \in Nat \ {0}
    BY GuardAssumption
<1>2. CASE good = 0
    BY <1>1, <1>2 DEF Over
<1>3. CASE good # 0
    <2>1. Rate(good, 0) = good \div (2 * good)
        BY DEF Rate
    <2>2. good \div (2 * good) = 0
        BY <1>3
    <2>3. Rate(good, 0) = 0
        BY <2>1, <2>2
    <2>4. ~(0 > 10 * BounceLimit)
        BY <1>1
    <2>5. ~(Rate(good, 0) > 10 * BounceLimit)
        BY <2>3, <2>4
    <2>6. QED
        BY <2>5, Zenon DEF Over
<1>4. QED
    BY <1>2, <1>3

\* The scan that added last looks last; what it sees nobody else has changed, unless
\* something was lost.
LEMMA WatchedKeeps == GuardInv /\ Watched /\ [GuardNext]_gvars => Watched'
<1>1. SUFFICES ASSUME GuardInv, Watched, [GuardNext]_gvars, Escaped'
               PROVE  \E s \in Counters : Looks(s)'
    BY DEF Watched
<1>2. /\ resuming' = {} /\ ~held' /\ ~missedOne' /\ Over(ok'.count, bounced'.count)
      /\ held \in BOOLEAN /\ missedOne \in BOOLEAN
      /\ counting \in [Counters -> Count]
    BY <1>1 DEF Escaped, GuardInv, GuardTypes, Count, Over, Rate
<1>3. ASSUME NEW c \in Counters, counting'[c].pc \in {"bounced", "check"}
      PROVE  Looks(c)'
    BY <1>3 DEF Looks, ReadTrue
<1>4. ASSUME UNCHANGED <<ok, bounced, resuming, missedOne>>, ~held
      PROVE  \E c \in Counters : Looks(c)
    <2>1. Escaped
        BY <1>2, <1>4 DEF Escaped
    <2>2. QED
        BY <1>1, <2>1 DEF Watched
<1>5. ASSUME NEW c \in Counters, Looks(c), counting'[c] = counting[c], UNCHANGED <<ok, bounced>>
      PROVE  Looks(c)'
    BY <1>5 DEF Looks, ReadTrue
<1>6. ASSUME NEW s \in Counters,
             (\E batch \in Batches : BeginCount(s, batch)) \/ AddOk(s) \/ AddBounced(s)
             \/ ReadOk(s) \/ ReadBounced(s) \/ Hold(s) \/ Unanswered(s)
      PROVE  \E c \in Counters : Looks(c)'
    <2>1. ASSUME NEW batch \in Batches, BeginCount(s, batch) PROVE \E c \in Counters : Looks(c)'
        <3>1. PICK c \in Counters : Looks(c)
            BY <1>2, <1>4, <2>1 DEF BeginCount
        <3>2. c # s
            BY <2>1, <3>1 DEF BeginCount, Looks
        <3>3. counting'[c] = counting[c]
            BY <1>2, <2>1, <3>2 DEF BeginCount
        <3>4. QED
            BY <1>5, <2>1, <3>1, <3>3 DEF BeginCount
    <2>2. CASE AddOk(s) \/ AddBounced(s)
        <3>1. counting'[s].pc \in {"bounced", "check"}
            BY <1>2, <2>2 DEF AddOk, AddBounced, After, Count
        <3>2. QED
            BY <1>3, <3>1
    <2>3. CASE ReadOk(s) \/ ReadBounced(s)
        <3>1. UNCHANGED <<ok, bounced, resuming, missedOne, held>>
            BY <2>3 DEF ReadOk, ReadBounced, history
        <3>2. PICK c \in Counters : Looks(c)
            BY <1>2, <1>4, <3>1
        <3>3. CASE c = s
            <4>1. /\ counting'[s].pc \in {"rate", "hold"} /\ counting'[s].ok = ok.count
                  /\ counting'[s].pc = "hold" => counting'[s].bounced = bounced.count
                BY <1>2, <2>3, <3>2, <3>3 DEF ReadOk, ReadBounced, Looks, ReadTrue, Count
            <4>2. QED
                BY <3>1, <4>1 DEF Looks, ReadTrue
        <3>4. CASE c # s
            <4>1. counting'[c] = counting[c]
                BY <1>2, <2>3, <3>4 DEF ReadOk, ReadBounced
            <4>2. QED
                BY <1>5, <3>1, <3>2, <4>1
        <3>5. QED
            BY <3>3, <3>4
    <2>4. CASE Hold(s)
        <3>1. /\ UNCHANGED <<ok, bounced, resuming, missedOne>>
              /\ held' = (held \/ Over(counting[s].ok, counting[s].bounced))
              /\ counting[s].pc = "hold"
            BY <2>4 DEF Hold
        <3>2. ~held /\ ~Over(counting[s].ok, counting[s].bounced)
            BY <1>2, <3>1
        <3>3. PICK c \in Counters : Looks(c)
            BY <1>4, <3>1, <3>2
        <3>4. c # s
            <4>1. CASE c = s
                <5>1. counting[s].ok = ok.count /\ counting[s].bounced = bounced.count
                    BY <3>1, <3>3, <4>1 DEF Looks, ReadTrue
                <5>2. ok'.count = ok.count /\ bounced'.count = bounced.count
                    BY <3>1
                <5>3. QED
                    BY <1>2, <3>2, <5>1, <5>2
            <4>2. QED
                BY <4>1
        <3>5. counting'[c] = counting[c]
            BY <1>2, <2>4, <3>4 DEF Hold
        <3>6. QED
            BY <1>5, <3>1, <3>3, <3>5
    <2>5. CASE Unanswered(s)
        BY <1>2, <2>5 DEF Unanswered
    <2>6. QED
        BY <1>6, <2>1, <2>2, <2>3, <2>4, <2>5
<1>7. CASE Resume \/ DeleteOk
    BY <1>2, <1>7 DEF Resume, DeleteOk
<1>8. CASE DeleteBounced
    <2>1. bounced'.count = 0 /\ ok' = ok
        BY <1>2, <1>8 DEF DeleteBounced, Forgotten, Empty
    <2>2. ok'.count \in Nat
        BY <1>1, <2>1 DEF GuardInv, GuardTypes, Kept
    <2>3. QED
        BY <1>2, <2>1, <2>2, NoBounces
<1>9. CASE Tick \/ UNCHANGED gvars
    <2>1. UNCHANGED <<ok, bounced, resuming, missedOne, held, counting>>
        BY <1>2, <1>9 DEF Tick, Later, gvars, history
    <2>2. PICK c \in Counters : Looks(c)
        BY <1>2, <1>4, <2>1
    <2>3. QED
        BY <1>5, <2>1, <2>2
<1>10. QED
    BY <1>1, <1>6, <1>7, <1>8, <1>9 DEF GuardNext

\* For any number of scans, however their counts interleave, a key whose counters are
\* over the limit is paused once nobody counts or resumes, unless a counter was lost or
\* the key resumed since the last count, or the resume failed half-way.
THEOREM NoneEscapesAlways == GuardSpec => []NoneEscapes
<1>1. GuardInit => Watched
    <2>1. SUFFICES ASSUME GuardInit PROVE ~Over(ok.count, bounced.count)
        BY DEF Watched, Escaped
    <2>2. ok.count = 0 /\ bounced.count = 0
        BY <2>1 DEF GuardInit, Empty
    <2>3. QED
        BY <2>2, NoBounces
<1>2. Watched => NoneEscapes
    BY DEF Watched, Escaped, Looks, NoneEscapes
<1>3. GuardSpec => []GuardInv
    BY GuardStarts, GuardKeeps, PTL DEF GuardSpec
<1>4. QED
    BY <1>1, <1>2, <1>3, WatchedKeeps, PTL DEF GuardSpec
=============================================================================
