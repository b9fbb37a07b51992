--------------------------- MODULE PublishingProofs --------------------------
(***************************************************************************)
(* Proofs about what is handed over in files: the certificate and the      *)
(* plugins, for any number of uploads, requests, jobs, plugins and changes. *)
(***************************************************************************)
EXTENDS MCPublishing, TLAPS

-----------------------------------------------------------------------------
(* Certificates: the server keeps a certificate with its key.               *)

Pairs == [cert : Uploads \cup {None, "issued"}, key : Uploads \cup {None, "issued"}]

PCs == {"idle", "action", "forget", "remove", "mode", "sync", "test", "takeCert", "takeKey",
        "match", "clear", "copyCert", "copyKey", "custom", "report"}

CertificatesTypes ==
    /\ incoming \in Pairs /\ kept \in Pairs /\ live \in Pairs
    /\ doing.pc \in PCs /\ doing = [pc |-> doing.pc, id |-> doing.id,
                                    action |-> doing.action, back |-> doing.back]
    /\ doing.back \in BOOLEAN /\ served \in BOOLEAN

\* From here a pair will be put in place, or how it was lost will be noted.
Pending ==
    \/ doing.pc \in {"mode", "copyCert", "copyKey"}
    \/ doing.back /\ doing.pc \in {"sync", "test", "takeCert", "takeKey", "match", "clear"}

Holds == served => Whole(live) \/ spoiled # {} \/ Pending

\* What is being copied is a pair.
Copying ==
    /\ doing.pc \in {"clear", "copyCert", "copyKey"} => Whole(kept)
    /\ doing.pc = "copyKey" => live.cert = kept.cert

CertificatesInv == CertificatesTypes /\ Holds /\ Copying

-----------------------------------------------------------------------------
LEMMA CertificatesStart == CertificatesInit => CertificatesInv
<1>1. SUFFICES ASSUME CertificatesInit PROVE CertificatesInv
    OBVIOUS
<1>2. doing = Resting /\ incoming = NoPair /\ kept = NoPair /\ live = NoPair /\ served = FALSE
    BY <1>1 DEF CertificatesInit
<1>3. CertificatesTypes
    BY <1>2 DEF CertificatesTypes, Pairs, PCs, NoPair, Resting
<1>4. QED
    BY <1>2, <1>3 DEF CertificatesInv, Holds, Copying, Resting

LEMMA ConsoleKeeps == ASSUME CertificatesInv, Console PROVE CertificatesInv'
<1>1. UNCHANGED <<kept, live, doing, served, spoiled>>
    BY DEF Console, ListHosts, Ask, PutCert, PutKey, AskCustom, Abandon, pairs, certbot, history
<1>2. incoming' \in Pairs
    BY DEF Console, ListHosts, Ask, PutCert, PutKey, AskCustom, Abandon, pairs, CertificatesInv, CertificatesTypes, Pairs
<1>3. QED
    BY <1>1, <1>2 DEF CertificatesInv, CertificatesTypes, Holds, Pending, Copying, Whole

LEMMA HandlingKeeps ==
    ASSUME None # "issued", CertificatesInv, Handling
    PROVE  CertificatesInv'
<1> USE DEF CertificatesInv, CertificatesTypes, Holds, Pending, Copying, At, Goto, history
<1>1. CASE ReadId
    BY <1>1 DEF ReadId, pairs, Resting, PCs
<1>2. CASE ReadAction
    BY <1>2 DEF ReadAction, pairs, PCs
<1>3. CASE Forget
    BY <1>3 DEF Forget, pairs, PCs
<1>4. CASE RemoveLive
    BY <1>4 DEF RemoveLive, NoPair, Pairs, PCs
<1>5. CASE UseIssued
    BY <1>5 DEF UseIssued, pairs, PCs
<1>6. CASE Sync
    <2>1. doing.pc = "sync" /\ UNCHANGED <<kept, incoming>>
        BY <1>6 DEF Sync, pairs
    <2>2. CASE /\ spoiled' = (IF doing.back THEN spoiled \cup {"unlisted"} ELSE spoiled)
               /\ doing' = [doing EXCEPT !.pc = "report"]
               /\ UNCHANGED <<live, served>>
        <3>1. doing.back => spoiled' # {}
            BY <2>2
        <3>2. doing'.pc = "report" /\ doing'.back = doing.back
            BY <2>2
        <3>3. CertificatesTypes'
            BY <2>1, <2>2 DEF PCs
        <3>4. Holds' /\ Copying'
            BY <2>1, <2>2, <3>1, <3>2 DEF Whole
        <3>5. QED
            BY <3>3, <3>4
    <2>3. CASE /\ live' = Issued /\ served' = TRUE
               /\ doing' = [doing EXCEPT !.pc = "report"]
        BY <2>1, <2>3 DEF Issued, Whole, Pairs, PCs
    <2>4. CASE /\ doing' = [doing EXCEPT !.pc = IF doing.back THEN "test" ELSE "report"]
               /\ UNCHANGED <<live, served, spoiled>>
        BY <2>1, <2>4 DEF Whole, PCs
    <2>5. QED
        BY <1>6, <2>2, <2>3, <2>4 DEF Sync, pairs, Regained
<1>7. CASE Test
    BY <1>7 DEF Test, pairs, PCs
<1>8. CASE TakeCert
    BY <1>8 DEF TakeCert, Pairs, PCs
<1>9. CASE TakeKey
    BY <1>9 DEF TakeKey, Pairs, PCs
<1>10. CASE Match
    BY <1>10 DEF Match, Fits, pairs, PCs
<1>11. CASE Clear
    BY <1>11 DEF Clear, NoPair, Pairs, PCs
<1>12. CASE CopyCert
    BY <1>12 DEF CopyCert, Pairs, PCs, Whole
<1>13. CASE CopyKey
    BY <1>13 DEF CopyKey, Pairs, PCs, Whole, Regained
<1>14. CASE UseCustom
    BY <1>14 DEF UseCustom, pairs, PCs
<1>15. CASE Report
    BY <1>15 DEF Report, pairs, Resting, PCs
<1>16. QED
    BY <1>1, <1>2, <1>3, <1>4, <1>5, <1>6, <1>7, <1>8, <1>9, <1>10, <1>11, <1>12, <1>13,
       <1>14, <1>15 DEF Handling

LEMMA IssueKeeps == ASSUME None # "issued", CertificatesInv, Issue PROVE CertificatesInv'
BY DEF CertificatesInv, CertificatesTypes, Holds, Pending, Copying, Issue, At, Issued, Regained, Whole, Pairs

LEMMA KillKeeps == ASSUME CertificatesInv, Kill PROVE CertificatesInv'
BY DEF CertificatesInv, CertificatesTypes, Holds, Pending, Copying, Kill, pairs, Resting, Whole, PCs

-----------------------------------------------------------------------------
\* However uploads and requests overtake one another and whenever certbot is killed,
\* the server loses its certificate in the four named ways only.
THEOREM StaysServedAlways ==
    ASSUME None # "issued"
    PROVE  CertificatesSpec => []StaysServed
<1>1. CertificatesInv /\ [CertificatesNext]_tvars => CertificatesInv'
    <2>1. SUFFICES ASSUME CertificatesInv, [CertificatesNext]_tvars PROVE CertificatesInv'
        OBVIOUS
    <2>2. CASE CertificatesNext
        BY <2>1, <2>2, ConsoleKeeps, HandlingKeeps, IssueKeeps, KillKeeps DEF CertificatesNext
    <2>3. CASE UNCHANGED tvars
        BY <2>1, <2>3 DEF CertificatesInv, CertificatesTypes, Holds, Pending, Copying, Whole, tvars
    <2>4. QED
        BY <2>1, <2>2, <2>3
<1>2. CertificatesInv => StaysServed
    BY DEF CertificatesInv, Holds, Pending, StaysServed
<1>3. QED
    BY CertificatesStart, <1>1, <1>2, PTL DEF CertificatesSpec

-----------------------------------------------------------------------------
(* Plugins: the enabled ones agree, and a default that was removed stays away. *)

PluginRows == [state : Plugin!States, target : Plugin!Targets, rev : Nat, pk : Nat,
               version : Nat, settings : SUBSET Settings, stale : BOOLEAN]

PluginFiles == Plugins \X Nat \X SUBSET Settings

PluginJobs == [pc : {"idle", "begin", "render", "write", "settle", "fail", "rerender",
                     "rewrite", "offer"},
               op : Plugin!Operations \cup {"none", "finish", "publish"},
               plugin : Plugins \cup {None}, pk : Nat, rev : Nat \cup {None}, version : Nat,
               settings : SUBSET Settings, view : SUBSET PluginFiles]

PluginTypes ==
    /\ row \in [Plugins -> PluginRows]
    /\ job \in [Plugin!Procs -> PluginJobs]
    /\ given \in [Plugins -> Nat]
    /\ ops \in Nat /\ faults \in Nat

\* A row and its key come and go together; an operation that was begun has a target, and
\* none is left at rest.
Formed(r) ==
    /\ r.pk = 0 => r = Plugin!NoRow
    /\ r.state \in Plugin!Transient => r.target # ""
    /\ r.state \in {"enabled", "disabled"} => r.target = "" /\ ~r.stale

Keyed(r, n) == r.pk <= n /\ (r.state = "absent" <=> r.pk = 0) /\ Formed(r)

\* A process that will still settle a row, or mark it failed.
Acting(d) == d.pc \in {"settle", "fail"} \/ (d.pc \in {"render", "write"} /\ d.op # "publish")

Employed(d, n) ==
    /\ d.pk <= n
    /\ d.pc = "begin" \/ Acting(d) => d.plugin \in Plugins
    /\ Acting(d) => d.pk > 0

\* The process works on the installation of p there is now.
Carries(d, p, r) == Acting(d) /\ d.plugin = p /\ d.pk = r.pk

\* At most one process works on an installation, and only until it is settled, unless two
\* have been at one operation of it.
OneCarrier ==
    \A p \in Plugins, q \in Plugin!Procs :
        Carries(job[q], p, row[p]) /\ row[p].pk \notin twice
        => /\ row[p].state \in Plugin!Transient
           /\ row[p].stale => job[q].op = "finish" \/ q \in Jobs
           /\ \A o \in Plugin!Procs : Carries(job[o], p, row[p]) => o = q

\* An operation that failed has a target to go on to.
Failures == \A p \in Plugins : row[p].pk \notin twice /\ row[p].state = "failed" => row[p].target # ""

\* A request that enables a plugin as it stands, waiting for the lock: if the row
\* still has the revision it read, it has the version it read.
Waits(d) == d.pc = "begin" /\ d.op \in {"enable", "retry"}

Fresh(d, r) ==
    /\ r.pk # 0
    /\ d.rev \in Nat /\ d.rev <= r.rev
    /\ d.rev = r.rev => d.version = r.version

Agreed ==
    /\ \A q \in Plugin!Procs : Waits(job[q]) => Fresh(job[q], row[job[q].plugin])
    /\ Plugin!NoClash

\* strict: no plugin is removed while somebody waits to enable it as it is.
PluginInv(strict) ==
    /\ PluginTypes
    /\ \A p \in Plugins : Keyed(row[p], ops)
    /\ \A q \in Plugin!Procs : Employed(job[q], ops)
    /\ OneCarrier /\ Failures
    /\ strict => Agreed

LEMMA NoRowFacts ==
    /\ Plugin!NoRow \in PluginRows /\ Plugin!NoRow.pk = 0 /\ Plugin!NoRow.state = "absent"
    /\ \A n \in Nat : Keyed(Plugin!NoRow, n)
<1>1. Plugin!NoRow \in PluginRows
    BY DEF Plugin!NoRow, PluginRows, Plugin!States, Plugin!Targets, Plugin!Transient
<1>2. Plugin!NoRow.pk = 0 /\ Plugin!NoRow.state = "absent"
    BY DEF Plugin!NoRow
<1>3. Formed(Plugin!NoRow)
    BY <1>2 DEF Formed, Plugin!Transient
<1>4. QED
    BY <1>1, <1>2, <1>3 DEF Keyed

LEMMA PluginsStart ==
    ASSUME Plugin!Init, NEW strict \in BOOLEAN
    PROVE  PluginInv(strict)
<1>1. Plugin!Init
    OBVIOUS
<1>2. Plugin!NoRow \in PluginRows
    BY NoRowFacts
<1>3. Plugin!IdleJob \in PluginJobs
    BY DEF Plugin!IdleJob, PluginJobs
<1>4. PluginTypes
    BY <1>1, <1>2, <1>3 DEF Plugin!Init, PluginTypes
<1>5. \A p \in Plugins : row[p] = Plugin!NoRow
    BY <1>1 DEF Plugin!Init
<1>6. \A q \in Plugin!Procs : job[q] = Plugin!IdleJob
    BY <1>1 DEF Plugin!Init
<1>7. \A p \in Plugins : Keyed(row[p], ops)
    <2>1. ops = 0
        BY <1>1 DEF Plugin!Init
    <2>2. QED
        BY <1>5, <2>1, NoRowFacts
<1>8. \A q \in Plugin!Procs : ~Acting(job[q]) /\ ~Waits(job[q]) /\ Employed(job[q], ops)
    BY <1>1, <1>6 DEF Plugin!Init, Acting, Waits, Employed, Plugin!IdleJob
<1>9. \A p \in Plugins : ~Plugin!Enabled(p)
    <2>1. Plugin!Effective(Plugin!NoRow) = "absent"
        BY DEF Plugin!Effective, Plugin!NoRow, Plugin!Transient
    <2>2. QED
        BY <1>5, <2>1 DEF Plugin!Enabled
<1>10. QED
    BY <1>4, <1>5, <1>7, <1>8, <1>9, NoRowFacts
       DEF PluginInv, Agreed, OneCarrier, Failures, Carries, Plugin!NoClash

-----------------------------------------------------------------------------
\* A step in which q is the only process that moves.
Alone(q) ==
    /\ job' = [o \in Plugin!Procs |-> job'[o]]
    /\ \A o \in Plugin!Procs \ {q} : job'[o] = job[o]
    /\ job'[q] \in PluginJobs

LEMMA AloneTyped ==
    ASSUME PluginTypes, NEW q \in Plugin!Procs, Alone(q)
    PROVE  job' \in [Plugin!Procs -> PluginJobs]
<1>1. \A o \in Plugin!Procs : job'[o] \in PluginJobs
    BY DEF Alone, PluginTypes
<1>2. QED
    BY <1>1 DEF Alone

\* A step of one process that leaves the rows alone and takes up no installation.
LEMMA QuietStep ==
    ASSUME NEW strict \in BOOLEAN, PluginInv(strict),
           UNCHANGED <<row, ops, given, twice>>, faults' \in Nat,
           NEW q \in Plugin!Procs, Alone(q),
           Employed(job'[q], ops),
           Acting(job'[q]) => /\ Acting(job[q])
                              /\ job'[q].plugin = job[q].plugin
                              /\ job'[q].pk = job[q].pk
                              /\ job'[q].op = job[q].op,
           strict /\ Waits(job'[q]) => Fresh(job'[q], row[job'[q].plugin])
    PROVE  PluginInv(strict)'
<1> USE DEF Alone
<1>0. PluginTypes'
    BY AloneTyped DEF PluginInv, PluginTypes
<1>1. (\A p \in Plugins : Keyed(row[p], ops))'
    BY DEF PluginInv
<1>2. (\A o \in Plugin!Procs : Employed(job[o], ops))'
    BY DEF PluginInv
<1>3. \A p \in Plugins, o \in Plugin!Procs :
         Carries(job'[o], p, row[p]) => Carries(job[o], p, row[p]) /\ job'[o].op = job[o].op
    BY DEF Carries
<1>4. OneCarrier'
    BY <1>3 DEF PluginInv, OneCarrier
<1>5. (\A o \in Plugin!Procs : strict /\ Waits(job[o]) => Fresh(job[o], row[job[o].plugin]))'
    BY DEF PluginInv, Agreed
<1>6. strict => Plugin!NoClash'
    BY DEF PluginInv, Agreed, Plugin!NoClash, Plugin!Enabled
<1>7. Failures'
    BY DEF PluginInv, Failures
<1>8. QED
    BY <1>0, <1>1, <1>2, <1>4, <1>5, <1>6, <1>7 DEF PluginInv, Agreed

\* What a process reads before it takes the lock.
LEMMA RequestKeeps ==
    ASSUME NEW strict \in BOOLEAN, PluginInv(strict),
           None \notin Nat, NEW q \in Plugin!Procs, NEW op \in Plugin!Operations,
           NEW p \in Plugins, NEW s \in SUBSET Settings, NEW rev,
           Plugin!Request(q, op, p, s, rev)
    PROVE  PluginInv(strict)'
<1>1. row[p] \in PluginRows /\ Keyed(row[p], ops)
    BY DEF PluginInv, PluginTypes
<1>2. PICK v \in Nat : job'[q] = [Plugin!IdleJob EXCEPT
          !.pc = "begin", !.op = op, !.plugin = p, !.rev = rev, !.version = v,
          !.settings = row[p].settings \cup s]
       /\ (op \notin {"install", "update"} => v = row[p].version)
    <2>1. row[p].version \in Nat /\ 1 \in Nat /\ 2 \in Nat
        BY <1>1 DEF PluginRows
    <2>2. q \in DOMAIN job
        BY DEF PluginInv, PluginTypes
    <2>3. QED
        BY <2>1, <2>2 DEF Plugin!Request
<1>3. rev \in Nat \cup {None} /\ (op \notin {"install", "configure"} => rev = row[p].rev)
    BY <1>1 DEF Plugin!Request, PluginRows
<1>4. job'[q] \in PluginJobs
    <2>1. row[p].settings \cup s \in SUBSET Settings
        BY <1>1 DEF PluginRows
    <2>2. job'[q] = [pc |-> "begin", op |-> op, plugin |-> p, pk |-> 0, rev |-> rev,
                     version |-> v, settings |-> row[p].settings \cup s, view |-> {}]
        BY <1>2 DEF Plugin!IdleJob
    <2>3. QED
        BY <1>3, <2>1, <2>2 DEF PluginJobs
<1>5. /\ job'[q].pc = "begin" /\ job'[q].op = op /\ job'[q].plugin = p
      /\ job'[q].rev = rev /\ job'[q].version = v /\ job'[q].pk = 0
    BY <1>2 DEF Plugin!IdleJob
<1>6. Alone(q)
    BY <1>4 DEF Plugin!Request, PluginInv, PluginTypes, Alone
<1>8. ~Acting(job'[q]) /\ Employed(job'[q], ops)
    <2>1. ops \in Nat
        BY DEF PluginInv, PluginTypes
    <2>2. QED
        BY <1>5, <2>1 DEF Acting, Employed
<1>9. Waits(job'[q]) => Fresh(job'[q], row[job'[q].plugin])
    <2>1. row[p].rev \in Nat
        BY <1>1 DEF PluginRows
    <2>2. op # "install" => row[p].state # "absent"
        BY DEF Plugin!Request, Plugin!Sources
    <2>3. op # "install" => row[p].pk # 0
        BY <1>1, <2>2 DEF Keyed
    <2>4. Waits(job'[q]) => op \in {"enable", "retry"}
        BY <1>5 DEF Waits
    <2>5. CASE op \in {"enable", "retry"}
        <3>1. rev = row[p].rev /\ v = row[p].version /\ row[p].pk # 0
            BY <1>2, <1>3, <2>3, <2>5
        <3>2. QED
            BY <1>5, <2>1, <3>1 DEF Fresh
    <2>6. QED
        BY <2>4, <2>5
<1>10. UNCHANGED <<row, ops, given, twice>> /\ faults' \in Nat
    BY DEF Plugin!Request, PluginInv, PluginTypes
<1>11. QED
    BY <1>6, <1>8, <1>9, <1>10, QuietStep

LEMMA RestStep ==
    ASSUME NEW strict \in BOOLEAN, PluginInv(strict),
           UNCHANGED <<row, ops, given, twice>>, faults' \in Nat,
           NEW q \in Plugin!Procs, job' = [job EXCEPT ![q] = Plugin!IdleJob]
    PROVE  PluginInv(strict)'
<1>1. Plugin!IdleJob \in PluginJobs
    BY DEF Plugin!IdleJob, PluginJobs
<1>2. job'[q] = Plugin!IdleJob
    BY DEF PluginInv, PluginTypes
<1>3. Alone(q)
    BY <1>1 DEF PluginInv, PluginTypes, Alone
<1>4. ops \in Nat
    BY DEF PluginInv, PluginTypes
<1>5. job'[q].pc = "idle" /\ job'[q].pk = 0
    BY <1>2 DEF Plugin!IdleJob
<1>6. ~Acting(job'[q]) /\ ~Waits(job'[q]) /\ Employed(job'[q], ops)
    BY <1>4, <1>5 DEF Acting, Waits, Employed
<1>7. QED
    BY <1>3, <1>6, QuietStep

LEMMA RenderKeeps ==
    ASSUME NEW strict \in BOOLEAN, PluginInv(strict),
           NEW q \in Plugin!Procs, Plugin!Render(q)
    PROVE  PluginInv(strict)'
<1>1. job[q] \in PluginJobs /\ Employed(job[q], ops)
    BY DEF PluginInv, PluginTypes
<1>2. Plugin!Rendered \in SUBSET PluginFiles
    <2>1. \A p \in Plugins : row[p].version \in Nat /\ row[p].settings \in SUBSET Settings
        BY DEF PluginInv, PluginTypes, PluginRows
    <2>2. QED
        BY <2>1 DEF Plugin!Rendered, PluginFiles
<1>3. job'[q] = [job[q] EXCEPT !.pc = IF job[q].pc = "render" THEN "write" ELSE "rewrite",
                               !.view = Plugin!Rendered]
    BY DEF Plugin!Render, PluginInv, PluginTypes
<1>4. job'[q] \in PluginJobs
    BY <1>1, <1>2, <1>3 DEF PluginJobs
<1>5. Alone(q)
    BY <1>4 DEF Plugin!Render, PluginInv, PluginTypes, Alone
<1>6. /\ job'[q].op = job[q].op /\ job'[q].plugin = job[q].plugin /\ job'[q].pk = job[q].pk
      /\ job'[q].pc = IF job[q].pc = "render" THEN "write" ELSE "rewrite"
    BY <1>1, <1>3 DEF PluginJobs
<1>7. job[q].pc \in {"render", "rerender"}
    BY DEF Plugin!Render
<1>8. (Acting(job'[q]) => Acting(job[q])) /\ ~Waits(job'[q])
    BY <1>6, <1>7 DEF Acting, Waits
<1>9. Employed(job'[q], ops)
    BY <1>1, <1>6, <1>7, <1>8 DEF Employed
<1>10. UNCHANGED <<row, ops, given, twice>> /\ faults' \in Nat
    BY DEF Plugin!Render, PluginInv, PluginTypes
<1>11. QED
    BY <1>5, <1>6, <1>8, <1>9, <1>10, QuietStep

\* The files are written, or cannot be.
LEMMA WrittenKeeps ==
    ASSUME NEW strict \in BOOLEAN, PluginInv(strict),
           NEW q \in Plugin!Procs, UNCHANGED <<row, ops, given, twice>>, faults' \in Nat,
           job[q].pc = "write", job[q].op # "publish", Alone(q),
           /\ job'[q].op = job[q].op /\ job'[q].plugin = job[q].plugin
           /\ job'[q].pk = job[q].pk /\ job'[q].pc \in {"settle", "fail"}
    PROVE  PluginInv(strict)'
<1>1. Employed(job[q], ops)
    BY DEF PluginInv
<1>2. Acting(job[q]) /\ ~Waits(job'[q])
    BY DEF Acting, Waits
<1>3. Employed(job'[q], ops)
    BY <1>1, <1>2 DEF Employed
<1>4. QED
    BY <1>2, <1>3, QuietStep

Advances(q, phase) == job' = [job EXCEPT ![q].pc = phase, ![q].view = {}]

LEMMA WrittenAlone ==
    ASSUME PluginTypes, NEW q \in Plugin!Procs, NEW phase \in {"settle", "fail"},
           Advances(q, phase)
    PROVE  /\ Alone(q)
           /\ job'[q].op = job[q].op /\ job'[q].plugin = job[q].plugin
           /\ job'[q].pk = job[q].pk /\ job'[q].pc = phase
<1>1. job'[q] = [job[q] EXCEPT !.pc = phase, !.view = {}]
    BY DEF PluginTypes, Advances
<1>2. job[q] \in PluginJobs
    BY DEF PluginTypes
<1>3. job'[q] \in PluginJobs
    <2>1. {} \in SUBSET PluginFiles
        OBVIOUS
    <2>2. QED
        BY <1>1, <1>2, <2>1 DEF PluginJobs
<1>4. Alone(q)
    BY <1>3 DEF PluginTypes, Alone, Advances
<1>5. QED
    BY <1>1, <1>2, <1>4 DEF PluginJobs

LEMMA WriteKeeps ==
    ASSUME NEW strict \in BOOLEAN, PluginInv(strict),
           NEW q \in Plugin!Procs, Plugin!Write(q) \/ Plugin!WriteFails(q)
    PROVE  PluginInv(strict)'
<1>1. UNCHANGED <<row, ops, given, twice>> /\ faults' \in Nat
    BY DEF Plugin!Write, Plugin!WriteFails, PluginInv, PluginTypes
<1>2. CASE job[q].pc = "write" /\ job[q].op # "publish"
    <2>1. Advances(q, "settle") \/ Advances(q, "fail")
        BY <1>2 DEF Plugin!Write, Plugin!WriteFails, Advances
    <2>2. /\ Alone(q)
          /\ job'[q].op = job[q].op /\ job'[q].plugin = job[q].plugin
          /\ job'[q].pk = job[q].pk /\ job'[q].pc \in {"settle", "fail"}
        BY <2>1, WrittenAlone DEF PluginInv
    <2>3. QED
        BY <1>1, <1>2, <2>2, WrittenKeeps
<1>3. CASE ~(job[q].pc = "write" /\ job[q].op # "publish")
    <2>1. job' = [job EXCEPT ![q] = Plugin!IdleJob]
        BY <1>3 DEF Plugin!Write, Plugin!WriteFails
    <2>2. QED
        BY <1>1, <2>1, RestStep
<1>4. QED
    BY <1>2, <1>3

\* A job of reconcile that begins to publish.
LEMMA PublishKeeps ==
    ASSUME NEW strict \in BOOLEAN, PluginInv(strict),
           NEW q \in Plugin!Procs, Plugin!Publish(q)
    PROVE  PluginInv(strict)'
<1>1. UNCHANGED <<row, ops, given, twice>> /\ faults' \in Nat /\ ops \in Nat
    BY DEF Plugin!Publish, PluginInv, PluginTypes
<1>2. job'[q] = [pc |-> "render", op |-> "publish", plugin |-> None, pk |-> 0, rev |-> None,
                 version |-> 0, settings |-> {}, view |-> {}]
    BY DEF Plugin!Publish, Plugin!IdleJob, PluginInv, PluginTypes
<1>3. job'[q] \in PluginJobs
    BY <1>2 DEF PluginJobs
<1>4. Alone(q)
    BY <1>3 DEF Plugin!Publish, PluginInv, PluginTypes, Alone
<1>5. ~Acting(job'[q]) /\ ~Waits(job'[q]) /\ Employed(job'[q], ops)
    BY <1>1, <1>2 DEF Acting, Waits, Employed
<1>6. QED
    BY <1>1, <1>4, <1>5, QuietStep

\* A job of reconcile that begins to install a default, or finds it there.
LEMMA DefaultKeeps ==
    ASSUME NEW strict \in BOOLEAN, PluginInv(strict),
           NEW q \in Plugin!Procs, NEW p \in Plugins, Plugin!Default(q, p)
    PROVE  PluginInv(strict)'
<1>1. UNCHANGED <<row, ops, given, twice>> /\ faults' \in Nat
    BY DEF Plugin!Default, PluginInv, PluginTypes
<1>2. ops \in Nat
    BY DEF PluginInv, PluginTypes
<1>3. CASE job' = [job EXCEPT ![q] = [Plugin!IdleJob EXCEPT !.pc = "begin", !.op = "install",
                                          !.plugin = p, !.rev = None, !.version = 1]]
    <2>1. job'[q] = [pc |-> "begin", op |-> "install", plugin |-> p, pk |-> 0, rev |-> None,
                     version |-> 1, settings |-> {}, view |-> {}]
        BY <1>3 DEF Plugin!IdleJob, PluginInv, PluginTypes
    <2>2. job'[q] \in PluginJobs
        BY <2>1 DEF PluginJobs, Plugin!Operations
    <2>3. Alone(q)
        BY <1>3, <2>2 DEF PluginInv, PluginTypes, Alone
    <2>4. ~Acting(job'[q]) /\ ~Waits(job'[q]) /\ Employed(job'[q], ops)
        BY <1>2, <2>1 DEF Acting, Waits, Employed
    <2>5. QED
        BY <1>1, <2>3, <2>4, QuietStep
<1>4. CASE UNCHANGED job
    <2>1. job'[q] \in PluginJobs
        BY <1>4 DEF PluginInv, PluginTypes
    <2>2. Alone(q)
        BY <1>4, <2>1 DEF PluginInv, PluginTypes, Alone
    <2>3. Employed(job'[q], ops) /\ (strict /\ Waits(job'[q]) => Fresh(job'[q], row[job'[q].plugin]))
        BY <1>4 DEF PluginInv, Agreed
    <2>4. QED
        BY <1>1, <1>4, <2>2, <2>3, QuietStep
<1>5. QED
    BY <1>3, <1>4 DEF Plugin!Default

-----------------------------------------------------------------------------
(* The steps that touch a row.                                              *)

\* Nobody works on an installation that is at rest, or not there, unless two have been
\* at one operation of it.
LEMMA NobodyCarries ==
    ASSUME NEW strict \in BOOLEAN, PluginInv(strict),
           NEW p \in Plugins, row[p].state \notin Plugin!Transient, row[p].pk \notin twice,
           NEW o \in Plugin!Procs
    PROVE  ~Carries(job[o], p, row[p])
BY DEF PluginInv, OneCarrier

LEMMA FinishKeeps ==
    ASSUME NEW strict \in BOOLEAN, PluginInv(strict),
           NEW q \in Plugin!Procs, NEW p \in Plugins, Plugin!Finish(q, p)
    PROVE  PluginInv(strict)'
<1>1. /\ row[p] \in PluginRows /\ Keyed(row[p], ops)
      /\ row[p].state \in Plugin!Transient /\ row[p].stale
    BY DEF Plugin!Finish, PluginInv, PluginTypes
<1>2. row[p].pk > 0 /\ row[p].pk <= ops /\ row[p].pk \in Nat
    <2>1. row[p].state # "absent"
        BY <1>1 DEF Plugin!Transient
    <2>2. row[p].pk \in Nat /\ ops \in Nat
        BY <1>1 DEF PluginRows, PluginInv, PluginTypes
    <2>3. QED
        BY <1>1, <2>1, <2>2 DEF Keyed
<1>3. job'[q] = [pc |-> "render", op |-> "finish", plugin |-> p, pk |-> row[p].pk, rev |-> None,
                 version |-> 0, settings |-> {}, view |-> {}]
    BY DEF Plugin!Finish, Plugin!IdleJob, PluginInv, PluginTypes
<1>4. job'[q] \in PluginJobs
    BY <1>2, <1>3 DEF PluginJobs
<1>5. Alone(q)
    BY <1>4 DEF Plugin!Finish, PluginInv, PluginTypes, Alone
<1>6. ASSUME row[p].pk \notin twice', NEW o \in Plugin!Procs, Carries(job[o], p, row[p])
      PROVE  FALSE
    <2>1. row[p].pk \notin twice /\ ~Plugin!Shared(p)
        BY <1>6 DEF Plugin!Finish
    <2>2. o \in Jobs \/ job[o].op = "finish"
        BY <1>1, <1>6, <2>1 DEF PluginInv, OneCarrier
    <2>3. QED
        BY <1>6, <2>1, <2>2 DEF Plugin!Shared, Carries, Acting
<1>7. UNCHANGED <<row, ops, given, faults>> /\ twice \subseteq twice'
    BY DEF Plugin!Finish
<1>8. PluginTypes'
    BY <1>5, <1>7, AloneTyped DEF PluginInv, PluginTypes
<1>9. (\A r \in Plugins : Keyed(row[r], ops))'
    BY <1>7 DEF PluginInv
<1>10. Employed(job'[q], ops) /\ ~Waits(job'[q])
    BY <1>2, <1>3 DEF Employed, Waits
<1>11. (\A o \in Plugin!Procs : Employed(job[o], ops))'
    BY <1>5, <1>7, <1>10 DEF PluginInv, Alone
<1>12. (\A o \in Plugin!Procs : strict /\ Waits(job[o]) => Fresh(job[o], row[job[o].plugin]))'
    BY <1>5, <1>7, <1>10 DEF PluginInv, Agreed, Alone
<1>13. OneCarrier'
    <2>1. SUFFICES ASSUME NEW r \in Plugins, NEW o \in Plugin!Procs, Carries(job'[o], r, row[r]),
                          row[r].pk \notin twice'
                   PROVE  /\ row[r].state \in Plugin!Transient
                          /\ row[r].stale => job'[o].op = "finish" \/ o \in Jobs
                          /\ \A t \in Plugin!Procs : Carries(job'[t], r, row[r]) => t = o
        BY <1>7 DEF OneCarrier
    <2>2. job'[q].plugin = p /\ job'[q].op = "finish"
        BY <1>3
    <2>3. CASE r = p
        <3>1. o = q
            BY <1>5, <1>6, <2>1, <2>3 DEF Alone
        <3>2. \A t \in Plugin!Procs : Carries(job'[t], p, row[p]) => t = q
            BY <1>5, <1>6, <2>1, <2>3 DEF Alone
        <3>3. QED
            BY <1>1, <2>2, <2>3, <3>1, <3>2
    <2>4. CASE r # p
        <3>1. \A t \in Plugin!Procs : Carries(job'[t], r, row[r]) => t # q
            BY <2>2, <2>4 DEF Carries
        <3>2. QED
            BY <1>5, <1>7, <2>1, <3>1 DEF PluginInv, OneCarrier, Alone
    <2>5. QED
        BY <2>3, <2>4
<1>14. strict => Plugin!NoClash'
    BY <1>7 DEF PluginInv, Agreed, Plugin!NoClash, Plugin!Enabled
<1>15. Failures'
    BY <1>7 DEF PluginInv, Failures
<1>16. QED
    BY <1>8, <1>9, <1>11, <1>12, <1>13, <1>14, <1>15 DEF PluginInv, Agreed

LEMMA AgeKeeps ==
    ASSUME NEW strict \in BOOLEAN, PluginInv(strict),
           NEW p \in Plugins, Plugin!Age(p)
    PROVE  PluginInv(strict)'
<1>1. /\ row[p] \in PluginRows /\ Keyed(row[p], ops) /\ row[p].state \in Plugin!Transient
      /\ UNCHANGED <<job, ops, given, faults, twice>>
    BY DEF Plugin!Age, PluginInv, PluginTypes
<1>2. row'[p] = [row[p] EXCEPT !.stale = TRUE] /\ \A r \in Plugins \ {p} : row'[r] = row[r]
    BY DEF Plugin!Age, PluginInv, PluginTypes
<1>3. row' \in [Plugins -> PluginRows]
    <2>1. row'[p] \in PluginRows
        BY <1>1, <1>2 DEF PluginRows
    <2>2. QED
        BY <2>1 DEF Plugin!Age, PluginInv, PluginTypes
<1>4. \A r \in Plugins : /\ row'[r].state = row[r].state /\ row'[r].target = row[r].target
                         /\ row'[r].pk = row[r].pk /\ row'[r].rev = row[r].rev
                         /\ row'[r].version = row[r].version
    BY <1>1, <1>2 DEF PluginRows
<1>5. PluginTypes'
    BY <1>1, <1>3 DEF PluginInv, PluginTypes
<1>6. (\A r \in Plugins : Keyed(row[r], ops))'
    <2>1. row[p].pk # 0
        BY <1>1 DEF Keyed, Plugin!Transient
    <2>2. \A r \in Plugins : row'[r].pk = 0 => row'[r] = row[r]
        BY <1>2, <1>4, <2>1
    <2>3. \A r \in Plugins : Keyed(row[r], ops)
        BY DEF PluginInv
    <2>4. \A r \in Plugins : Formed(row'[r])
        <3>1. Formed(row'[p])
            BY <1>1, <1>4, <2>1 DEF Keyed, Formed, Plugin!Transient
        <3>2. \A r \in Plugins \ {p} : Formed(row'[r])
            BY <1>2, <2>3 DEF Keyed
        <3>3. QED
            BY <3>1, <3>2
    <2>5. \A r \in Plugins : Keyed(row'[r], ops)
        BY <1>4, <2>3, <2>4 DEF Keyed
    <2>6. QED
        BY <1>1, <2>5
<1>7. (\A o \in Plugin!Procs : Employed(job[o], ops))'
    BY <1>1 DEF PluginInv
<1>8. (\A o \in Plugin!Procs : strict /\ Waits(job[o]) => Fresh(job[o], row[job[o].plugin]))'
    BY <1>1, <1>4 DEF PluginInv, Agreed, Fresh, Waits, Employed
<1>9. \A o \in Plugin!Procs : Carries(job[o], p, row[p]) => o \in Jobs
    BY DEF Plugin!Age, Plugin!Owned, Plugin!Procs, Carries
<1>10. OneCarrier'
    <2>1. \A r \in Plugins, o \in Plugin!Procs :
             Carries(job'[o], r, row'[r]) <=> Carries(job[o], r, row[r])
        BY <1>1, <1>4 DEF Carries
    <2>2. SUFFICES ASSUME NEW r \in Plugins, NEW o \in Plugin!Procs, Carries(job[o], r, row[r]),
                          row[r].pk \notin twice
                   PROVE  /\ row'[r].state \in Plugin!Transient
                          /\ row'[r].stale => job'[o].op = "finish" \/ o \in Jobs
                          /\ \A t \in Plugin!Procs : Carries(job[t], r, row[r]) => t = o
        BY <1>1, <1>4, <2>1 DEF OneCarrier
    <2>3. /\ row[r].state \in Plugin!Transient
          /\ row[r].stale => job[o].op = "finish" \/ o \in Jobs
          /\ \A t \in Plugin!Procs : Carries(job[t], r, row[r]) => t = o
        BY <2>2 DEF PluginInv, OneCarrier
    <2>4. r # p => row'[r] = row[r]
        BY <1>2
    <2>5. QED
        BY <1>1, <1>4, <1>9, <2>2, <2>3, <2>4
<1>11. strict => Plugin!NoClash'
    <2>1. \A r \in Plugins : Plugin!Enabled(r)' <=> Plugin!Enabled(r)
        BY <1>4 DEF Plugin!Enabled, Plugin!Effective
    <2>2. QED
        BY <1>1, <1>4, <2>1 DEF PluginInv, Agreed, Plugin!NoClash
<1>12. Failures'
    BY <1>1, <1>4 DEF PluginInv, Failures
<1>13. QED
    BY <1>5, <1>6, <1>7, <1>8, <1>10, <1>11, <1>12 DEF PluginInv, Agreed

\* What the other processes, and the other plugins, find of the row of p.
Unshared(q, p) ==
    \A o \in Plugin!Procs \ {q} : row'[p].pk \notin twice => ~Carries(job[o], p, row'[p])

StillFresh(q, p) ==
    \A o \in Plugin!Procs \ {q} : Waits(job[o]) /\ job[o].plugin = p => Fresh(job[o], row'[p])

Agreeing(p) ==
    Plugin!Enabled(p)' /\ row'[p].pk \notin twice
    => \A r \in Plugins \ {p} :
          Plugin!Enabled(r) /\ row[r].pk \notin twice
          => Claims[p][row'[p].version] \cap Claims[r][row[r].version] = {}

Retriable(p) == row'[p].pk \notin twice /\ row'[p].state = "failed" => row'[p].target # ""

\* A step of q that leaves the row of p as it should be.
LEMMA RowStep ==
    ASSUME NEW strict \in BOOLEAN, PluginInv(strict),
           NEW q \in Plugin!Procs, Alone(q), NEW p \in Plugins,
           row' \in [Plugins -> PluginRows], \A r \in Plugins \ {p} : row'[r] = row[r],
           ops' \in Nat, ops <= ops', given' \in [Plugins -> Nat], faults' \in Nat, UNCHANGED twice,
           Keyed(row'[p], ops'), Employed(job'[q], ops'), ~Waits(job'[q]),
           Acting(job'[q]) => job'[q].plugin = p,
           Carries(job'[q], p, row'[p]) => row'[p].state \in Plugin!Transient /\ ~row'[p].stale,
           Retriable(p), Unshared(q, p), strict => StillFresh(q, p) /\ Agreeing(p)
    PROVE  PluginInv(strict)'
<1>1. PluginTypes'
    BY AloneTyped DEF PluginInv, PluginTypes
<1>2. (\A r \in Plugins : Keyed(row[r], ops))'
    <2>1. \A r \in Plugins \ {p} : Keyed(row[r], ops) /\ row[r].pk \in Nat
        BY DEF PluginInv, PluginTypes, PluginRows
    <2>2. ops \in Nat
        BY DEF PluginInv, PluginTypes
    <2>3. \A r \in Plugins \ {p} : row[r].pk <= ops'
        BY <2>1, <2>2 DEF Keyed
    <2>4. \A r \in Plugins \ {p} : Keyed(row[r], ops')
        BY <2>1, <2>3 DEF Keyed
    <2>5. QED
        BY <2>4
<1>3. (\A o \in Plugin!Procs : Employed(job[o], ops))'
    <2>1. \A o \in Plugin!Procs \ {q} : Employed(job[o], ops) /\ job[o].pk \in Nat
        BY DEF PluginInv, PluginTypes, PluginJobs
    <2>2. ops \in Nat
        BY DEF PluginInv, PluginTypes
    <2>3. \A o \in Plugin!Procs \ {q} : Employed(job'[o], ops')
        BY <2>1, <2>2 DEF Employed, Alone
    <2>4. QED
        BY <2>3
<1>4. (\A o \in Plugin!Procs : strict /\ Waits(job[o]) => Fresh(job[o], row[job[o].plugin]))'
    <2>1. SUFFICES ASSUME strict, NEW o \in Plugin!Procs \ {q}, Waits(job[o])
                   PROVE  Fresh(job[o], row'[job[o].plugin])
        BY DEF Alone
    <2>2. job[o].plugin \in Plugins
        BY <2>1 DEF PluginInv, Employed, Waits
    <2>3. CASE job[o].plugin = p
        BY <2>1, <2>3 DEF StillFresh
    <2>4. CASE job[o].plugin # p
        BY <2>1, <2>2, <2>4 DEF PluginInv, Agreed
    <2>5. QED
        BY <2>3, <2>4
<1>5. OneCarrier'
    <2>1. SUFFICES ASSUME NEW r \in Plugins, NEW o \in Plugin!Procs, Carries(job'[o], r, row'[r]),
                          row'[r].pk \notin twice
                   PROVE  /\ row'[r].state \in Plugin!Transient
                          /\ row'[r].stale => job'[o].op = "finish" \/ o \in Jobs
                          /\ \A t \in Plugin!Procs : Carries(job'[t], r, row'[r]) => t = o
        BY DEF OneCarrier
    <2>2. CASE r = p
        <3>1. \A t \in Plugin!Procs : Carries(job'[t], p, row'[p]) => t = q
            BY <2>1, <2>2 DEF Alone, Unshared
        <3>2. QED
            BY <2>1, <2>2, <3>1
    <2>3. CASE r # p
        <3>1. \A t \in Plugin!Procs : Carries(job'[t], r, row'[r]) => t # q
            BY <2>3 DEF Carries
        <3>2. QED
            BY <2>1, <2>3, <3>1 DEF PluginInv, OneCarrier, Alone
    <2>4. QED
        BY <2>2, <2>3
<1>6. strict => Plugin!NoClash'
    <2>1. \A r \in Plugins \ {p} : Plugin!Enabled(r)' <=> Plugin!Enabled(r)
        BY DEF Plugin!Enabled
    <2>2. SUFFICES ASSUME strict, NEW r \in Plugins, NEW t \in Plugins, r # t,
                          Plugin!Enabled(r)', Plugin!Enabled(t)',
                          row'[r].pk \notin twice, row'[t].pk \notin twice
                   PROVE  Claims[r][row'[r].version] \cap Claims[t][row'[t].version] = {}
        BY DEF Plugin!NoClash
    <2>3. CASE r = p
        BY <2>1, <2>2, <2>3 DEF Agreeing
    <2>4. CASE t = p
        BY <2>1, <2>2, <2>4 DEF Agreeing
    <2>5. CASE r # p /\ t # p
        BY <2>1, <2>2, <2>5 DEF PluginInv, Agreed, Plugin!NoClash
    <2>6. QED
        BY <2>3, <2>4, <2>5
<1>7. Failures'
    BY DEF PluginInv, Failures, Retriable
<1>8. QED
    BY <1>1, <1>2, <1>3, <1>4, <1>5, <1>6, <1>7 DEF PluginInv, Agreed

\* What the process had in hand when it settles a row, or marks it failed.
LEMMA EndingFacts ==
    ASSUME NEW strict \in BOOLEAN, PluginInv(strict),
           NEW q \in Plugin!Procs, job[q].pc \in {"fail", "settle"}
    PROVE  /\ job[q] \in PluginJobs /\ job[q].plugin \in Plugins /\ job[q].pk > 0
           /\ Employed(job[q], ops) /\ row[job[q].plugin] \in PluginRows
           /\ Keyed(row[job[q].plugin], ops) /\ ops \in Nat
           /\ row[job[q].plugin].pk = job[q].pk /\ job[q].pk \notin twice
              => /\ row[job[q].plugin].state \in Plugin!Transient
                 /\ \A o \in Plugin!Procs \ {q} :
                       ~Carries(job[o], job[q].plugin, row[job[q].plugin])
<1>1. Acting(job[q])
    BY DEF Acting
<1>2. job[q].plugin \in Plugins /\ job[q].pk > 0 /\ Employed(job[q], ops)
    BY <1>1 DEF PluginInv, Employed
<1>3. row[job[q].plugin].pk = job[q].pk => Carries(job[q], job[q].plugin, row[job[q].plugin])
    BY <1>1 DEF Carries
<1>4. QED
    BY <1>2, <1>3 DEF PluginInv, PluginTypes, OneCarrier

LEMMA FailKeeps ==
    ASSUME NEW strict \in BOOLEAN, PluginInv(strict),
           NEW q \in Plugin!Procs, Plugin!Fail(q)
    PROVE  PluginInv(strict)'
<1>1. PICK p \in Plugins : p = job[q].plugin
    BY EndingFacts DEF Plugin!Fail
<1>2. job[q].pc = "fail"
    BY DEF Plugin!Fail
<1>3. /\ job[q] \in PluginJobs /\ Employed(job[q], ops) /\ row[p] \in PluginRows
      /\ Keyed(row[p], ops) /\ ops \in Nat
    BY <1>1, <1>2, EndingFacts
<1>4. job'[q] = [job[q] EXCEPT !.pc = "rerender"]
    BY DEF Plugin!Fail, PluginInv, PluginTypes
<1>5. job'[q] \in PluginJobs
    BY <1>3, <1>4 DEF PluginJobs
<1>6. Alone(q)
    BY <1>5 DEF Plugin!Fail, PluginInv, PluginTypes, Alone
<1>7. job'[q].pc = "rerender" /\ job'[q].pk = job[q].pk
    BY <1>3, <1>4 DEF PluginJobs
<1>8. ~Acting(job'[q]) /\ ~Waits(job'[q])
    BY <1>7 DEF Acting, Waits
<1>9. Employed(job'[q], ops)
    BY <1>3, <1>7, <1>8 DEF Employed
<1>10. UNCHANGED <<ops, given, faults, twice>> /\ faults \in Nat /\ given \in [Plugins -> Nat]
    BY DEF Plugin!Fail, PluginInv, PluginTypes
<1>11. CASE row[p].pk # job[q].pk
    <2>1. UNCHANGED row
        BY <1>1, <1>11 DEF Plugin!Fail
    <2>2. QED
        BY <1>6, <1>8, <1>9, <1>10, <2>1, QuietStep
<1>12. CASE row[p].pk = job[q].pk
    <2>1. row' = [row EXCEPT ![p].state = "failed"]
        BY <1>1, <1>12 DEF Plugin!Fail
    <2>2. row'[p] = [row[p] EXCEPT !.state = "failed"] /\ \A r \in Plugins \ {p} : row'[r] = row[r]
        BY <2>1 DEF PluginInv, PluginTypes
    <2>3. row'[p] \in PluginRows
        <3>1. "failed" \in Plugin!States
            BY DEF Plugin!States
        <3>2. QED
            BY <1>3, <2>2, <3>1 DEF PluginRows
    <2>4. row' \in [Plugins -> PluginRows]
        BY <2>1, <2>3 DEF PluginInv, PluginTypes
    <2>5. /\ row'[p].state = "failed" /\ row'[p].target = row[p].target /\ row'[p].pk = row[p].pk
          /\ row'[p].rev = row[p].rev /\ row'[p].version = row[p].version
        BY <1>3, <2>2 DEF PluginRows
    <2>6. row[p].pk \notin twice
          => /\ row[p].state \in Plugin!Transient
             /\ \A o \in Plugin!Procs \ {q} : ~Carries(job[o], p, row[p])
        BY <1>1, <1>2, <1>12, EndingFacts
    <2>7. row[p].pk # 0
        <3>1. row[p].pk > 0 /\ row[p].pk \in Nat
            BY <1>1, <1>2, <1>3, <1>12, EndingFacts DEF PluginRows
        <3>2. QED
            BY <3>1
    <2>8. Keyed(row'[p], ops)
        <3>1. Formed(row'[p])
            BY <1>3, <2>5, <2>7 DEF Keyed, Formed, Plugin!Transient
        <3>2. QED
            BY <1>3, <2>5, <2>7, <3>1 DEF Keyed
    <2>9. Unshared(q, p) /\ (strict => StillFresh(q, p))
        <3>1. Unshared(q, p)
            BY <2>5, <2>6 DEF Unshared, Carries
        <3>2. \A o \in Plugin!Procs : strict /\ Waits(job[o]) /\ job[o].plugin = p => Fresh(job[o], row[p])
            BY DEF PluginInv, Agreed
        <3>3. QED
            BY <2>5, <3>1, <3>2 DEF Fresh, StillFresh
    <2>10. Agreeing(p)
        BY <2>5 DEF Agreeing, Plugin!Enabled, Plugin!Effective, Plugin!Transient
    <2>11. Acting(job'[q]) => job'[q].plugin = p
        BY <1>8
    <2>12. ~Carries(job'[q], p, row'[p])
        BY <1>8 DEF Carries
    <2>13. /\ ops' \in Nat /\ ops <= ops' /\ faults' \in Nat /\ given' \in [Plugins -> Nat]
           /\ UNCHANGED twice
        BY <1>3, <1>10
    <2>14. Keyed(row'[p], ops') /\ Employed(job'[q], ops')
        BY <1>9, <1>10, <2>8
    <2>15. Retriable(p)
        BY <1>3, <2>5, <2>6 DEF Keyed, Formed, Retriable
    <2>16. QED
        BY <1>6, <1>8, <2>2, <2>4, <2>9, <2>10, <2>11, <2>12, <2>13, <2>14, <2>15, RowStep
<1>13. QED
    BY <1>11, <1>12

\* No plugin is removed while somebody waits to enable it as it is.
Undisputed ==
    \A p \in Plugins :
        row[p].pk # 0 /\ row'[p].pk = 0
        => \A q \in Plugin!Procs : ~(Waits(job[q]) /\ job[q].plugin = p)

LEMMA SettleKeeps ==
    ASSUME NEW strict \in BOOLEAN, PluginInv(strict),
           strict => Undisputed, NEW q \in Plugin!Procs, Plugin!Settle(q)
    PROVE  PluginInv(strict)'
<1>1. PICK p \in Plugins : p = job[q].plugin
    BY EndingFacts DEF Plugin!Settle
<1>2. job[q].pc = "settle"
    BY DEF Plugin!Settle
<1>3. /\ job[q] \in PluginJobs /\ Employed(job[q], ops) /\ row[p] \in PluginRows
      /\ Keyed(row[p], ops) /\ ops \in Nat
    BY <1>1, <1>2, EndingFacts
<1>4. /\ Alone(q) /\ job'[q].pc \in {"offer", "idle"}
      /\ job'[q].pk = job[q].pk \/ job'[q].pk = 0
    <2>1. CASE job' = [job EXCEPT ![q].pc = "offer"]
        <3>1. job'[q] = [job[q] EXCEPT !.pc = "offer"]
            BY <2>1 DEF PluginInv, PluginTypes
        <3>2. job'[q] \in PluginJobs
            BY <1>3, <3>1 DEF PluginJobs
        <3>3. Alone(q)
            BY <2>1, <3>2 DEF PluginInv, PluginTypes, Alone
        <3>4. job'[q].pc = "offer" /\ job'[q].pk = job[q].pk
            BY <1>3, <3>1 DEF PluginJobs
        <3>5. QED
            BY <3>3, <3>4
    <2>2. CASE job' = [job EXCEPT ![q] = Plugin!IdleJob]
        <3>1. job'[q] = Plugin!IdleJob
            BY <2>2 DEF PluginInv, PluginTypes
        <3>2. job'[q] \in PluginJobs
            BY <3>1 DEF PluginJobs, Plugin!IdleJob
        <3>3. Alone(q)
            BY <2>2, <3>2 DEF PluginInv, PluginTypes, Alone
        <3>4. job'[q].pc = "idle" /\ job'[q].pk = 0
            BY <3>1 DEF Plugin!IdleJob
        <3>5. QED
            BY <3>3, <3>4
    <2>3. QED
        BY <2>1, <2>2 DEF Plugin!Settle
<1>5. ~Acting(job'[q]) /\ ~Waits(job'[q])
    BY <1>4 DEF Acting, Waits
<1>6. Employed(job'[q], ops)
    BY <1>3, <1>4, <1>5 DEF Employed
<1>7. UNCHANGED <<ops, given, faults, twice>> /\ faults \in Nat /\ given \in [Plugins -> Nat]
    BY DEF Plugin!Settle, PluginInv, PluginTypes
<1>8. CASE row[p].pk # job[q].pk
    <2>1. UNCHANGED row
        BY <1>1, <1>8 DEF Plugin!Settle
    <2>2. QED
        BY <1>4, <1>5, <1>6, <1>7, <2>1, QuietStep
<1>9. CASE row[p].pk = job[q].pk
    <2>1. row' = [row EXCEPT ![p] = Plugin!SettledTo(row[p])]
        BY <1>1, <1>9 DEF Plugin!Settle
    <2>2. row'[p] = Plugin!SettledTo(row[p]) /\ \A r \in Plugins \ {p} : row'[r] = row[r]
        BY <2>1 DEF PluginInv, PluginTypes
    <2>3. row[p].pk \notin twice
          => /\ row[p].state \in Plugin!Transient /\ row[p].target # ""
             /\ \A o \in Plugin!Procs \ {q} : ~Carries(job[o], p, row[p])
        BY <1>1, <1>2, <1>3, <1>9, EndingFacts DEF Keyed, Formed
    <2>4. row[p].pk # 0
        <3>1. row[p].pk > 0 /\ row[p].pk \in Nat
            BY <1>1, <1>2, <1>3, <1>9, EndingFacts DEF PluginRows
        <3>2. QED
            BY <3>1
    <2>5. \A o \in Plugin!Procs : strict /\ Waits(job[o]) /\ job[o].plugin = p => Fresh(job[o], row[p])
        BY DEF PluginInv, Agreed
    <2>6. /\ Acting(job'[q]) => job'[q].plugin = p
          /\ ~Carries(job'[q], p, row'[p])
        BY <1>5 DEF Carries
    <2>7. /\ ops' \in Nat /\ ops <= ops' /\ faults' \in Nat /\ given' \in [Plugins -> Nat]
          /\ UNCHANGED twice
        BY <1>3, <1>7
    <2>8. CASE row[p].target = "absent"
        <3>1. row'[p] = Plugin!NoRow
            BY <2>2, <2>8 DEF Plugin!SettledTo
        <3>2. row'[p] \in PluginRows
            BY <3>1, NoRowFacts
        <3>3. row' \in [Plugins -> PluginRows]
            BY <2>1, <3>2 DEF PluginInv, PluginTypes
        <3>4. Keyed(row'[p], ops)
            BY <1>3, <3>1, NoRowFacts
        <3>5. row'[p].pk = 0 /\ row'[p].state = "absent"
            BY <3>1, NoRowFacts
        <3>6. Unshared(q, p) /\ (strict => StillFresh(q, p))
            <4>1. \A o \in Plugin!Procs : Acting(job[o]) => job[o].pk # 0
                BY DEF PluginInv, Employed
            <4>2. strict => \A o \in Plugin!Procs : ~(Waits(job[o]) /\ job[o].plugin = p)
                BY <2>4, <3>5 DEF Undisputed
            <4>3. QED
                BY <3>5, <4>1, <4>2 DEF Carries, Unshared, StillFresh
        <3>7. Agreeing(p) /\ Retriable(p)
            BY <3>5 DEF Agreeing, Retriable, Plugin!Enabled, Plugin!Effective, Plugin!Transient
        <3>8. Keyed(row'[p], ops') /\ Employed(job'[q], ops')
            BY <1>6, <1>7, <3>4
        <3>9. QED
            BY <1>4, <1>5, <2>2, <2>6, <2>7, <3>3, <3>6, <3>7, <3>8, RowStep
    <2>9. CASE row[p].target # "absent"
        <3>0. PICK goal : goal = IF row[p].target = "" THEN "enabled" ELSE row[p].target
            OBVIOUS
        <3>1. row'[p] = [row[p] EXCEPT !.state = goal, !.target = "", !.stale = FALSE]
            BY <2>2, <2>9, <3>0 DEF Plugin!SettledTo
        <3>2. goal \in {"enabled", "disabled"} /\ (row[p].pk \notin twice => goal = row[p].target)
            BY <1>3, <2>3, <2>9, <3>0 DEF PluginRows, Plugin!Targets
        <3>3. row'[p] \in PluginRows
            <4>1. goal \in Plugin!States /\ "" \in Plugin!Targets
                BY <3>2 DEF Plugin!States, Plugin!Targets
            <4>2. QED
                BY <1>3, <3>1, <4>1 DEF PluginRows
        <3>4. row' \in [Plugins -> PluginRows]
            BY <2>1, <3>3 DEF PluginInv, PluginTypes
        <3>5. /\ row'[p].state = goal /\ row'[p].pk = row[p].pk
              /\ row'[p].target = "" /\ row'[p].stale = FALSE
              /\ row'[p].rev = row[p].rev /\ row'[p].version = row[p].version
            BY <1>3, <3>1 DEF PluginRows
        <3>6. Keyed(row'[p], ops)
            <4>1. Formed(row'[p])
                BY <2>4, <3>2, <3>5 DEF Formed, Plugin!Transient
            <4>2. QED
                BY <1>3, <2>4, <3>2, <3>5, <4>1 DEF Keyed
        <3>7. Unshared(q, p) /\ (strict => StillFresh(q, p)) /\ Retriable(p)
            BY <2>3, <2>5, <3>2, <3>5 DEF Carries, Fresh, Unshared, StillFresh, Retriable
        <3>8. row[p].pk \notin twice /\ Plugin!Enabled(p)' => Plugin!Enabled(p)
            BY <2>3, <3>2, <3>5 DEF Plugin!Enabled, Plugin!Effective, Plugin!Transient
        <3>9. strict => Agreeing(p)
            <4>1. SUFFICES ASSUME strict, row[p].pk \notin twice, Plugin!Enabled(p), NEW r \in Plugins \ {p},
                                  Plugin!Enabled(r), row[r].pk \notin twice
                           PROVE  Claims[p][row[p].version] \cap Claims[r][row[r].version] = {}
                BY <3>5, <3>8 DEF Agreeing
            <4>2. QED
                BY <4>1 DEF PluginInv, Agreed, Plugin!NoClash
        <3>10. Keyed(row'[p], ops') /\ Employed(job'[q], ops')
            BY <1>6, <1>7, <3>6
        <3>11. QED
            BY <1>4, <1>5, <2>2, <2>6, <2>7, <3>4, <3>7, <3>9, <3>10, RowStep
    <2>10. QED
        BY <2>8, <2>9
<1>10. QED
    BY <1>8, <1>9

\* Where an operation heads.
Goal(d, r) == Plugin!Target(d.op, r)

LEMMA GoalFacts ==
    ASSUME NEW d \in PluginJobs, NEW r \in PluginRows, Formed(r), r.state \in Plugin!Sources(d.op)
    PROVE  /\ r.state \notin Plugin!Transient
           /\ d.op = "install" <=> r.state = "absent"
           /\ Goal(d, r) \in {"absent", "enabled", "disabled"}
           /\ Plugin!Passing(d.op, Goal(d, r)) \in Plugin!Transient
           /\ Goal(d, r) = "enabled"
              => \/ d.op \in {"install", "enable"}
                 \/ d.op = "retry" /\ r.target \in {"", "enabled"}
                 \/ d.op \notin {"install", "enable", "retry"} /\ r.state = "enabled"
<1>1. r.state \notin Plugin!Transient /\ (d.op = "install" <=> r.state = "absent")
    BY DEF Plugin!Sources, Plugin!Transient
<1>2. Plugin!Passing(d.op, Goal(d, r)) \in Plugin!Transient
    BY DEF Plugin!Passing, Plugin!Transient
<1>3. r.target \in {"", "absent", "enabled", "disabled"}
    BY DEF PluginRows, Plugin!Targets
<1>4. CASE d.op = "install"
    BY <1>1, <1>2, <1>4 DEF Goal, Plugin!Target
<1>5. CASE d.op \in {"enable", "disable", "uninstall"}
    BY <1>1, <1>2, <1>5 DEF Goal, Plugin!Target
<1>6. CASE d.op = "retry"
    <2>1. Goal(d, r) = IF r.target = "" THEN "enabled" ELSE r.target
        BY <1>6 DEF Goal, Plugin!Target
    <2>2. QED
        BY <1>1, <1>2, <1>3, <1>6, <2>1
<1>7. CASE d.op \notin {"install", "enable", "disable", "uninstall", "retry"}
    <2>1. Goal(d, r) = r.state /\ r.state \in {"enabled", "disabled"}
        BY <1>7 DEF Goal, Plugin!Target, Plugin!Sources
    <2>2. QED
        BY <1>1, <1>2, <1>7, <2>1
<1>8. QED
    BY <1>4, <1>5, <1>6, <1>7

\* The row as the transaction leaves it.
Begun(d, r, n) ==
    [state |-> Plugin!Passing(d.op, Goal(d, r)), target |-> Goal(d, r),
     pk |-> IF d.op = "install" THEN n + 1 ELSE r.pk, rev |-> r.rev + 1,
     version |-> IF d.op \in {"install", "update"} THEN d.version ELSE r.version,
     settings |-> IF d.op \in {"install", "configure", "update"} THEN d.settings ELSE r.settings,
     stale |-> FALSE]

LEMMA BegunFacts ==
    ASSUME NEW d \in PluginJobs, NEW r \in PluginRows, NEW n \in Nat, Keyed(r, n),
           r.state \in Plugin!Sources(d.op)
    PROVE  /\ Begun(d, r, n) \in PluginRows
           /\ Keyed(Begun(d, r, n), n + 1)
           /\ Begun(d, r, n).pk # 0
<1>1. /\ r.state \notin Plugin!Transient /\ (d.op = "install" <=> r.state = "absent")
      /\ Goal(d, r) \in {"absent", "enabled", "disabled"}
      /\ Plugin!Passing(d.op, Goal(d, r)) \in Plugin!Transient
    BY GoalFacts DEF Keyed
<1>2. PICK state \in Plugin!Transient : state = Plugin!Passing(d.op, Goal(d, r))
    BY <1>1
<1>3. state \in Plugin!States /\ Goal(d, r) \in Plugin!Targets /\ state # "absent"
    BY <1>1, <1>2 DEF Plugin!States, Plugin!Targets, Plugin!Transient
<1>4. /\ d.version \in Nat /\ d.settings \in SUBSET Settings
      /\ r.pk \in Nat /\ r.rev \in Nat /\ r.version \in Nat /\ r.settings \in SUBSET Settings
    BY DEF PluginJobs, PluginRows
<1>5. Begun(d, r, n) \in PluginRows
    <2>1. /\ (IF d.op = "install" THEN n + 1 ELSE r.pk) \in Nat /\ r.rev + 1 \in Nat
          /\ (IF d.op \in {"install", "update"} THEN d.version ELSE r.version) \in Nat
          /\ (IF d.op \in {"install", "configure", "update"} THEN d.settings ELSE r.settings)
             \in SUBSET Settings
        BY <1>4
    <2>2. QED
        BY <1>2, <1>3, <2>1 DEF Begun, PluginRows
<1>6. /\ Begun(d, r, n).state = state /\ Begun(d, r, n).target = Goal(d, r)
      /\ Begun(d, r, n).pk = IF d.op = "install" THEN n + 1 ELSE r.pk
    BY <1>2 DEF Begun
<1>7. r.pk <= n /\ (d.op # "install" => r.pk # 0)
    BY <1>1 DEF Keyed
<1>8. Begun(d, r, n).pk # 0 /\ Begun(d, r, n).pk <= n + 1
    BY <1>4, <1>6, <1>7
<1>9. Formed(Begun(d, r, n))
    BY <1>1, <1>2, <1>6, <1>8 DEF Formed, Plugin!Transient
<1>10. QED
    BY <1>3, <1>5, <1>6, <1>8, <1>9 DEF Keyed

LEMMA BeginKeeps ==
    ASSUME NEW strict \in BOOLEAN, PluginInv(strict),
           None \notin Nat, NEW q \in Plugin!Procs, Plugin!Begin(q)
    PROVE  PluginInv(strict)'
<1>1. job[q].pc = "begin" /\ job[q] \in PluginJobs /\ job[q].plugin \in Plugins
    BY DEF Plugin!Begin, PluginInv, PluginTypes, Employed
<1>2. PICK p \in Plugins : p = job[q].plugin
    BY <1>1
<1>3. PICK d \in PluginJobs : d = job[q]
    BY <1>1
<1>4. /\ row[p] \in PluginRows /\ Keyed(row[p], ops) /\ ops \in Nat
      /\ row[p].state \in Plugin!Sources(d.op)
    BY <1>2, <1>3 DEF Plugin!Begin, Plugin!Allowed, PluginInv, PluginTypes
<1>5. row' = [row EXCEPT ![p] = Begun(d, row[p], ops)]
    BY <1>2, <1>3 DEF Plugin!Begin, Begun, Goal
<1>6. row'[p] = Begun(d, row[p], ops) /\ \A r \in Plugins \ {p} : row'[r] = row[r]
    BY <1>5 DEF PluginInv, PluginTypes
<1>7. /\ row'[p] \in PluginRows /\ Keyed(row'[p], ops + 1) /\ row'[p].pk # 0
    BY <1>4, <1>6, BegunFacts
<1>8. row' \in [Plugins -> PluginRows]
    BY <1>5, <1>7 DEF PluginInv, PluginTypes
<1>9. /\ row'[p].state = Plugin!Passing(d.op, Goal(d, row[p])) /\ row'[p].target = Goal(d, row[p])
      /\ row'[p].pk = (IF d.op = "install" THEN ops + 1 ELSE row[p].pk)
      /\ row'[p].rev = row[p].rev + 1
      /\ row'[p].version = (IF d.op \in {"install", "update"} THEN d.version ELSE row[p].version)
      /\ row'[p].stale = FALSE
    BY <1>6 DEF Begun
<1>10. /\ row[p].state \notin Plugin!Transient
       /\ d.op = "install" <=> row[p].state = "absent"
       /\ row'[p].state \in Plugin!Transient
       /\ row'[p].target \in {"absent", "enabled", "disabled"}
       /\ row'[p].target = "enabled"
          => \/ d.op \in {"install", "enable"}
             \/ d.op = "retry" /\ row[p].target \in {"", "enabled"}
             \/ d.op \notin {"install", "enable", "retry"} /\ row[p].state = "enabled"
    BY <1>4, <1>9, GoalFacts DEF Keyed
<1>11. ops' = ops + 1 /\ ops' \in Nat /\ ops <= ops'
    BY <1>4 DEF Plugin!Begin
<1>12. faults' \in Nat /\ given' \in [Plugins -> Nat]
    <2>1. given \in [Plugins -> Nat]
        BY DEF PluginInv, PluginTypes
    <2>2. given' = given \/ given' = [given EXCEPT ![p] = given[p] + 1]
        BY <1>2 DEF Plugin!Begin
    <2>3. given[p] + 1 \in Nat
        BY <2>1
    <2>4. QED
        BY <2>1, <2>2, <2>3 DEF Plugin!Begin, PluginInv, PluginTypes
<1>13. job'[q] = [d EXCEPT !.pc = "render", !.pk = row'[p].pk]
    <2>1. job' = [job EXCEPT ![q].pc = "render", ![q].pk = row'[p].pk]
        BY <1>2, <1>3, <1>9 DEF Plugin!Begin
    <2>2. QED
        BY <1>3, <2>1 DEF PluginInv, PluginTypes
<1>14. row'[p].pk \in Nat
    BY <1>7 DEF PluginRows
<1>15. job'[q] \in PluginJobs
    BY <1>13, <1>14 DEF PluginJobs
<1>16. Alone(q)
    BY <1>15 DEF Plugin!Begin, PluginInv, PluginTypes, Alone
<1>17. job'[q].pc = "render" /\ job'[q].plugin = p /\ job'[q].pk = row'[p].pk
    BY <1>2, <1>3, <1>13 DEF PluginJobs
<1>18. row'[p].pk <= ops'
    BY <1>7, <1>11 DEF Keyed
<1>19. Employed(job'[q], ops') /\ ~Waits(job'[q]) /\ Keyed(row'[p], ops')
    BY <1>7, <1>11, <1>14, <1>17, <1>18 DEF Employed, Waits
<1>20. Unshared(q, p) /\ (strict => StillFresh(q, p))
    <2>1. SUFFICES ASSUME NEW o \in Plugin!Procs \ {q}
                   PROVE  /\ row'[p].pk \notin twice => ~Carries(job[o], p, row'[p])
                          /\ strict /\ Waits(job[o]) /\ job[o].plugin = p => Fresh(job[o], row'[p])
        BY DEF Unshared, StillFresh
    <2>2. job[o] \in PluginJobs /\ Employed(job[o], ops)
        BY DEF PluginInv, PluginTypes
    <2>3. ASSUME row'[p].pk \notin twice PROVE ~Carries(job[o], p, row'[p])
        <3>1. CASE d.op = "install"
            <4>1. job[o].pk <= ops /\ job[o].pk \in Nat
                BY <2>2 DEF Employed, PluginJobs
            <4>2. row'[p].pk = ops + 1
                BY <1>9, <3>1
            <4>3. job[o].pk # row'[p].pk
                BY <1>4, <4>1, <4>2
            <4>4. QED
                BY <4>3 DEF Carries
        <3>2. CASE d.op # "install"
            <4>1. row'[p].pk = row[p].pk
                BY <1>9, <3>2
            <4>2. ~Carries(job[o], p, row[p])
                BY <1>10, <2>3, <4>1, NobodyCarries
            <4>3. QED
                BY <4>1, <4>2 DEF Carries
        <3>3. QED
            BY <3>1, <3>2
    <2>4. ASSUME strict, Waits(job[o]), job[o].plugin = p PROVE Fresh(job[o], row'[p])
        <3>1. Fresh(job[o], row[p])
            BY <2>4 DEF PluginInv, Agreed
        <3>2. row[p].rev \in Nat
            BY <1>4 DEF PluginRows
        <3>3. row'[p].rev = row[p].rev + 1
            BY <1>9
        <3>4. QED
            BY <1>7, <3>1, <3>2, <3>3 DEF Fresh
    <2>5. QED
        BY <2>3, <2>4
<1>21. strict => Agreeing(p)
    <2>1. Plugin!Enabled(p)' => row'[p].target = "enabled"
        BY <1>10 DEF Plugin!Enabled, Plugin!Effective
    <2>2. SUFFICES ASSUME strict, row'[p].target = "enabled", row'[p].pk \notin twice
                   PROVE  \A r \in Plugins \ {p} :
                             Plugin!Enabled(r) /\ row[r].pk \notin twice
                             => Claims[p][row'[p].version] \cap Claims[r][row[r].version] = {}
        BY <2>1 DEF Agreeing
    <2>3. ~Plugin!Conflicted(q) /\ Plugin!Current(q)
        BY DEF Plugin!Begin, Plugin!Allowed
    <2>4. Waits(d) => row[p].version = d.version
        <3>1. Waits(d) => Fresh(d, row[p])
            BY <1>2, <1>3, <2>2 DEF PluginInv, Agreed
        <3>2. d.rev = None \/ d.rev = row[p].rev
            BY <1>2, <1>3, <2>3 DEF Plugin!Current
        <3>3. QED
            BY <3>1, <3>2 DEF Fresh
    <2>5. CASE d.op \in {"install", "enable"} \/ (d.op = "retry" /\ row[p].target = "enabled")
               \/ (d.op = "update" /\ row[p].state = "enabled")
        <3>1. ~Plugin!Clashes(p, d.version)
            BY <1>2, <1>3, <2>3, <2>5 DEF Plugin!Conflicted
        <3>2. row'[p].version = d.version
            <4>1. d.pc = "begin"
                BY <1>1, <1>3
            <4>2. d.op \in {"enable", "retry"} => row[p].version = d.version
                BY <2>4, <4>1 DEF Waits
            <4>3. QED
                BY <1>9, <2>5, <4>2
        <3>3. QED
            BY <3>1, <3>2 DEF Plugin!Clashes
    <2>6. CASE d.op \notin {"install", "enable", "retry", "update"} /\ row[p].state = "enabled"
        <3>1. Plugin!Enabled(p)
            BY <1>10, <2>6 DEF Plugin!Enabled, Plugin!Effective
        <3>2. row'[p].version = row[p].version /\ row'[p].pk = row[p].pk
            BY <1>9, <2>6
        <3>3. QED
            BY <2>2, <3>1, <3>2 DEF PluginInv, Agreed, Plugin!NoClash
    <2>7. d.op = "retry" => row[p].target # ""
        <3>1. d.op = "retry" => row[p].state = "failed" /\ row'[p].pk = row[p].pk
            BY <1>4, <1>9 DEF Plugin!Sources
        <3>2. QED
            BY <2>2, <3>1 DEF PluginInv, Failures
    <2>8. QED
        BY <1>10, <2>2, <2>5, <2>6, <2>7
<1>22. Acting(job'[q]) => job'[q].plugin = p
    BY <1>17
<1>23. Carries(job'[q], p, row'[p]) => row'[p].state \in Plugin!Transient /\ ~row'[p].stale
    BY <1>9, <1>10
<1>24. QED
    <2>1. UNCHANGED twice /\ Retriable(p)
        BY <1>10 DEF Plugin!Begin, Plugin!Transient, Retriable
    <2>2. QED
        BY <1>6, <1>8, <1>11, <1>12, <1>16, <1>19, <1>20, <1>21, <1>22, <1>23, <2>1, RowStep

-----------------------------------------------------------------------------
\* Every step keeps it.
LEMMA PluginsKeep ==
    ASSUME None \notin Nat, NEW strict \in BOOLEAN, PluginInv(strict),
           [Plugin!Next]_(Plugin!vars), strict => [Undisputed]_(Plugin!vars)
    PROVE  PluginInv(strict)'
<1>1. PluginInv(strict) /\ [Plugin!Next]_(Plugin!vars) /\ (strict => [Undisputed]_(Plugin!vars))
    OBVIOUS
<1>2. CASE UNCHANGED Plugin!vars
    BY <1>1, <1>2 DEF Plugin!vars, PluginInv, Agreed, PluginTypes, OneCarrier, Failures, Plugin!NoClash,
       Plugin!Enabled
<1>3. CASE Plugin!Next /\ (strict => Undisputed)
    <2>1. CASE \E q \in Requests, op \in Plugin!Operations, p \in Plugins, s \in SUBSET Settings :
                  Plugin!Request(q, op, p, s, None) \/ Plugin!Request(q, op, p, s, row[p].rev)
        BY <1>1, <2>1, RequestKeeps DEF Plugin!Procs
    <2>2. ASSUME NEW q \in Plugin!Procs,
                 Plugin!Refused(q) \/ Plugin!Begin(q) \/ Plugin!Effects(q)
                 \/ Plugin!WriteFails(q) \/ Plugin!Die(q)
          PROVE  PluginInv(strict)'
        <3>1. CASE Plugin!Refused(q) \/ Plugin!Die(q)
            <4>1. /\ UNCHANGED <<row, ops, given, twice>> /\ job' = [job EXCEPT ![q] = Plugin!IdleJob]
                  /\ faults' \in Nat
                BY <1>1, <3>1 DEF Plugin!Refused, Plugin!Die, PluginInv, PluginTypes
            <4>2. QED
                BY <1>1, <4>1, RestStep
        <3>2. CASE Plugin!Begin(q)
            BY <1>1, <3>2, BeginKeeps
        <3>3. CASE Plugin!Effects(q) \/ Plugin!WriteFails(q)
            BY <1>1, <1>3, <3>3, RenderKeeps, WriteKeeps, FailKeeps, SettleKeeps DEF Plugin!Effects
        <3>4. QED
            BY <2>2, <3>1, <3>2, <3>3
    <2>3. CASE \E q \in Plugin!Procs, p \in Plugins : Plugin!Finish(q, p)
        BY <1>1, <2>3, FinishKeeps
    <2>4. CASE \E p \in Plugins : Plugin!Age(p)
        BY <1>1, <2>4, AgeKeeps
    <2>5. ASSUME NEW j \in Jobs, Plugin!Offer(j) PROVE PluginInv(strict)'
        <3>1. /\ UNCHANGED <<row, ops, given, twice>> /\ job' = [job EXCEPT ![j] = Plugin!IdleJob]
              /\ faults' \in Nat /\ j \in Plugin!Procs
            BY <1>1, <2>5 DEF Plugin!Offer, PluginInv, PluginTypes, Plugin!Procs
        <3>2. QED
            BY <1>1, <3>1, RestStep
    <2>6. ASSUME NEW j \in Jobs, NEW p \in Plugins, Plugin!Default(j, p) PROVE PluginInv(strict)'
        BY <1>1, <2>6, DefaultKeeps DEF Plugin!Procs
    <2>7. ASSUME NEW j \in Jobs, Plugin!Publish(j) PROVE PluginInv(strict)'
        BY <1>1, <2>7, PublishKeeps DEF Plugin!Procs
    <2>8. QED
        BY <1>3, <2>1, <2>2, <2>3, <2>4, <2>5, <2>6, <2>7 DEF Plugin!Next
<1>4. QED
    BY <1>1, <1>2, <1>3
\* Two plugins that want to set the same thing are never enabled together, however many
\* requests, jobs, updates, deaths and stale operations overlap, unless two processes have
\* been at one operation of one of them: as long as no plugin is removed while somebody
\* waits to enable it as it was.
THEOREM NoClashAlways ==
    ASSUME None \notin Nat
    PROVE  Plugin!Spec /\ [][Undisputed]_(Plugin!vars) => []NoClash
<1>1. Plugin!Init => PluginInv(TRUE)
    BY PluginsStart
<1>2. PluginInv(TRUE) /\ [Plugin!Next]_(Plugin!vars) /\ [Undisputed]_(Plugin!vars) => PluginInv(TRUE)'
    BY PluginsKeep
<1>3. PluginInv(TRUE) => NoClash
    BY DEF PluginInv, Agreed, NoClash
<1>4. QED
    BY <1>1, <1>2, <1>3, PTL DEF Plugin!Spec

\* What a step does to the row of p: nothing; a process that finishes an operation settles
\* it, or marks it failed or stale; or a new operation takes it.  Only where two have been
\* at one operation does the first find a row at rest.
Ended(r, s) ==
    \/ s.pk = 0
    \/ s.pk = r.pk /\ s.rev = r.rev /\ s.settings = r.settings

Taken(q, p) == Plugin!Begin(q) /\ job[q].plugin = p /\ row'[p] = Begun(job[q], row[p], ops)

Disturbed(r, s) == \E state \in {"enabled", "failed"} : s = [r EXCEPT !.state = state]

Moved(p) ==
    \/ row'[p] = row[p]
    \/ /\ Ended(row[p], row'[p])
       /\ \/ row[p].state \in Plugin!Transient
          \/ /\ row[p].pk \in twice
             /\ row[p].state \in Plugin!AtRest => Disturbed(row[p], row'[p])
    \/ \E q \in Plugin!Procs : Taken(q, p)

LEMMA RowMoves ==
    ASSUME PluginInv(FALSE), Plugin!Next, NEW p \in Plugins
    PROVE  Moved(p)
<1>1. row[p] \in PluginRows
    BY DEF PluginInv, PluginTypes
<1>2. ASSUME NEW q \in Plugin!Procs, Plugin!Begin(q) PROVE Moved(p)
    <2>1. PICK r \in Plugins : r = job[q].plugin
        BY <1>2 DEF Plugin!Begin, PluginInv, Employed
    <2>2. PICK d \in PluginJobs : d = job[q]
        BY DEF PluginInv, PluginTypes
    <2>3. row' = [row EXCEPT ![r] = Begun(d, row[r], ops)]
        BY <1>2, <2>1, <2>2 DEF Plugin!Begin, Begun, Goal
    <2>4. CASE r = p
        <3>1. row'[p] = Begun(d, row[p], ops)
            BY <2>3, <2>4 DEF PluginInv, PluginTypes
        <3>2. Taken(q, p)
            BY <1>2, <2>1, <2>2, <2>4, <3>1 DEF Taken
        <3>3. QED
            BY <3>2 DEF Moved
    <2>5. CASE r # p
        <3>1. row'[p] = row[p]
            BY <2>3, <2>5 DEF PluginInv, PluginTypes
        <3>2. QED
            BY <3>1 DEF Moved
    <2>6. QED
        BY <2>4, <2>5
<1>3. ASSUME NEW q \in Plugin!Procs, Plugin!Fail(q) \/ Plugin!Settle(q) PROVE Moved(p)
    <2>1. PICK r \in Plugins : r = job[q].plugin
        BY <1>3, EndingFacts DEF Plugin!Fail, Plugin!Settle
    <2>2. CASE row[r].pk = job[q].pk /\ r = p
        <3>1. row[p].state \in Plugin!Transient \/ row[p].pk \in twice
            BY <1>3, <2>1, <2>2, EndingFacts DEF Plugin!Fail, Plugin!Settle
        <3>2. \/ row' = [row EXCEPT ![p].state = "failed"]
              \/ row' = [row EXCEPT ![p] = Plugin!SettledTo(row[p])]
            BY <1>3, <2>1, <2>2 DEF Plugin!Fail, Plugin!Settle
        <3>3. row'[p] = [row[p] EXCEPT !.state = "failed"] \/ row'[p] = Plugin!SettledTo(row[p])
            BY <3>2 DEF PluginInv, PluginTypes
        <3>4. Ended(row[p], row'[p])
            BY <1>1, <3>3, NoRowFacts DEF Ended, PluginRows, Plugin!SettledTo
        <3>5. row[p].state \in Plugin!AtRest => Disturbed(row[p], row'[p])
            <4>1. row'[p] = Plugin!SettledTo(row[p]) /\ row[p].state \in Plugin!AtRest
                  => row'[p] = [row[p] EXCEPT !.state = "enabled"]
                <5>1. row[p].state \in Plugin!AtRest => row[p].target = "" /\ row[p].stale = FALSE
                    BY <1>1 DEF PluginInv, Keyed, Formed, Plugin!AtRest, PluginRows
                <5>2. QED
                    BY <1>1, <5>1 DEF Plugin!SettledTo, PluginRows
            <4>2. QED
                BY <3>3, <4>1 DEF Disturbed
        <3>6. QED
            BY <3>1, <3>4, <3>5 DEF Moved
    <2>3. CASE ~(row[r].pk = job[q].pk /\ r = p)
        <3>1. \/ UNCHANGED row
              \/ r # p /\ row' = [row EXCEPT ![r].state = "failed"]
              \/ r # p /\ row' = [row EXCEPT ![r] = Plugin!SettledTo(row[r])]
            BY <1>3, <2>1, <2>3 DEF Plugin!Fail, Plugin!Settle
        <3>2. row'[p] = row[p]
            BY <3>1 DEF PluginInv, PluginTypes
        <3>3. QED
            BY <3>2 DEF Moved
    <2>4. QED
        BY <2>2, <2>3
<1>4. ASSUME NEW r \in Plugins, Plugin!Age(r) PROVE Moved(p)
    <2>1. row' = [row EXCEPT ![r].stale = TRUE] /\ row[r].state \in Plugin!Transient
        BY <1>4 DEF Plugin!Age
    <2>2. CASE r = p
        <3>1. row'[p] = [row[p] EXCEPT !.stale = TRUE]
            BY <2>1, <2>2 DEF PluginInv, PluginTypes
        <3>2. Ended(row[p], row'[p])
            BY <1>1, <3>1 DEF Ended, PluginRows
        <3>3. QED
            BY <2>1, <2>2, <3>2 DEF Moved
    <2>3. CASE r # p
        BY <2>1, <2>3 DEF PluginInv, PluginTypes, Moved
    <2>4. QED
        BY <2>2, <2>3
<1>5. CASE UNCHANGED row
    BY <1>5 DEF Moved
<1>6. CASE \E q \in Requests, op \in Plugin!Operations, n \in Plugins, s \in SUBSET Settings :
              Plugin!Request(q, op, n, s, None) \/ Plugin!Request(q, op, n, s, row[n].rev)
    BY <1>5, <1>6 DEF Plugin!Request
<1>7. CASE \E q \in Plugin!Procs :
              Plugin!Refused(q) \/ Plugin!Begin(q) \/ Plugin!Effects(q) \/ Plugin!WriteFails(q) \/ Plugin!Die(q)
    <2>1. PICK q \in Plugin!Procs :
              Plugin!Refused(q) \/ Plugin!Begin(q) \/ Plugin!Effects(q) \/ Plugin!WriteFails(q) \/ Plugin!Die(q)
        BY <1>7
    <2>2. CASE Plugin!Begin(q)
        BY <1>2, <2>2
    <2>3. CASE Plugin!Effects(q)
        <3>1. CASE Plugin!Render(q) \/ Plugin!Write(q)
            BY <1>5, <3>1 DEF Plugin!Render, Plugin!Write
        <3>2. QED
            BY <1>3, <2>3, <3>1 DEF Plugin!Effects
    <2>4. CASE Plugin!Refused(q) \/ Plugin!WriteFails(q) \/ Plugin!Die(q)
        BY <1>5, <2>4 DEF Plugin!Refused, Plugin!WriteFails, Plugin!Die
    <2>5. QED
        BY <2>1, <2>2, <2>3, <2>4
<1>8. CASE \E q \in Plugin!Procs, n \in Plugins : Plugin!Finish(q, n)
    BY <1>5, <1>8 DEF Plugin!Finish
<1>9. CASE \E n \in Plugins : Plugin!Age(n)
    BY <1>4, <1>9
<1>10. CASE \E j \in Jobs : Plugin!Publish(j) \/ Plugin!Offer(j)
    BY <1>5, <1>10 DEF Plugin!Publish, Plugin!Offer
<1>11. CASE \E j \in Jobs, n \in Plugins : Plugin!Default(j, n)
    BY <1>5, <1>11 DEF Plugin!Default
<1>12. QED
    BY <1>6, <1>7, <1>8, <1>9, <1>10, <1>11 DEF Plugin!Next

\* Nobody who finishes an operation alone has a row in hand that is at rest.
LEMMA RestingRows ==
    ASSUME PluginInv(FALSE), Plugin!Next, NEW p \in Plugins, row[p].state \in Plugin!AtRest
    PROVE  \/ row'[p] = row[p] \/ row'[p].state \in Plugin!Transient
           \/ row[p].pk \in twice /\ Disturbed(row[p], row'[p])
<1>1. row[p].state \notin Plugin!Transient
    BY DEF Plugin!AtRest, Plugin!Transient
<1>2. ASSUME NEW q \in Plugin!Procs, Taken(q, p)
      PROVE  row'[p].state \in Plugin!Transient
    <2>1. PICK d \in PluginJobs : d = job[q]
        BY DEF PluginInv, PluginTypes
    <2>2. row[p] \in PluginRows /\ Formed(row[p]) /\ row[p].state \in Plugin!Sources(d.op)
        BY <1>2, <2>1 DEF Taken, Plugin!Begin, Plugin!Allowed, PluginInv, PluginTypes, Keyed
    <2>3. Begun(d, row[p], ops).state \in Plugin!Transient
        BY <2>2, GoalFacts DEF Begun
    <2>4. QED
        BY <1>2, <2>1, <2>3 DEF Taken
<1>3. QED
    BY <1>1, <1>2, RowMoves DEF Moved

\* However operations, deaths, slow jobs and finishers overlap, a plugin at rest changes
\* only through a new operation, unless two processes have been at one operation of it;
\* and what the late one of two does to it is to leave it enabled or failed.
THEOREM StaysSettledAlways ==
    ASSUME None \notin Nat
    PROVE  Plugin!Spec => StaysSettled
<1>1. Plugin!Init => PluginInv(FALSE)
    BY PluginsStart
<1>2. PluginInv(FALSE) /\ [Plugin!Next]_(Plugin!vars) => PluginInv(FALSE)'
    BY PluginsKeep
<1>3. PluginInv(FALSE) /\ [Plugin!Next]_(Plugin!vars)
      => [\A p \in Plugins : Plugin!Rests(p)]_(Plugin!vars)
    BY RestingRows DEF Plugin!Rests, Disturbed
<1>4. QED
    BY <1>1, <1>2, <1>3, PTL DEF Plugin!Spec, StaysSettled, Plugin!StaysSettled

-----------------------------------------------------------------------------
(* A form does not undo what somebody else saved.                           *)

\* A form somebody filled in, waiting for the lock: while the row has the revision the
\* form was shown, every setting of the row is in the form.
Form(d) == d.pc = "begin" /\ d.op \in {"configure", "update"} /\ d.rev # None

UpToDate(d, r) ==
    /\ r.pk # 0
    /\ d.rev \in Nat /\ d.rev <= r.rev
    /\ d.rev = r.rev => r.settings \subseteq d.settings

FormsTrue == \A q \in Plugin!Procs : Form(job[q]) => UpToDate(job[q], row[job[q].plugin])

\* No plugin is removed while a form somebody filled in for it waits.
Unremoved ==
    \A p \in Plugins :
        row[p].pk # 0 /\ row'[p].pk = 0
        => \A q \in Plugin!Procs : ~(Form(job[q]) /\ job[q].plugin = p)

\* A form that is there after a step was there before, or was just filled in.
Kept(q) ==
    Form(job'[q]) => \/ job'[q] = job[q]
                     \/ UNCHANGED row /\ UpToDate(job'[q], row[job'[q].plugin])

\* A process goes on: from where to where.
Onward(q, phase) ==
    \/ job' = [job EXCEPT ![q].pc = phase]
    \/ \E pk : job' = [job EXCEPT ![q].pc = phase, ![q].pk = pk]
    \/ \E view : job' = [job EXCEPT ![q].pc = phase, ![q].view = view]

LEMMA OnwardPhase ==
    ASSUME PluginTypes, NEW q \in Plugin!Procs, NEW phase, Onward(q, phase), phase # "begin"
    PROVE  \A o \in Plugin!Procs : Kept(o)
<1>1. job[q] \in PluginJobs /\ job \in [Plugin!Procs -> PluginJobs]
    BY DEF PluginTypes
<1>2. job'[q].pc = phase
    <2>1. CASE job' = [job EXCEPT ![q].pc = phase]
        <3>1. job'[q] = [job[q] EXCEPT !.pc = phase]
            BY <1>1, <2>1
        <3>2. QED
            BY <1>1, <3>1 DEF PluginJobs
    <2>2. ASSUME NEW pk, job' = [job EXCEPT ![q].pc = phase, ![q].pk = pk]
          PROVE  job'[q].pc = phase
        <3>1. job'[q] = [job[q] EXCEPT !.pc = phase, !.pk = pk]
            BY <1>1, <2>2
        <3>2. QED
            BY <1>1, <3>1 DEF PluginJobs
    <2>3. ASSUME NEW view, job' = [job EXCEPT ![q].pc = phase, ![q].view = view]
          PROVE  job'[q].pc = phase
        <3>1. job'[q] = [job[q] EXCEPT !.pc = phase, !.view = view]
            BY <1>1, <2>3
        <3>2. QED
            BY <1>1, <3>1 DEF PluginJobs
    <2>4. QED
        BY <2>1, <2>2, <2>3 DEF Onward
<1>3. \A o \in Plugin!Procs \ {q} : job'[o] = job[o]
    BY <1>1 DEF Onward
<1>4. QED
    BY <1>2, <1>3 DEF Kept, Form

LEMMA IdleKept ==
    ASSUME PluginTypes, NEW q \in Plugin!Procs, job' = [job EXCEPT ![q] = Plugin!IdleJob]
    PROVE  \A o \in Plugin!Procs : Kept(o)
<1>1. job'[q].pc = "idle" /\ \A o \in Plugin!Procs \ {q} : job'[o] = job[o]
    BY DEF PluginTypes, Plugin!IdleJob
<1>2. QED
    BY <1>1 DEF Kept, Form

LEMMA RequestKept ==
    ASSUME PluginInv(FALSE), None \notin Nat, NEW q \in Plugin!Procs,
           NEW op \in Plugin!Operations, NEW p \in Plugins, NEW s \in SUBSET Settings, NEW rev,
           Plugin!Request(q, op, p, s, rev)
    PROVE  \A o \in Plugin!Procs : Kept(o)
<1>1. row[p] \in PluginRows /\ Keyed(row[p], ops) /\ job \in [Plugin!Procs -> PluginJobs]
    BY DEF PluginInv, PluginTypes
<1>2. /\ UNCHANGED row /\ \A o \in Plugin!Procs \ {q} : job'[o] = job[o]
      /\ row[p].state \in Plugin!Sources(op) /\ rev \in {None, row[p].rev}
    BY <1>1 DEF Plugin!Request
<1>3. /\ job'[q].pc = "begin" /\ job'[q].op = op /\ job'[q].plugin = p /\ job'[q].rev = rev
      /\ job'[q].settings = row[p].settings \cup s
    <2>1. PICK v : job'[q] = [Plugin!IdleJob EXCEPT
              !.pc = "begin", !.op = op, !.plugin = p, !.rev = rev, !.version = v,
              !.settings = row[p].settings \cup s]
        BY <1>1 DEF Plugin!Request
    <2>2. QED
        BY <2>1 DEF Plugin!IdleJob
<1>4. CASE Form(job'[q])
    <2>1. op \in {"configure", "update"} /\ rev = row[p].rev
        BY <1>2, <1>3, <1>4 DEF Form
    <2>2. row[p].state # "absent"
        BY <1>2, <2>1 DEF Plugin!Sources
    <2>3. row[p].pk # 0 /\ row[p].rev \in Nat
        BY <1>1, <2>2 DEF Keyed, PluginRows
    <2>4. UpToDate(job'[q], row[p])
        BY <1>3, <2>1, <2>3 DEF UpToDate
    <2>5. QED
        BY <1>2, <1>3, <2>4 DEF Kept
<1>5. QED
    BY <1>2, <1>4 DEF Kept

\* Who goes on, or goes to rest, fills in no form.
LEMMA EffectKept ==
    ASSUME PluginInv(FALSE), NEW q \in Plugin!Procs,
           \/ Plugin!Refused(q) \/ Plugin!Begin(q) \/ Plugin!Effects(q)
           \/ Plugin!WriteFails(q) \/ Plugin!Die(q) \/ (q \in Jobs /\ Plugin!Offer(q))
    PROVE  \A o \in Plugin!Procs : Kept(o)
<1>1. PluginTypes
    BY DEF PluginInv
<1>2. CASE Plugin!Refused(q) \/ Plugin!Die(q) \/ (q \in Jobs /\ Plugin!Offer(q))
    BY <1>1, <1>2, IdleKept DEF Plugin!Refused, Plugin!Die, Plugin!Offer
<1>3. CASE Plugin!Begin(q)
    BY <1>1, <1>3, OnwardPhase DEF Plugin!Begin, Onward
<1>4. CASE Plugin!Render(q)
    <2>1. Onward(q, "write") \/ Onward(q, "rewrite")
        BY <1>1, <1>4 DEF Plugin!Render, Onward, PluginTypes
    <2>2. QED
        BY <1>1, <2>1, OnwardPhase
<1>5. CASE Plugin!Write(q) \/ Plugin!WriteFails(q)
    <2>1. Onward(q, "settle") \/ Onward(q, "fail") \/ job' = [job EXCEPT ![q] = Plugin!IdleJob]
        BY <1>5 DEF Plugin!Write, Plugin!WriteFails, Onward
    <2>2. QED
        BY <1>1, <2>1, OnwardPhase, IdleKept
<1>6. CASE Plugin!Fail(q)
    BY <1>1, <1>6, OnwardPhase DEF Plugin!Fail, Onward
<1>7. CASE Plugin!Settle(q)
    <2>1. Onward(q, "offer") \/ job' = [job EXCEPT ![q] = Plugin!IdleJob]
        BY <1>7 DEF Plugin!Settle, Onward
    <2>2. QED
        BY <1>1, <2>1, OnwardPhase, IdleKept
<1>8. QED
    BY <1>2, <1>3, <1>4, <1>5, <1>6, <1>7 DEF Plugin!Effects

LEMMA ReconcileKept ==
    ASSUME PluginInv(FALSE), NEW q \in Plugin!Procs,
           \/ Plugin!Publish(q) \/ \E p \in Plugins : Plugin!Finish(q, p)
           \/ \E p \in Plugins : Plugin!Default(q, p)
    PROVE  \A o \in Plugin!Procs : Kept(o)
<1>1. job \in [Plugin!Procs -> PluginJobs]
    BY DEF PluginInv, PluginTypes
<1>2. CASE Plugin!Publish(q)
    <2>1. job'[q] = [Plugin!IdleJob EXCEPT !.pc = "render", !.op = "publish"]
        BY <1>1, <1>2 DEF Plugin!Publish
    <2>2. job'[q].pc = "render"
        BY <2>1 DEF Plugin!IdleJob
    <2>3. \A o \in Plugin!Procs \ {q} : job'[o] = job[o]
        BY <1>1, <1>2 DEF Plugin!Publish
    <2>4. QED
        BY <2>2, <2>3 DEF Kept, Form
<1>3. ASSUME NEW p \in Plugins, Plugin!Finish(q, p)
      PROVE  \A o \in Plugin!Procs : Kept(o)
    <2>1. job'[q] = [Plugin!IdleJob EXCEPT !.pc = "render", !.op = "finish", !.plugin = p,
                                           !.pk = row[p].pk]
        BY <1>1, <1>3 DEF Plugin!Finish
    <2>2. job'[q].pc = "render"
        BY <2>1 DEF Plugin!IdleJob
    <2>3. \A o \in Plugin!Procs \ {q} : job'[o] = job[o]
        BY <1>1, <1>3 DEF Plugin!Finish
    <2>4. QED
        BY <2>2, <2>3 DEF Kept, Form
<1>4. ASSUME NEW p \in Plugins, Plugin!Default(q, p)
      PROVE  \A o \in Plugin!Procs : Kept(o)
    <2>1. \/ UNCHANGED job
          \/ job' = [job EXCEPT ![q] = [Plugin!IdleJob EXCEPT !.pc = "begin", !.op = "install",
                                            !.plugin = p, !.rev = None, !.version = 1]]
        BY <1>4 DEF Plugin!Default
    <2>2. CASE UNCHANGED job
        BY <2>2 DEF Kept
    <2>3. CASE job' = [job EXCEPT ![q] = [Plugin!IdleJob EXCEPT !.pc = "begin", !.op = "install",
                                              !.plugin = p, !.rev = None, !.version = 1]]
        <3>1. job'[q] = [Plugin!IdleJob EXCEPT !.pc = "begin", !.op = "install",
                                               !.plugin = p, !.rev = None, !.version = 1]
            BY <1>1, <2>3
        <3>2. job'[q].op = "install"
            BY <3>1 DEF Plugin!IdleJob
        <3>3. \A o \in Plugin!Procs \ {q} : job'[o] = job[o]
            BY <1>1, <2>3
        <3>4. QED
            BY <3>2, <3>3 DEF Kept, Form
    <2>4. QED
        BY <2>1, <2>2, <2>3
<1>5. QED
    BY <1>2, <1>3, <1>4

LEMMA FormsKept ==
    ASSUME PluginInv(FALSE), None \notin Nat, Plugin!Next, NEW o \in Plugin!Procs
    PROVE  Kept(o)
<1>1. CASE \E q \in Requests, op \in Plugin!Operations, p \in Plugins, s \in SUBSET Settings :
              Plugin!Request(q, op, p, s, None) \/ Plugin!Request(q, op, p, s, row[p].rev)
    BY <1>1, RequestKept DEF Plugin!Procs
<1>2. CASE \E q \in Plugin!Procs :
              Plugin!Refused(q) \/ Plugin!Begin(q) \/ Plugin!Effects(q) \/ Plugin!WriteFails(q) \/ Plugin!Die(q)
    BY <1>2, EffectKept
<1>3. CASE \E q \in Plugin!Procs, p \in Plugins : Plugin!Finish(q, p)
    BY <1>3, ReconcileKept
<1>4. CASE \E p \in Plugins : Plugin!Age(p)
    BY <1>4 DEF Plugin!Age, Kept
<1>5. CASE \E j \in Jobs : Plugin!Publish(j) \/ Plugin!Offer(j)
    BY <1>5, EffectKept, ReconcileKept DEF Plugin!Procs
<1>6. CASE \E j \in Jobs, p \in Plugins : Plugin!Default(j, p)
    BY <1>6, ReconcileKept DEF Plugin!Procs
<1>7. QED
    BY <1>1, <1>2, <1>3, <1>4, <1>5, <1>6 DEF Plugin!Next

\* What a new operation does to the row.
LEMMA TakenFacts ==
    ASSUME PluginInv(FALSE), NEW q \in Plugin!Procs, NEW p \in Plugins, Taken(q, p)
    PROVE  /\ job[q].pc = "begin" /\ job'[q].pc = "render" /\ job[q].rev \in {None, row[p].rev}
           /\ row'[p].rev = row[p].rev + 1 /\ row[p].rev \in Nat
           /\ row[p].pk # 0 => row'[p].pk = row[p].pk /\ job[q].op # "install"
           /\ row[p].pk = 0 => row'[p].pk # 0
           /\ row'[p].settings # row[p].settings
              => job[q].op \in {"install", "configure", "update"} /\ row'[p].settings = job[q].settings
<1>1. PICK d \in PluginJobs : d = job[q]
    BY DEF PluginInv, PluginTypes
<1>2. /\ row[p] \in PluginRows /\ Keyed(row[p], ops) /\ Formed(row[p]) /\ ops \in Nat
      /\ row[p].state \in Plugin!Sources(d.op)
    BY <1>1 DEF Taken, Plugin!Begin, Plugin!Allowed, PluginInv, PluginTypes, Keyed
<1>3. d.op = "install" <=> row[p].pk = 0
    BY <1>2, GoalFacts DEF Keyed
<1>4. row'[p] = Begun(d, row[p], ops)
    BY <1>1 DEF Taken
<1>5. /\ row'[p].rev = row[p].rev + 1
      /\ row'[p].pk = IF d.op = "install" THEN ops + 1 ELSE row[p].pk
      /\ row'[p].settings = IF d.op \in {"install", "configure", "update"} THEN d.settings
                            ELSE row[p].settings
    BY <1>4 DEF Begun
<1>6. row[p].rev \in Nat
    BY <1>2 DEF PluginRows
<1>7. /\ job[q].pc = "begin" /\ job[q].rev \in {None, row[p].rev}
      /\ job'[q].pc = "render"
    <2>1. PICK pk : job' = [job EXCEPT ![q].pc = "render", ![q].pk = pk]
        BY DEF Taken, Plugin!Begin
    <2>2. job'[q] = [job[q] EXCEPT !.pc = "render", !.pk = pk]
        BY <2>1 DEF PluginInv, PluginTypes
    <2>3. job'[q].pc = "render"
        BY <1>1, <2>2 DEF PluginJobs
    <2>4. QED
        BY <2>3 DEF Taken, Plugin!Begin, Plugin!Allowed, Plugin!Current
<1>8. QED
    BY <1>1, <1>2, <1>3, <1>5, <1>6, <1>7

LEMMA FormsStayTrue ==
    ASSUME PluginInv(FALSE), FormsTrue, None \notin Nat, [Plugin!Next]_(Plugin!vars),
           [Unremoved]_(Plugin!vars)
    PROVE  FormsTrue'
<1>1. CASE UNCHANGED Plugin!vars
    BY <1>1 DEF Plugin!vars, FormsTrue
<1>2. CASE Plugin!Next /\ Unremoved
    <2>1. SUFFICES ASSUME NEW o \in Plugin!Procs, Form(job'[o])
                   PROVE  UpToDate(job'[o], row'[job'[o].plugin])
        BY DEF FormsTrue
    <2>2. CASE UNCHANGED row /\ UpToDate(job'[o], row[job'[o].plugin])
        BY <2>2
    <2>3. CASE job'[o] = job[o]
        <3>1. /\ Form(job[o]) /\ UpToDate(job[o], row[job[o].plugin])
              /\ job[o] \in PluginJobs /\ job[o].plugin \in Plugins
            BY <2>1, <2>3 DEF FormsTrue, PluginInv, PluginTypes, Employed, Form
        <3>2. PICK p \in Plugins : p = job[o].plugin
            BY <3>1
        <3>3. row[p] \in PluginRows /\ UpToDate(job[o], row[p])
            BY <3>1, <3>2 DEF PluginInv, PluginTypes
        <3>4. CASE Ended(row[p], row'[p])
            <4>1. row'[p].pk # 0
                BY <1>2, <3>1, <3>2, <3>3 DEF Unremoved, UpToDate
            <4>2. UpToDate(job[o], row'[p])
                BY <3>3, <3>4, <4>1 DEF Ended, UpToDate
            <4>3. QED
                BY <2>3, <3>2, <4>2
        <3>5. ASSUME NEW q \in Plugin!Procs, Taken(q, p)
              PROVE  UpToDate(job[o], row'[p])
            <4>1. /\ row'[p].rev = row[p].rev + 1 /\ row[p].rev \in Nat
                  /\ row[p].pk # 0 => row'[p].pk = row[p].pk
                BY <3>5, TakenFacts
            <4>2. QED
                BY <3>3, <4>1 DEF UpToDate
        <3>6. CASE row'[p] = row[p]
            BY <2>3, <3>2, <3>3, <3>6
        <3>7. QED
            BY <1>2, <2>3, <3>2, <3>4, <3>5, <3>6, RowMoves DEF Moved
    <2>4. QED
        BY <1>2, <2>1, <2>2, <2>3, FormsKept DEF Kept
<1>3. QED
    BY <1>1, <1>2

\* A setting is only lost to a request that carries no revision, or with the plugin.
LEMMA SettingsStay ==
    ASSUME PluginInv(FALSE), FormsTrue, Plugin!Next, NEW p \in Plugins,
           row'[p].pk = row[p].pk, ~(row[p].settings \subseteq row'[p].settings)
    PROVE  Plugin!Unseen(p)
<1>1. row[p].pk # 0
    <2>1. Keyed(row[p], ops)
        BY DEF PluginInv
    <2>2. PICK empty : empty = {}
        OBVIOUS
    <2>3. Plugin!NoRow.settings = empty
        BY <2>2 DEF Plugin!NoRow
    <2>4. row[p].pk = 0 => row[p].settings = empty
        BY <2>1, <2>3 DEF Keyed, Formed
    <2>5. QED
        BY <2>2, <2>4
<1>2. ~Ended(row[p], row'[p]) /\ row'[p] # row[p]
    BY <1>1 DEF Ended
<1>3. PICK q \in Plugin!Procs : Taken(q, p)
    BY <1>2, RowMoves DEF Moved
<1>4. /\ job[q].pc = "begin" /\ job'[q].pc = "render" /\ job[q].rev \in {None, row[p].rev}
      /\ job[q].op \in {"configure", "update"} /\ row'[p].settings = job[q].settings
    BY <1>1, <1>3, TakenFacts
<1>5. job[q].plugin = p
    BY <1>3 DEF Taken
<1>6. job[q].rev = None
    <2>1. SUFFICES ASSUME job[q].rev # None PROVE FALSE
        OBVIOUS
    <2>2. UpToDate(job[q], row[p])
        BY <1>4, <1>5, <2>1 DEF FormsTrue, Form
    <2>3. QED
        BY <1>4, <2>1, <2>2 DEF UpToDate
<1>7. QED
    BY <1>4, <1>5, <1>6 DEF Plugin!Unseen

\* A setting somebody else saved is never undone by a form that was filled in before it,
\* as long as no plugin is removed while such a form waits.
THEOREM NoLostSettingAlways ==
    ASSUME None \notin Nat
    PROVE  Plugin!Spec /\ [][Unremoved]_(Plugin!vars) => NoLostSetting
<1>1. Plugin!Init => PluginInv(FALSE) /\ FormsTrue
    <2>1. Plugin!Init => \A q \in Plugin!Procs : job[q].pc = "idle"
        BY DEF Plugin!Init, Plugin!IdleJob
    <2>2. QED
        BY <2>1, PluginsStart DEF FormsTrue, Form
<1>2. PluginInv(FALSE) /\ FormsTrue /\ [Plugin!Next]_(Plugin!vars) /\ [Unremoved]_(Plugin!vars)
      => PluginInv(FALSE)' /\ FormsTrue'
    BY PluginsKeep, FormsStayTrue
<1>3. PluginInv(FALSE) /\ FormsTrue /\ [Plugin!Next]_(Plugin!vars)
      => [\A p \in Plugins :
             row'[p].pk = row[p].pk /\ ~(row[p].settings \subseteq row'[p].settings)
             => Plugin!Unseen(p)]_(Plugin!vars)
    BY SettingsStay
<1>4. QED
    BY <1>1, <1>2, <1>3, PTL DEF Plugin!Spec, NoLostSetting, Plugin!NoLostSetting

-----------------------------------------------------------------------------
(* A default is installed once, unless something failed.                    *)

\* A default on its way, from before its row is there until it is recorded as offered.
Arriving(d) == d.op = "install" /\ d.pc \in {"begin", "render", "write", "settle", "offer"}
Midway(d) == Arriving(d) /\ d.pc # "begin"

Fields(A) == [pc : A, op : A, plugin : A, pk : A, rev : A, version : A, settings : A, view : A]
Fielded(d) == \E A : d \in Fields(A)

Due(p) == p \in offered \/ \E j \in Jobs : Midway(job[j]) /\ job[j].plugin = p

DefaultsInv ==
    /\ job = [q \in Plugin!Procs |-> job[q]]
    /\ \A q \in Plugin!Procs : Fielded(job[q])
    /\ given \in [Plugins -> Nat] /\ faults \in Nat
    /\ \A j \in Jobs : job[j].pc = "begin" => job[j].op = "install"
    /\ \A j \in Jobs : Arriving(job[j]) => job[j].plugin \notin offered
    /\ \A p \in Plugins : given[p] <= faults + (IF Due(p) THEN 1 ELSE 0)

LEMMA IdleFielded == Fielded(Plugin!IdleJob) /\ Plugin!IdleJob.pc = "idle"
<1>1. PICK empty : empty = {}
    OBVIOUS
<1>2. Plugin!IdleJob = [pc |-> "idle", op |-> "none", plugin |-> None, pk |-> 0, rev |-> None,
                        version |-> 0, settings |-> empty, view |-> empty]
    BY <1>1 DEF Plugin!IdleJob
<1>3. Plugin!IdleJob \in Fields({"idle", "none", None, 0, empty})
    BY <1>2 DEF Fields
<1>4. QED
    BY <1>2, <1>3 DEF Fielded

LEMMA DefaultsStart == Plugin!Init => DefaultsInv
<1>1. SUFFICES ASSUME Plugin!Init PROVE DefaultsInv
    OBVIOUS
<1>2. Fielded(Plugin!IdleJob) /\ Plugin!IdleJob.pc = "idle"
    BY IdleFielded
<1>3. \A q \in Plugin!Procs : job[q] = Plugin!IdleJob
    BY <1>1 DEF Plugin!Init
<1>4. job = [q \in Plugin!Procs |-> job[q]]
    BY <1>1 DEF Plugin!Init
<1>5. \A j \in Jobs : job[j].pc = "idle"
    BY <1>2, <1>3 DEF Plugin!Procs
<1>6. given \in [Plugins -> Nat] /\ (\A p \in Plugins : given[p] = 0) /\ faults = 0
    BY <1>1 DEF Plugin!Init
<1>7. \A p \in Plugins : given[p] <= faults + (IF Due(p) THEN 1 ELSE 0)
    BY <1>6
<1>8. QED
    BY <1>2, <1>3, <1>4, <1>5, <1>6, <1>7 DEF DefaultsInv, Arriving

\* A step of one process that installs nothing by default: a default that was midway
\* still is, or was recorded, or something failed.
LEMMA DefaultsStep ==
    ASSUME DefaultsInv, \A i, j \in Jobs : i = j, NEW q \in Plugin!Procs,
           job' = [o \in Plugin!Procs |-> job'[o]],
           \A o \in Plugin!Procs \ {q} : job'[o] = job[o], Fielded(job'[q]),
           given' = given, faults' \in Nat, faults <= faults', offered \subseteq offered',
           q \notin Jobs => offered' = offered,
           q \in Jobs => /\ job'[q].pc = "begin" => job'[q].op = "install"
                         /\ Arriving(job'[q]) => job'[q].plugin \notin offered'
                         /\ \/ ~Midway(job[q])
                            \/ Midway(job'[q]) /\ job'[q].plugin = job[q].plugin
                            \/ job[q].plugin \in offered'
                            \/ faults + 1 <= faults'
    PROVE  DefaultsInv'
<1>1. Jobs \subseteq Plugin!Procs
    BY DEF Plugin!Procs
<1>2. \A o \in Plugin!Procs : Fielded(job'[o])
    BY DEF DefaultsInv
<1>3. \A j \in Jobs : job'[j].pc = "begin" => job'[j].op = "install"
    BY <1>1 DEF DefaultsInv
<1>4. \A j \in Jobs : Arriving(job'[j]) => job'[j].plugin \notin offered'
    BY <1>1 DEF DefaultsInv
<1>5. ASSUME NEW p \in Plugins
      PROVE  given[p] <= faults' + (IF Due(p)' THEN 1 ELSE 0)
    <2>1. given[p] \in Nat /\ faults \in Nat /\ given[p] <= faults + (IF Due(p) THEN 1 ELSE 0)
        BY DEF DefaultsInv
    <2>2. Due(p) => Due(p)' \/ faults + 1 <= faults'
        BY <1>1 DEF Due
    <2>3. CASE Due(p)'
        BY <2>1, <2>3
    <2>4. CASE ~Due(p)' /\ faults + 1 <= faults'
        BY <2>1, <2>4
    <2>5. CASE ~Due(p)' /\ ~Due(p)
        BY <2>1, <2>5
    <2>6. QED
        BY <2>2, <2>3, <2>4, <2>5
<1>6. QED
    BY <1>2, <1>3, <1>4, <1>5 DEF DefaultsInv

\* The same for a step that ends in idleness.
LEMMA DefaultsRest ==
    ASSUME DefaultsInv, \A i, j \in Jobs : i = j, NEW q \in Plugin!Procs,
           job' = [job EXCEPT ![q] = Plugin!IdleJob],
           given' = given, faults' \in Nat, faults <= faults', offered \subseteq offered',
           q \notin Jobs => offered' = offered,
           q \in Jobs => ~Midway(job[q]) \/ job[q].plugin \in offered' \/ faults + 1 <= faults'
    PROVE  DefaultsInv'
<1>1. Fielded(Plugin!IdleJob) /\ Plugin!IdleJob.pc = "idle"
    BY IdleFielded
<1>2. job'[q] = Plugin!IdleJob /\ \A o \in Plugin!Procs \ {q} : job'[o] = job[o]
    BY DEF DefaultsInv
<1>3. job' = [o \in Plugin!Procs |-> job'[o]]
    BY DEF DefaultsInv
<1>4. ~Arriving(job'[q]) /\ job'[q].pc # "begin" /\ Fielded(job'[q])
    BY <1>1, <1>2 DEF Arriving
<1>5. QED
    BY <1>2, <1>3, <1>4, DefaultsStep

\* The same for a step that goes on with the operation.
LEMMA DefaultsGoOn ==
    ASSUME DefaultsInv, \A i, j \in Jobs : i = j, NEW q \in Plugin!Procs,
           job' = [o \in Plugin!Procs |-> job'[o]],
           \A o \in Plugin!Procs \ {q} : job'[o] = job[o], Fielded(job'[q]),
           job'[q].op = job[q].op, job'[q].plugin = job[q].plugin,
           UNCHANGED <<given, offered>>, faults' \in Nat, faults <= faults',
           job[q].pc # "idle", job'[q].pc # "begin",
           Midway(job'[q]) => Midway(job[q]),
           Midway(job[q]) => Midway(job'[q]) \/ faults + 1 <= faults'
    PROVE  DefaultsInv'
<1>1. Arriving(job'[q]) => Arriving(job[q])
    BY DEF Midway
<1>2. q \in Jobs => (Arriving(job'[q]) => job'[q].plugin \notin offered')
    BY <1>1 DEF DefaultsInv
<1>3. QED
    BY <1>2, DefaultsStep

\* What a change of a job leaves of it.
Continues(e, d, phase) == Fielded(e) /\ e.pc = phase /\ e.op = d.op /\ e.plugin = d.plugin

LEMMA FieldedChange ==
    ASSUME NEW d, Fielded(d), NEW phase
    PROVE  /\ Continues([d EXCEPT !.pc = phase], d, phase)
           /\ \A n : Continues([d EXCEPT !.pc = phase, !.pk = n], d, phase)
           /\ \A files : Continues([d EXCEPT !.pc = phase, !.view = files], d, phase)
<1>1. PICK A : d \in Fields(A)
    BY DEF Fielded
<1>2. ASSUME NEW e, NEW n, e \in Fields(A \cup {phase, n}), e.pc = phase, e.op = d.op,
             e.plugin = d.plugin
      PROVE  Continues(e, d, phase)
    BY <1>2 DEF Fielded, Continues
<1>3. Continues([d EXCEPT !.pc = phase], d, phase)
    <2>1. [d EXCEPT !.pc = phase] \in Fields(A \cup {phase, phase})
        BY <1>1 DEF Fields
    <2>2. /\ [d EXCEPT !.pc = phase].pc = phase /\ [d EXCEPT !.pc = phase].op = d.op
          /\ [d EXCEPT !.pc = phase].plugin = d.plugin
        BY <1>1 DEF Fields
    <2>3. QED
        BY <1>2, <2>1, <2>2
<1>4. ASSUME NEW n PROVE Continues([d EXCEPT !.pc = phase, !.pk = n], d, phase)
    <2>1. PICK e : e = [d EXCEPT !.pc = phase, !.pk = n]
        OBVIOUS
    <2>2. e \in Fields(A \cup {phase, n})
        BY <1>1, <2>1 DEF Fields
    <2>3. e.pc = phase /\ e.op = d.op /\ e.plugin = d.plugin
        BY <1>1, <2>1 DEF Fields
    <2>4. QED
        BY <1>2, <2>1, <2>2, <2>3
<1>5. ASSUME NEW files PROVE Continues([d EXCEPT !.pc = phase, !.view = files], d, phase)
    <2>1. PICK e : e = [d EXCEPT !.pc = phase, !.view = files]
        OBVIOUS
    <2>2. e \in Fields(A \cup {phase, files})
        BY <1>1, <2>1 DEF Fields
    <2>3. e.pc = phase /\ e.op = d.op /\ e.plugin = d.plugin
        BY <1>1, <2>1 DEF Fields
    <2>4. QED
        BY <1>2, <2>1, <2>2, <2>3
<1>6. QED
    BY <1>3, <1>4, <1>5

LEMMA OnwardFields ==
    ASSUME DefaultsInv, NEW q \in Plugin!Procs, NEW phase, Onward(q, phase)
    PROVE  /\ job' = [o \in Plugin!Procs |-> job'[o]]
           /\ \A o \in Plugin!Procs \ {q} : job'[o] = job[o]
           /\ Fielded(job'[q]) /\ job'[q].pc = phase
           /\ job'[q].op = job[q].op /\ job'[q].plugin = job[q].plugin
<1>1. Fielded(job[q]) /\ job = [o \in Plugin!Procs |-> job[o]]
    BY DEF DefaultsInv
<1>2. /\ job' = [o \in Plugin!Procs |-> job'[o]]
      /\ \A o \in Plugin!Procs \ {q} : job'[o] = job[o]
      /\ Continues(job'[q], job[q], phase)
    <2>1. CASE job' = [job EXCEPT ![q].pc = phase]
        <3>1. job'[q] = [job[q] EXCEPT !.pc = phase]
            BY <1>1, <2>1
        <3>2. Fielded(job[q])
            BY <1>1
        <3>3. Continues([job[q] EXCEPT !.pc = phase], job[q], phase)
            BY <3>2, FieldedChange
        <3>4. QED
            BY <1>1, <2>1, <3>1, <3>3
    <2>2. ASSUME NEW pk, job' = [job EXCEPT ![q].pc = phase, ![q].pk = pk]
          PROVE  /\ job' = [o \in Plugin!Procs |-> job'[o]]
                 /\ \A o \in Plugin!Procs \ {q} : job'[o] = job[o]
                 /\ job'[q] = [job[q] EXCEPT !.pc = phase, !.pk = pk]
        BY <1>1, <2>2
    <2>3. ASSUME NEW view, job' = [job EXCEPT ![q].pc = phase, ![q].view = view]
          PROVE  /\ job' = [o \in Plugin!Procs |-> job'[o]]
                 /\ \A o \in Plugin!Procs \ {q} : job'[o] = job[o]
                 /\ job'[q] = [job[q] EXCEPT !.pc = phase, !.view = view]
        BY <1>1, <2>3
    <2>4. ASSUME NEW pk, job'[q] = [job[q] EXCEPT !.pc = phase, !.pk = pk]
          PROVE  Continues(job'[q], job[q], phase)
        <3>1. Fielded(job[q])
            BY <1>1
        <3>2. Continues([job[q] EXCEPT !.pc = phase, !.pk = pk], job[q], phase)
            BY <3>1, FieldedChange
        <3>3. QED
            BY <2>4, <3>2
    <2>5. ASSUME NEW view, job'[q] = [job[q] EXCEPT !.pc = phase, !.view = view]
          PROVE  Continues(job'[q], job[q], phase)
        <3>1. Fielded(job[q])
            BY <1>1
        <3>2. Continues([job[q] EXCEPT !.pc = phase, !.view = view], job[q], phase)
            BY <3>1, FieldedChange
        <3>3. QED
            BY <2>5, <3>2
    <2>6. QED
        BY <2>1, <2>2, <2>3, <2>4, <2>5 DEF Onward
<1>3. QED
    BY <1>2 DEF Continues

LEMMA EffectsKeepDefaults ==
    ASSUME DefaultsInv, \A i, j \in Jobs : i = j, NEW q \in Plugin!Procs,
           \/ Plugin!Render(q) \/ Plugin!Write(q) \/ Plugin!WriteFails(q)
           \/ Plugin!Fail(q) \/ Plugin!Settle(q)
    PROVE  DefaultsInv'
<1>1. /\ UNCHANGED <<given, offered>> /\ faults' \in Nat /\ faults <= faults'
      /\ Plugin!WriteFails(q) => faults + 1 <= faults'
    BY DEF Plugin!Render, Plugin!Write, Plugin!WriteFails, Plugin!Fail, Plugin!Settle, DefaultsInv
<1>2. CASE Plugin!Render(q)
    <2>1. PICK phase : Onward(q, phase) /\ phase = IF job[q].pc = "render" THEN "write" ELSE "rewrite"
        BY <1>2 DEF Plugin!Render, Onward, DefaultsInv
    <2>2. job[q].pc \in {"render", "rerender"}
        BY <1>2 DEF Plugin!Render
    <2>3. Midway(job'[q]) <=> Midway(job[q])
        BY <2>1, <2>2, OnwardFields DEF Midway, Arriving
    <2>4. QED
        BY <1>1, <2>1, <2>2, <2>3, OnwardFields, DefaultsGoOn
<1>3. CASE Plugin!Write(q) \/ Plugin!WriteFails(q)
    <2>1. job[q].pc \in {"write", "rewrite"}
        BY <1>3 DEF Plugin!Write, Plugin!WriteFails
    <2>2. CASE job[q].pc = "write" /\ job[q].op # "publish"
        <3>1. PICK phase \in {"settle", "fail"} :
                 Onward(q, phase) /\ (phase = "fail" => faults + 1 <= faults')
            BY <1>1, <1>3, <2>2 DEF Plugin!Write, Plugin!WriteFails, Onward
        <3>2. Midway(job'[q]) => Midway(job[q])
            BY <2>2, <3>1, OnwardFields DEF Midway, Arriving
        <3>3. Midway(job[q]) => Midway(job'[q]) \/ phase = "fail"
            BY <2>2, <3>1, OnwardFields DEF Midway, Arriving
        <3>4. QED
            BY <1>1, <2>1, <3>1, <3>2, <3>3, OnwardFields, DefaultsGoOn
    <2>3. CASE ~(job[q].pc = "write" /\ job[q].op # "publish")
        <3>1. job' = [job EXCEPT ![q] = Plugin!IdleJob]
            BY <1>3, <2>3 DEF Plugin!Write, Plugin!WriteFails
        <3>2. ~Midway(job[q])
            BY <2>1, <2>3 DEF Midway, Arriving
        <3>3. QED
            BY <1>1, <3>1, <3>2, DefaultsRest
    <2>4. QED
        BY <2>2, <2>3
<1>4. CASE Plugin!Fail(q)
    <2>1. Onward(q, "rerender") /\ job[q].pc = "fail"
        BY <1>4 DEF Plugin!Fail, Onward
    <2>2. ~Midway(job[q]) /\ ~Midway(job'[q])
        BY <2>1, OnwardFields DEF Midway, Arriving
    <2>3. QED
        BY <1>1, <2>1, <2>2, OnwardFields, DefaultsGoOn
<1>5. CASE Plugin!Settle(q)
    <2>1. job[q].pc = "settle"
        BY <1>5 DEF Plugin!Settle
    <2>2. CASE q \in Jobs /\ job[q].op = "install"
        <3>1. Onward(q, "offer")
            BY <1>5, <2>2 DEF Plugin!Settle, Onward
        <3>2. Midway(job[q]) /\ Midway(job'[q])
            BY <2>1, <2>2, <3>1, OnwardFields DEF Midway, Arriving
        <3>3. QED
            BY <1>1, <2>1, <3>1, <3>2, OnwardFields, DefaultsGoOn
    <2>3. CASE ~(q \in Jobs /\ job[q].op = "install")
        <3>1. job' = [job EXCEPT ![q] = Plugin!IdleJob]
            BY <1>5, <2>3 DEF Plugin!Settle
        <3>2. q \in Jobs => ~Midway(job[q])
            BY <2>3 DEF Midway, Arriving
        <3>3. QED
            BY <1>1, <3>1, <3>2, DefaultsRest
    <2>4. QED
        BY <2>2, <2>3
<1>6. QED
    BY <1>2, <1>3, <1>4, <1>5

LEMMA BeginKeepsDefaults ==
    ASSUME DefaultsInv, \A i, j \in Jobs : i = j, NEW q \in Plugin!Procs, Plugin!Begin(q)
    PROVE  DefaultsInv'
<1>1. Onward(q, "render") /\ job[q].pc = "begin" /\ UNCHANGED <<offered, faults>>
    BY DEF Plugin!Begin, Onward
<1>2. /\ job' = [o \in Plugin!Procs |-> job'[o]]
      /\ \A o \in Plugin!Procs \ {q} : job'[o] = job[o]
      /\ Fielded(job'[q]) /\ job'[q].pc = "render"
      /\ job'[q].op = job[q].op /\ job'[q].plugin = job[q].plugin
    BY <1>1, OnwardFields
<1>3. CASE q \notin Jobs
    <2>1. UNCHANGED given
        BY <1>3 DEF Plugin!Begin
    <2>2. QED
        BY <1>1, <1>2, <1>3, <2>1, DefaultsStep DEF DefaultsInv
<1>4. CASE q \in Jobs
    <2>1. given' = [given EXCEPT ![job[q].plugin] = @ + 1]
        BY <1>4 DEF Plugin!Begin
    <2>2. job[q].op = "install" /\ job[q].plugin \notin offered
        BY <1>1, <1>4 DEF DefaultsInv, Arriving
    <2>3. Midway(job'[q]) /\ ~Midway(job[q])
        BY <1>1, <1>2, <2>2 DEF Midway, Arriving
    <2>4. \A j \in Jobs : j = q
        BY <1>4
    <2>5. ASSUME NEW p \in Plugins
          PROVE  given'[p] \in Nat /\ given'[p] <= faults + (IF Due(p)' THEN 1 ELSE 0)
        <3>1. given[p] \in Nat /\ faults \in Nat /\ given[p] <= faults + (IF Due(p) THEN 1 ELSE 0)
            BY DEF DefaultsInv
        <3>2. CASE p = job[q].plugin
            <4>1. ~Due(p) /\ Due(p)'
                BY <1>2, <1>4, <2>2, <2>3, <2>4, <3>2 DEF Due
            <4>2. given'[p] = given[p] + 1
                BY <2>1, <3>2 DEF DefaultsInv
            <4>3. QED
                BY <3>1, <4>1, <4>2
        <3>3. CASE p # job[q].plugin
            <4>1. Due(p) => Due(p)'
                BY <1>1, <2>3, <2>4 DEF Due
            <4>2. given'[p] = given[p]
                BY <2>1, <3>3 DEF DefaultsInv
            <4>3. QED
                BY <3>1, <4>1, <4>2
        <3>4. QED
            BY <3>2, <3>3
    <2>6. given' \in [Plugins -> Nat]
        <3>1. DOMAIN given' = Plugins /\ given' = [p \in Plugins |-> given'[p]]
            BY <2>1 DEF DefaultsInv
        <3>2. QED
            BY <2>5, <3>1
    <2>7. \A o \in Plugin!Procs : Fielded(job'[o])
        BY <1>2 DEF DefaultsInv
    <2>8. \A j \in Jobs : /\ job'[j].pc = "begin" => job'[j].op = "install"
                          /\ Arriving(job'[j]) => job'[j].plugin \notin offered
        BY <1>2, <2>2, <2>4
    <2>9. faults' \in Nat
        BY <1>1 DEF DefaultsInv
    <2>10. QED
        BY <1>1, <1>2, <2>5, <2>6, <2>7, <2>8, <2>9 DEF DefaultsInv
<1>5. QED
    BY <1>3, <1>4

\* A process takes something up: by a job, no default but one that was never offered.
LEMMA TakingKeepsDefaults ==
    ASSUME DefaultsInv, \A i, j \in Jobs : i = j, NEW q \in Plugin!Procs,
           NEW d, Fielded(d), job' = [job EXCEPT ![q] = d], job[q].pc = "idle",
           UNCHANGED <<given, offered, faults>>,
           q \in Jobs => \/ d.op \in {"finish", "publish"} /\ d.pc = "render"
                         \/ d.op = "install" /\ d.plugin \notin offered
    PROVE  DefaultsInv'
<1>1. job'[q] = d /\ \A o \in Plugin!Procs \ {q} : job'[o] = job[o]
    BY DEF DefaultsInv
<1>2. job' = [o \in Plugin!Procs |-> job'[o]]
    BY DEF DefaultsInv
<1>3. ~Midway(job[q])
    BY DEF Midway, Arriving
<1>4. q \in Jobs => /\ d.pc = "begin" => d.op = "install"
                    /\ Arriving(d) => d.plugin \notin offered
    BY DEF Arriving
<1>5. faults' \in Nat /\ faults <= faults'
    BY DEF DefaultsInv
<1>6. QED
    BY <1>1, <1>2, <1>3, <1>4, <1>5, DefaultsStep

LEMMA FieldedRecord ==
    ASSUME NEW pc, NEW op, NEW plugin, NEW pk, NEW rev, NEW version, NEW settings, NEW view
    PROVE  Fielded([pc |-> pc, op |-> op, plugin |-> plugin, pk |-> pk, rev |-> rev,
                    version |-> version, settings |-> settings, view |-> view])
<1>1. [pc |-> pc, op |-> op, plugin |-> plugin, pk |-> pk, rev |-> rev,
       version |-> version, settings |-> settings, view |-> view]
      \in Fields({pc, op, plugin, pk, rev, version, settings, view})
    BY DEF Fields
<1>2. QED
    BY <1>1 DEF Fielded

LEMMA RequestKeepsDefaults ==
    ASSUME DefaultsInv, \A i, j \in Jobs : i = j, Requests \cap Jobs = {},
           NEW q \in Requests, NEW op, NEW p, NEW s, NEW rev, Plugin!Request(q, op, p, s, rev)
    PROVE  DefaultsInv'
<1>1. /\ q \in Plugin!Procs /\ q \notin Jobs /\ job[q].pc = "idle"
      /\ UNCHANGED <<given, offered, faults>>
    BY DEF Plugin!Procs, Plugin!Request
<1>2. PICK version, settings : job' = [job EXCEPT ![q] = [Plugin!IdleJob EXCEPT
         !.pc = "begin", !.op = op, !.plugin = p, !.rev = rev, !.version = version,
         !.settings = settings]]
    BY DEF Plugin!Request
<1>3. PICK d : d = [Plugin!IdleJob EXCEPT !.pc = "begin", !.op = op, !.plugin = p, !.rev = rev,
                                          !.version = version, !.settings = settings]
    OBVIOUS
<1>4. d = [pc |-> "begin", op |-> op, plugin |-> p, pk |-> 0, rev |-> rev,
           version |-> version, settings |-> settings, view |-> {}]
    BY <1>3 DEF Plugin!IdleJob
<1>5. Fielded(d)
    BY <1>4, FieldedRecord
<1>6. job' = [job EXCEPT ![q] = d]
    BY <1>2, <1>3
<1>7. QED
    BY <1>1, <1>5, <1>6, TakingKeepsDefaults

LEMMA ReconcileKeepsDefaults ==
    ASSUME DefaultsInv, \A i, j \in Jobs : i = j, NEW q \in Plugin!Procs, NEW p,
           \/ Plugin!Finish(q, p)
           \/ Plugin!Publish(q)
           \/ q \in Jobs /\ (Plugin!Default(q, p) \/ Plugin!Offer(q))
    PROVE  DefaultsInv'
<1>1. UNCHANGED <<given, faults>> /\ faults \in Nat
    BY DEF Plugin!Finish, Plugin!Publish, Plugin!Default, Plugin!Offer, DefaultsInv
<1>2. CASE Plugin!Finish(q, p)
    <2>1. PICK d : d = [Plugin!IdleJob EXCEPT !.pc = "render", !.op = "finish",
                                              !.plugin = p, !.pk = row[p].pk]
        OBVIOUS
    <2>2. d = [pc |-> "render", op |-> "finish", plugin |-> p, pk |-> row[p].pk, rev |-> None,
               version |-> 0, settings |-> {}, view |-> {}]
        BY <2>1 DEF Plugin!IdleJob
    <2>3. Fielded(d) /\ d.op = "finish" /\ d.pc = "render"
        BY <2>2, FieldedRecord
    <2>4. job' = [job EXCEPT ![q] = d] /\ job[q].pc = "idle" /\ UNCHANGED offered
        BY <1>2, <2>1 DEF Plugin!Finish
    <2>5. QED
        BY <1>1, <2>3, <2>4, TakingKeepsDefaults
<1>3. CASE Plugin!Publish(q)
    <2>1. PICK d : d = [Plugin!IdleJob EXCEPT !.pc = "render", !.op = "publish"]
        OBVIOUS
    <2>2. d = [pc |-> "render", op |-> "publish", plugin |-> None, pk |-> 0, rev |-> None,
               version |-> 0, settings |-> {}, view |-> {}]
        BY <2>1 DEF Plugin!IdleJob
    <2>3. Fielded(d) /\ d.op = "publish" /\ d.pc = "render"
        BY <2>2, FieldedRecord
    <2>4. job' = [job EXCEPT ![q] = d] /\ job[q].pc = "idle" /\ UNCHANGED offered
        BY <1>3, <2>1 DEF Plugin!Publish
    <2>5. QED
        BY <1>1, <2>3, <2>4, TakingKeepsDefaults
<1>4. CASE q \in Jobs /\ Plugin!Default(q, p) /\ row[p].state = "absent"
    <2>1. PICK d : d = [Plugin!IdleJob EXCEPT !.pc = "begin", !.op = "install", !.plugin = p,
                                              !.rev = None, !.version = 1]
        OBVIOUS
    <2>2. d = [pc |-> "begin", op |-> "install", plugin |-> p, pk |-> 0, rev |-> None,
               version |-> 1, settings |-> {}, view |-> {}]
        BY <2>1 DEF Plugin!IdleJob
    <2>3. Fielded(d) /\ d.op = "install" /\ d.plugin = p
        BY <2>2, FieldedRecord
    <2>4. /\ job' = [job EXCEPT ![q] = d] /\ job[q].pc = "idle" /\ UNCHANGED offered
          /\ p \notin offered
        BY <1>4, <2>1 DEF Plugin!Default
    <2>5. QED
        BY <1>1, <2>3, <2>4, TakingKeepsDefaults
<1>5. CASE q \in Jobs /\ Plugin!Default(q, p) /\ row[p].state # "absent"
    <2>1. UNCHANGED job /\ offered \subseteq offered' /\ job[q].pc = "idle"
        BY <1>5 DEF Plugin!Default
    <2>2. Fielded(job'[q]) /\ job' = [o \in Plugin!Procs |-> job'[o]]
        BY <2>1 DEF DefaultsInv
    <2>3. ~Midway(job[q]) /\ ~Arriving(job'[q]) /\ job'[q].pc # "begin"
        BY <2>1 DEF Midway, Arriving
    <2>4. \A o \in Plugin!Procs \ {q} : job'[o] = job[o]
        BY <2>1
    <2>5. faults' \in Nat /\ faults <= faults'
        BY <1>1
    <2>6. QED
        BY <1>1, <1>5, <2>1, <2>2, <2>3, <2>4, <2>5, DefaultsStep
<1>6. CASE q \in Jobs /\ Plugin!Offer(q)
    <2>1. /\ job' = [job EXCEPT ![q] = Plugin!IdleJob] /\ offered \subseteq offered'
          /\ job[q].plugin \in offered'
        BY <1>6 DEF Plugin!Offer, Plugin!Offered
    <2>2. faults' \in Nat /\ faults <= faults'
        BY <1>1
    <2>3. QED
        BY <1>1, <1>6, <2>1, <2>2, DefaultsRest
<1>7. QED
    BY <1>2, <1>3, <1>4, <1>5, <1>6

\* A default plugin that a person removed comes back only when the process died, or could
\* not write, between installing it and recording that it was offered: with one run of
\* reconcile at a time, whatever requests do meanwhile.
THEOREM RemovedForGoodAlways ==
    ASSUME \A i, j \in Jobs : i = j, Requests \cap Jobs = {}
    PROVE  Plugin!Spec => []RemovedForGood
<1>1. DefaultsInv /\ [Plugin!Next]_(Plugin!vars) => DefaultsInv'
    <2>1. SUFFICES ASSUME DefaultsInv, [Plugin!Next]_(Plugin!vars) PROVE DefaultsInv'
        OBVIOUS
    <2>2. CASE UNCHANGED <<job, given, offered, faults>>
        BY <2>1, <2>2 DEF DefaultsInv, Due
    <2>3. CASE Plugin!Next
        <3>1. CASE \E q \in Requests, op \in Plugin!Operations, p \in Plugins, s \in SUBSET Settings :
                      Plugin!Request(q, op, p, s, None) \/ Plugin!Request(q, op, p, s, row[p].rev)
            BY <2>1, <3>1, RequestKeepsDefaults
        <3>2. ASSUME NEW q \in Plugin!Procs,
                     Plugin!Refused(q) \/ Plugin!Begin(q) \/ Plugin!Effects(q)
                     \/ Plugin!WriteFails(q) \/ Plugin!Die(q)
              PROVE  DefaultsInv'
            <4>1. CASE Plugin!Refused(q)
                <5>1. /\ job' = [job EXCEPT ![q] = Plugin!IdleJob] /\ job[q].pc = "begin"
                      /\ UNCHANGED <<given, offered, faults>> /\ faults \in Nat
                    BY <2>1, <4>1 DEF Plugin!Refused, DefaultsInv
                <5>2. ~Midway(job[q])
                    BY <5>1 DEF Midway
                <5>3. faults' \in Nat /\ faults <= faults'
                    BY <5>1
                <5>4. QED
                    BY <2>1, <5>1, <5>2, <5>3, DefaultsRest
            <4>2. CASE Plugin!Die(q)
                <5>1. /\ job' = [job EXCEPT ![q] = Plugin!IdleJob]
                      /\ UNCHANGED <<given, offered>> /\ faults' = faults + 1 /\ faults \in Nat
                    BY <2>1, <4>2 DEF Plugin!Die, DefaultsInv
                <5>2. faults' \in Nat /\ faults <= faults' /\ faults + 1 <= faults'
                    BY <5>1
                <5>3. QED
                    BY <2>1, <5>1, <5>2, DefaultsRest
            <4>3. CASE Plugin!Begin(q)
                BY <2>1, <4>3, BeginKeepsDefaults
            <4>4. CASE Plugin!Effects(q) \/ Plugin!WriteFails(q)
                BY <2>1, <4>4, EffectsKeepDefaults DEF Plugin!Effects
            <4>5. QED
                BY <3>2, <4>1, <4>2, <4>3, <4>4
        <3>3. CASE \E q \in Plugin!Procs, p \in Plugins : Plugin!Finish(q, p)
            BY <2>1, <3>3, ReconcileKeepsDefaults
        <3>4. CASE \E p \in Plugins : Plugin!Age(p)
            BY <2>2, <3>4 DEF Plugin!Age
        <3>5. ASSUME NEW j \in Jobs,
                     \/ Plugin!Publish(j) \/ Plugin!Offer(j)
                     \/ \E p \in Plugins : Plugin!Default(j, p)
              PROVE  DefaultsInv'
            BY <2>1, <3>5, ReconcileKeepsDefaults DEF Plugin!Procs
        <3>6. QED
            BY <2>3, <3>1, <3>2, <3>3, <3>4, <3>5 DEF Plugin!Next
    <2>4. QED
        BY <2>1, <2>2, <2>3 DEF Plugin!vars
<1>2. DefaultsInv => RemovedForGood
    <2>1. SUFFICES ASSUME DefaultsInv, NEW p \in Plugins PROVE given[p] <= 1 + faults
        BY DEF RemovedForGood, Plugin!RemovedForGood
    <2>2. given[p] \in Nat /\ faults \in Nat /\ given[p] <= faults + (IF Due(p) THEN 1 ELSE 0)
        BY <2>1 DEF DefaultsInv
    <2>3. QED
        BY <2>2
<1>3. QED
    BY DefaultsStart, <1>1, <1>2, PTL DEF Plugin!Spec
=============================================================================
