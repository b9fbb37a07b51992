--------------------------- MODULE PluginLifecycle ---------------------------
(***************************************************************************)
(* The installations of plugins                                            *)
(* (backend/apps/core/plugins/services/lifecycle.py): an operation moves a *)
(* row to a transient state in a transaction, publishes the files of the   *)
(* containers from all rows, and settles the row in a second transaction.  *)
(* A request that dies in between leaves a row that anybody finishes once  *)
(* it is stale; a job finishes stale rows, publishes again and installs    *)
(* the default plugins once.                                               *)
(*                                                                         *)
(* The published files are one value: the enabled plugins with the version *)
(* and the settings they are rendered from.                                *)
(***************************************************************************)
EXTENDS Naturals, FiniteSets

CONSTANTS
    Plugins,
    Settings,    \* settings a person may change
    Claims,      \* Claims[p][v]: what version v of plugin p wants to set
    Defaults,    \* plugins marked install_by_default
    Requests,    \* web requests
    Jobs,        \* runs of plugins.reconcile
    MaxOps,      \* bound of the model: operations begun
    MaxFaults,   \* bound of the model: processes that die and files that cannot be written
    None

Procs == Requests \cup Jobs

VARIABLES
    row,       \* p -> its installation; state "absent" without one
    file,      \* what the containers read
    offered,   \* PLUGIN_DEFAULTS_OFFERED
    job,       \* a -> what a process is doing
    given,     \* history: p -> times it was installed as a default
    twice,     \* history: installations whose operation two processes were at
    ops,       \* history: operations begun; also the source of primary keys
    faults     \* history: deaths and failed writes

vars == <<row, file, offered, job, given, twice, ops, faults>>

Operations == {"install", "enable", "disable", "configure", "update", "retry", "uninstall"}
Transient == {"installing", "applying", "uninstalling"}

NoRow == [state |-> "absent", target |-> "", rev |-> 0, pk |-> 0, version |-> 0,
          settings |-> {}, stale |-> FALSE]

IdleJob == [pc |-> "idle", op |-> "none", plugin |-> None, pk |-> 0, rev |-> None,
            version |-> 0, settings |-> {}, view |-> {}]

Init ==
    /\ row = [p \in Plugins |-> NoRow]
    /\ file = {}
    /\ offered = {}
    /\ job = [a \in Procs |-> IdleJob]
    /\ given = [p \in Plugins |-> 0]
    /\ twice = {}
    /\ ops = 0
    /\ faults = 0

-----------------------------------------------------------------------------
(* The table of transitions.                                               *)

Sources(op) ==
    CASE op = "install"   -> {"absent"}
      [] op = "enable"    -> {"disabled"}
      [] op = "disable"   -> {"enabled"}
      [] op = "retry"     -> {"failed"}
      [] op = "uninstall" -> {"enabled", "disabled", "failed"}
      [] OTHER            -> {"enabled", "disabled"}

\* A retry heads for the target of the operation that failed.
Target(op, r) ==
    CASE op \in {"install", "enable"} -> "enabled"
      [] op = "disable"   -> "disabled"
      [] op = "uninstall" -> "absent"
      [] op = "retry"     -> IF r.target = "" THEN "enabled" ELSE r.target
      [] OTHER            -> r.state

Passing(op, target) ==
    CASE op = "install" -> "installing"
      [] target = "absent" -> "uninstalling"
      [] OTHER -> "applying"

\* _effective_state(): a row in a transient state counts as its target.
Effective(r) ==
    IF r.state \notin Transient THEN r.state ELSE IF r.target = "" THEN "absent" ELSE r.target

Enabled(p) == Effective(row[p]) = "enabled"

\* _check_conflicts()
Clashes(p, version) ==
    \E q \in Plugins \ {p} : Enabled(q) /\ Claims[p][version] \cap Claims[q][row[q].version] # {}

\* What publish_all() renders: every enabled row.
Rendered == {<<p, row[p].version, row[p].settings>> : p \in {q \in Plugins : Enabled(q)}}

-----------------------------------------------------------------------------
(* The first phase.                                                        *)

\* A request reads the row and works out the new version and settings from it,
\* before it takes any lock; a page offers what the state allows.  A form carries
\* the revision it was shown; the assistant, which installs and configures, does
\* not.
Request(a, op, p, s, rev) ==
    LET r == row[p]
    IN  /\ job[a].pc = "idle"
        /\ ops < MaxOps
        /\ r.state \in Sources(op)
        /\ op = "update" => r.version = 1
        /\ op = "configure" => s # {} /\ ~(s \subseteq r.settings)
        /\ op # "configure" => s = {}
        /\ rev \in {None, r.rev} /\ (op \notin {"install", "configure"} => rev = r.rev)
        /\ op = "install" => rev = None
        /\ job' = [job EXCEPT ![a] = [IdleJob EXCEPT
               !.pc = "begin", !.op = op, !.plugin = p, !.rev = rev,
               !.version = IF op = "install" THEN 1 ELSE IF op = "update" THEN 2 ELSE r.version,
               !.settings = r.settings \cup s]]
        /\ UNCHANGED <<row, file, offered, given, twice, ops, faults>>

\* Mutant of Current: nobody compares the revision.
CurrentMutant(a) == TRUE

Current(a) == job[a].rev \in {None, row[job[a].plugin].rev}

\* Mutant of Conflicted: a retry and an update do not look for conflicts.
ConflictedMutant(a) == job[a].op \in {"install", "enable"} /\ Clashes(job[a].plugin, job[a].version)

\* An operation that ends enabled looks for conflicts, with the version it read.
Conflicted(a) ==
    LET r == row[job[a].plugin]
    IN  /\ \/ job[a].op \in {"install", "enable"}
           \/ job[a].op = "update" /\ r.state = "enabled"
           \/ job[a].op = "retry" /\ r.target = "enabled"
        /\ Clashes(job[a].plugin, job[a].version)

Allowed(a) ==
    /\ ops < MaxOps
    /\ row[job[a].plugin].state \in Sources(job[a].op)
    /\ Current(a)
    /\ ~Conflicted(a)

\* Busy, not allowed from this state, a stale revision, or a conflict.
Refused(a) ==
    /\ job[a].pc = "begin"
    /\ ~Allowed(a)
    /\ job' = [job EXCEPT ![a] = IdleJob]
    /\ UNCHANGED <<row, file, offered, given, twice, ops, faults>>

\* The transaction under the global lock.
Begin(a) ==
    LET p == job[a].plugin
        op == job[a].op
        target == Target(op, row[p])
        pk == IF op = "install" THEN ops + 1 ELSE row[p].pk
        takes == op \in {"install", "configure", "update"}
    IN  /\ job[a].pc = "begin"
        /\ Allowed(a)
        /\ row' = [row EXCEPT ![p] =
               [state |-> Passing(op, target), target |-> target, pk |-> pk, rev |-> @.rev + 1,
                version |-> IF op \in {"install", "update"} THEN job[a].version ELSE @.version,
                settings |-> IF takes THEN job[a].settings ELSE @.settings, stale |-> FALSE]]
        /\ ops' = ops + 1
        /\ given' = IF a \in Jobs THEN [given EXCEPT ![p] = @ + 1] ELSE given
        /\ job' = [job EXCEPT ![a].pc = "render", ![a].pk = pk]
        /\ UNCHANGED <<file, offered, twice, faults>>

-----------------------------------------------------------------------------
(* The second phase and the third.                                         *)

\* publish_all() reads the rows, and later replaces the files.
Render(a) ==
    /\ job[a].pc \in {"render", "rerender"}
    /\ job' = [job EXCEPT ![a].pc = IF @ = "render" THEN "write" ELSE "rewrite",
                          ![a].view = Rendered]
    /\ UNCHANGED <<row, file, offered, given, twice, ops, faults>>

Write(a) ==
    /\ job[a].pc \in {"write", "rewrite"}
    /\ file' = job[a].view
    /\ job' = IF job[a].pc = "write" /\ job[a].op # "publish"
              THEN [job EXCEPT ![a].pc = "settle", ![a].view = {}]
              ELSE [job EXCEPT ![a] = IdleJob]
    /\ UNCHANGED <<row, offered, given, twice, ops, faults>>

\* A file cannot be written.
WriteFails(a) ==
    /\ job[a].pc \in {"write", "rewrite"}
    /\ faults < MaxFaults
    /\ faults' = faults + 1
    /\ job' = IF job[a].pc = "write" /\ job[a].op # "publish"
              THEN [job EXCEPT ![a].pc = "fail", ![a].view = {}]
              ELSE [job EXCEPT ![a] = IdleJob]
    /\ UNCHANGED <<row, file, offered, given, twice, ops>>

\* The row is marked failed, whatever its state is by now; the files are put back.
Fail(a) ==
    LET p == job[a].plugin
    IN  /\ job[a].pc = "fail"
        /\ row' = IF row[p].pk = job[a].pk THEN [row EXCEPT ![p].state = "failed"] ELSE row
        /\ job' = [job EXCEPT ![a].pc = "rerender"]
        /\ UNCHANGED <<file, offered, given, twice, ops, faults>>

\* Mutant of SettledTo: a row keeps its target, as if the operation were to go on.
SettledToMutant(r) == IF r.target = "absent" THEN NoRow ELSE [r EXCEPT !.target = ""]

\* _settle(): the row takes its target, or goes; without a target it is enabled.
SettledTo(r) ==
    IF r.target = "absent" THEN NoRow
    ELSE [r EXCEPT !.state = IF r.target = "" THEN "enabled" ELSE r.target,
                   !.target = "", !.stale = FALSE]

\* A row that is gone is left alone.
Settle(a) ==
    LET p == job[a].plugin
    IN  /\ job[a].pc = "settle"
        /\ row' = IF row[p].pk = job[a].pk THEN [row EXCEPT ![p] = SettledTo(@)] ELSE row
        /\ job' = IF a \in Jobs /\ job[a].op = "install" THEN [job EXCEPT ![a].pc = "offer"]
                  ELSE [job EXCEPT ![a] = IdleJob]
        /\ UNCHANGED <<file, offered, given, twice, ops, faults>>

-----------------------------------------------------------------------------
(* Recovery, and the job.                                                  *)

\* A process dies: gunicorn's timeout, a restart.
Die(a) ==
    /\ job[a].pc # "idle"
    /\ faults < MaxFaults
    /\ faults' = faults + 1
    /\ job' = [job EXCEPT ![a] = IdleJob]
    /\ UNCHANGED <<row, file, offered, given, twice, ops>>

\* Mutant of Owned: a request's operation is taken for dead while it still runs.
OwnedMutant(p) == FALSE

\* A request that was at the operation when the row was last saved has not been killed.
Owned(p) == \E r \in Requests : job[r].plugin = p /\ job[r].pk = row[p].pk

\* STALE_SECONDS pass, the time after which gunicorn kills a request.  A job has no
\* limit, and may still be at it.
Age(p) ==
    /\ row[p].state \in Transient /\ ~row[p].stale
    /\ ~Owned(p)
    /\ row' = [row EXCEPT ![p].stale = TRUE]
    /\ UNCHANGED <<file, offered, job, given, twice, ops, faults>>

\* A job that is slow, or one that finishes the operation, has not settled the row yet.
Shared(p) ==
    \E a \in Procs : /\ a \in Jobs \/ job[a].op = "finish"
                    /\ job[a].plugin = p /\ job[a].pk = row[p].pk
                    /\ job[a].pc \in {"render", "write", "settle", "fail"}

\* _finish_stale(): a page, an operation or the job repeats the second phase and the
\* third, each by itself and under no lock.  The row stays stale until it is settled.
\* (A job that reads several stale rows at once is several processes here.)
Finish(a, p) ==
    /\ job[a].pc = "idle"
    /\ row[p].state \in Transient /\ row[p].stale
    /\ job' = [job EXCEPT ![a] = [IdleJob EXCEPT !.pc = "render", !.op = "finish",
                                                !.plugin = p, !.pk = row[p].pk]]
    /\ twice' = IF Shared(p) THEN twice \cup {row[p].pk} ELSE twice
    /\ UNCHANGED <<row, file, offered, given, ops, faults>>

\* reconcile() publishes.
Publish(j) ==
    /\ job[j].pc = "idle"
    /\ file # Rendered
    /\ job' = [job EXCEPT ![j] = [IdleJob EXCEPT !.pc = "render", !.op = "publish"]]
    /\ UNCHANGED <<row, file, offered, given, twice, ops, faults>>

\* install_defaults(): install a plugin that was never offered, or record it when
\* it is already there.
Default(j, p) ==
    /\ job[j].pc = "idle"
    /\ p \in Defaults \ offered
    /\ IF row[p].state = "absent"
       THEN /\ ops < MaxOps
            /\ job' = [job EXCEPT ![j] = [IdleJob EXCEPT !.pc = "begin", !.op = "install",
                                              !.plugin = p, !.rev = None, !.version = 1]]
            /\ UNCHANGED offered
       ELSE offered' = offered \cup {p} /\ UNCHANGED job
    /\ UNCHANGED <<row, file, given, twice, ops, faults>>

\* Mutant of Offered: an install that succeeded is not recorded.
OfferedMutant(j) == offered

Offered(j) == offered \cup {job[j].plugin}

Offer(j) ==
    /\ job[j].pc = "offer"
    /\ offered' = Offered(j)
    /\ job' = [job EXCEPT ![j] = IdleJob]
    /\ UNCHANGED <<row, file, given, twice, ops, faults>>

-----------------------------------------------------------------------------
Effects(a) == Render(a) \/ Write(a) \/ Fail(a) \/ Settle(a)

Next ==
    \/ \E a \in Requests, op \in Operations, p \in Plugins, s \in SUBSET Settings :
          Request(a, op, p, s, None) \/ Request(a, op, p, s, row[p].rev)
    \/ \E a \in Procs : Refused(a) \/ Begin(a) \/ Effects(a) \/ WriteFails(a) \/ Die(a)
    \/ \E a \in Procs, p \in Plugins : Finish(a, p)
    \/ \E p \in Plugins : Age(p)
    \/ \E j \in Jobs : Publish(j) \/ Offer(j)
    \/ \E j \in Jobs, p \in Plugins : Default(j, p)

Spec == Init /\ [][Next]_vars

-----------------------------------------------------------------------------
(* What must hold.                                                         *)

States == Transient \cup {"absent", "enabled", "disabled", "failed"}
Targets == {"", "absent", "enabled", "disabled"}

\* Every variable keeps its type; a row and its key come and go together.
TypeOK ==
    /\ row \in [Plugins -> [state : States, target : Targets, rev : Nat, pk : 0 .. ops,
                            version : 0 .. 2, settings : SUBSET Settings, stale : BOOLEAN]]
    /\ \A p \in Plugins : row[p].state = "absent" <=> row[p] = NoRow
    /\ \A p \in Plugins : row[p].state \in Transient => row[p].target # ""
    /\ offered \subseteq Defaults
    /\ \A a \in Procs : job[a].pc \in {"idle", "begin", "render", "write", "settle", "fail",
                                       "rerender", "rewrite", "offer"}
    /\ ops \in 0 .. MaxOps /\ faults \in 0 .. MaxFaults

\* Two plugins that want to set the same thing are never enabled together, however
\* updates, retries and the finishing of stale operations overlap, unless two processes
\* have been at one operation of one of them.
NoClash ==
    \A p, q \in Plugins :
        p # q /\ Enabled(p) /\ Enabled(q)
        => \/ Claims[p][row[p].version] \cap Claims[q][row[q].version] = {}
           \/ {row[p].pk, row[q].pk} \cap twice # {}

\* A plugin that is installed and at rest changes only through a new operation: no
\* request that began an operation, and nobody alone in finishing one, comes late to
\* another.  Where two have been at the same operation the last of them may, and then
\* the plugin is enabled or failed: it is not removed, and keeps its version, revision
\* and settings.
AtRest == {"enabled", "disabled"}
Rests(p) ==
    row[p].state \in AtRest
    => \/ row'[p] = row[p]
       \/ row'[p].state \in Transient
       \/ /\ row[p].pk \in twice
          /\ \E state \in {"enabled", "failed"} : row'[p] = [row[p] EXCEPT !.state = state]
StaysSettled == [][\A p \in Plugins : Rests(p)]_vars

\* A request that carries no revision begins its operation on p.
Unseen(p) ==
    \E a \in Procs : /\ job[a].plugin = p /\ job[a].rev = None
                     /\ job[a].pc = "begin" /\ job'[a].pc = "render"

\* A setting somebody else saved is never undone by a form that was filled in
\* before it.
NoLostSetting ==
    [][\A p \in Plugins :
          row'[p].pk = row[p].pk /\ ~(row[p].settings \subseteq row'[p].settings)
          => Unseen(p)]_vars

\* A default plugin that a person removed comes back only when the process died,
\* or could not write, between installing it and recording that it was offered.
RemovedForGood == \A p \in Plugins : given[p] <= 1 + faults

\* Every process goes on, and reconcile() runs again and again.
Fairness ==
    /\ \A a \in Procs : WF_vars(Refused(a) \/ Begin(a) \/ Effects(a))
    /\ \A p \in Plugins : WF_vars(Age(p))
    /\ \A j \in Jobs : /\ WF_vars(Offer(j))
                       /\ SF_vars(\E p \in Plugins : Finish(j, p))
                       /\ SF_vars(Publish(j))

FairSpec == Spec /\ Fairness

\* When the operations end, whatever died on the way, every row is at rest or
\* failed and the files are what the rows say.
Converges ==
    <>[](file = Rendered /\ \A p \in Plugins : row[p].state \notin Transient)
=============================================================================
