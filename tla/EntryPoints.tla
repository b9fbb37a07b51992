----------------------------- MODULE EntryPoints -----------------------------
(***************************************************************************)
(* The rules of the firewall                                               *)
(* (backend/apps/core/platform/services/entrypoints.py, the beat's         *)
(* core.reconcile_entrypoints, and the agent of                            *)
(* provisioning/docker/firewall/entrypoint.sh): settings in three rows,    *)
(* one file rendered from them by whoever changed one, and an agent that   *)
(* loads the file into the kernel when its digest is a new one.            *)
(*                                                                         *)
(* Rules are a record of what they were rendered from: whether an entry    *)
(* point is closed, the networks blocked, flood mode.  Nobody holds a lock *)
(* from reading the settings to writing the file.                          *)
(***************************************************************************)
EXTENDS Naturals

CONSTANTS
    Nets,       \* source networks
    People,     \* processes that change a setting: the console, automatic protection
    Beat,       \* the process that runs the reconcile job
    MaxOps,     \* bound of the model: changes of the settings
    MaxFaults,  \* bound of the model: processes that die, settings that cannot be read,
                \* rules nftables refuses, restarts of the agent
    Nothing     \* no file, no table in the kernel

VARIABLES
    blocks,   \* n -> "none", "standing", "timed", or "expired" and still listed
    flood,    \* the flood row: "none", "on", or "lapsed" and still there
    closed,   \* whether the entry point is switched off
    file,     \* firewall.nft
    job,      \* p -> what a process renders
    kernel,   \* the table in the kernel
    agent,    \* what the agent does, and the digest and outcome it keeps
    swapped,  \* history: the agent's last digest was not of the file it loaded
    ops, faults

evars == <<blocks, flood, closed, file, job, kernel, agent, swapped, ops, faults>>

settings == <<blocks, flood, closed>>
enforced == <<kernel, agent, swapped>>

Procs == People \cup {Beat}

Open == [closed |-> FALSE, nets |-> {}, flood |-> FALSE]

Idle == [pc |-> "idle", then |-> "idle", rules |-> Open, off |-> FALSE]

Init ==
    /\ blocks = [n \in Nets |-> "none"]
    /\ flood = "none" /\ closed = FALSE
    /\ file = Nothing
    /\ job = [p \in Procs |-> Idle]
    /\ kernel = Nothing
    /\ agent = [pc |-> "idle", seen |-> Nothing, applied |-> Nothing, ok |-> FALSE]
    /\ swapped = FALSE
    /\ ops = 0 /\ faults = 0

\* active_blocklist(): expired rows are left out, whether or not they are still listed.
Blocked == {n \in Nets : blocks[n] \in {"standing", "timed"}}

\* What the settings ask for.
Wanted == [closed |-> closed, nets |-> Blocked, flood |-> flood = "on"]

Goto(p, pc) == job' = [job EXCEPT ![p].pc = pc]

\* apply(): render and write, and then go on with what comes after it.
Apply(p, then) == job' = [job EXCEPT ![p] = [Idle EXCEPT !.pc = "ports", !.then = then]]

-----------------------------------------------------------------------------
(* What people and automatic protection change; each change is published   *)
(* by whoever made it.                                                     *)

Change(p) == job[p].pc = "idle" /\ p # Beat /\ ops < MaxOps /\ ops' = ops + 1

\* set_enabled(); set_rate_per_minute() does the same to a row of its own.
SetEnabled(p) ==
    /\ Change(p)
    /\ closed' = ~closed
    /\ Apply(p, "idle")
    /\ UNCHANGED <<blocks, flood, file, enforced, faults>>

\* block(): a network that is listed is refused, be it that its time is up.
Block(p, n, how) ==
    /\ Change(p)
    /\ blocks[n] = "none"
    /\ blocks' = [blocks EXCEPT ![n] = how]
    /\ Apply(p, "idle")
    /\ UNCHANGED <<flood, closed, file, enforced, faults>>

Unblock(p, n) ==
    /\ Change(p)
    /\ blocks[n] # "none"
    /\ blocks' = [blocks EXCEPT ![n] = "none"]
    /\ Apply(p, "idle")
    /\ UNCHANGED <<flood, closed, file, enforced, faults>>

\* start_flood(): whether it was off is read before the row is set.
StartFlood(p) ==
    /\ Change(p)
    /\ job' = [job EXCEPT ![p].pc = "set", ![p].off = flood # "on"]
    /\ UNCHANGED <<settings, file, enforced, faults>>

SetFlood(p) ==
    /\ job[p].pc = "set"
    /\ flood' = "on"
    /\ IF job[p].off THEN Apply(p, "idle") ELSE job' = [job EXCEPT ![p] = Idle]
    /\ UNCHANGED <<blocks, closed, file, enforced, ops, faults>>

\* end_flood()
EndFlood(p) ==
    /\ Change(p)
    /\ flood # "none"
    /\ job' = [job EXCEPT ![p].pc = "clear"]
    /\ UNCHANGED <<settings, file, enforced, faults>>

ClearFlood(p) ==
    /\ job[p].pc = "clear"
    /\ flood' = "none"
    /\ Apply(p, job[p].then)
    /\ UNCHANGED <<blocks, closed, file, enforced, ops, faults>>

\* The time of a block or of flood mode is up.
Lapse ==
    /\ \/ /\ \E n \in Nets : blocks[n] = "timed" /\ blocks' = [blocks EXCEPT ![n] = "expired"]
          /\ UNCHANGED flood
       \/ flood = "on" /\ flood' = "lapsed" /\ UNCHANGED blocks
    /\ UNCHANGED <<closed, file, job, enforced, ops, faults>>

-----------------------------------------------------------------------------
(* render() and the write.                                                 *)

\* A setting is read, or the database cannot be and the default stands for it.
Reads(p, pc, real, default) ==
    \/ /\ job' = [job EXCEPT ![p].pc = pc, ![p].rules = real]
       /\ UNCHANGED faults
    \/ /\ faults < MaxFaults /\ faults' = faults + 1
       /\ job' = [job EXCEPT ![p].pc = pc, ![p].rules = default]

Render(p) ==
    LET rules == job[p].rules
    IN  /\ \/ job[p].pc = "ports" /\ Reads(p, "nets", [rules EXCEPT !.closed = closed], rules)
           \/ job[p].pc = "nets" /\ Reads(p, "flood", [rules EXCEPT !.nets = Blocked], rules)
           \/ job[p].pc = "flood" /\ Reads(p, IF job[p].then = "compare" THEN "compare" ELSE "write",
                                           [rules EXCEPT !.flood = flood = "on"], rules)
        /\ UNCHANGED <<settings, file, enforced, ops>>

Write(p) ==
    /\ job[p].pc = "write"
    /\ file' = job[p].rules
    /\ job' = [job EXCEPT ![p] = [Idle EXCEPT !.pc = job[p].then]]
    /\ UNCHANGED <<settings, enforced, ops, faults>>

-----------------------------------------------------------------------------
(* reconcile_entrypoints, every five minutes.                              *)

\* expire()
Expire ==
    LET gone == {n \in Nets : blocks[n] = "expired"}
    IN  /\ job[Beat].pc = "idle"
        /\ blocks' = [n \in Nets |-> IF n \in gone THEN "none" ELSE blocks[n]]
        /\ IF gone # {} THEN Apply(Beat, "lapse") ELSE Goto(Beat, "lapse")
        /\ UNCHANGED <<flood, closed, file, enforced, ops, faults>>

\* expire_flood(): looked up here, deleted in ClearFlood.
ExpireFlood ==
    /\ job[Beat].pc = "lapse"
    /\ IF flood = "lapsed"
       THEN job' = [job EXCEPT ![Beat].pc = "clear", ![Beat].then = "reconcile"]
       ELSE Goto(Beat, "reconcile")
    /\ UNCHANGED <<settings, file, enforced, ops, faults>>

Reconcile ==
    /\ job[Beat].pc = "reconcile"
    /\ Apply(Beat, "compare")
    /\ UNCHANGED <<settings, file, enforced, ops, faults>>

\* Mutant of Drifted: only a missing file is written.
MissingMutant(rules) == file = Nothing

Drifted(rules) == file # rules

Compare ==
    /\ job[Beat].pc = "compare"
    /\ job' = IF Drifted(job[Beat].rules)
              THEN [job EXCEPT ![Beat].pc = "write", ![Beat].then = "idle"]
              ELSE [job EXCEPT ![Beat] = Idle]
    /\ UNCHANGED <<settings, file, enforced, ops, faults>>

-----------------------------------------------------------------------------
(* The agent.                                                              *)

\* The digest of the file is not the one applied last: look again, and load.
Look ==
    /\ agent.pc = "idle"
    /\ file # Nothing /\ file # agent.applied
    /\ agent' = [agent EXCEPT !.pc = "digest"]
    /\ UNCHANGED <<settings, file, job, kernel, swapped, ops, faults>>

Digest ==
    /\ agent.pc = "digest"
    /\ agent' = [agent EXCEPT !.pc = "load", !.seen = file]
    /\ UNCHANGED <<settings, file, job, kernel, swapped, ops, faults>>

\* nft reads the file as it is by now, and takes it or refuses it.
Load ==
    /\ agent.pc = "load"
    /\ swapped' = (file # agent.seen)
    /\ \/ /\ kernel' = file
          /\ agent' = [pc |-> "idle", seen |-> Nothing, applied |-> agent.seen, ok |-> TRUE]
          /\ UNCHANGED faults
       \/ /\ faults < MaxFaults /\ faults' = faults + 1
          /\ agent' = [pc |-> "idle", seen |-> Nothing, applied |-> agent.seen, ok |-> FALSE]
          /\ UNCHANGED kernel
    /\ UNCHANGED <<settings, file, job, ops>>

\* Stopping the agent removes the table; killing it does not.
RestartAgent ==
    /\ faults < MaxFaults /\ faults' = faults + 1
    /\ kernel' \in {kernel, Nothing}
    /\ agent' = [pc |-> "idle", seen |-> Nothing, applied |-> Nothing, ok |-> FALSE]
    /\ UNCHANGED <<settings, file, job, swapped, ops>>

Kill(p) ==
    /\ job[p].pc # "idle"
    /\ faults < MaxFaults /\ faults' = faults + 1
    /\ job' = [job EXCEPT ![p] = Idle]
    /\ UNCHANGED <<settings, file, enforced, ops>>

-----------------------------------------------------------------------------
Changes(p) ==
    \/ SetEnabled(p) \/ StartFlood(p) \/ EndFlood(p)
    \/ \E n \in Nets : Unblock(p, n) \/ \E how \in {"standing", "timed"} : Block(p, n, how)

Publishing(p) == SetFlood(p) \/ ClearFlood(p) \/ Render(p) \/ Write(p)

Job == Expire \/ ExpireFlood \/ Reconcile \/ Compare \/ Publishing(Beat)

Agent == Look \/ Digest \/ Load

Next ==
    \/ \E p \in People : Changes(p) \/ Publishing(p)
    \/ Job \/ Agent \/ Lapse \/ RestartAgent
    \/ \E p \in Procs : Kill(p)

-----------------------------------------------------------------------------
\* However the renderings of several processes overtake one another and whatever
\* dies, the kernel ends with what the settings ask for: a block that was lifted
\* or has lapsed is lifted, and one that was made holds.  Not so when nftables
\* refuses the rules, which the agent does not try again, or when the file changed
\* and changed back while the agent loaded it.
RulesFollow ==
    <>[](/\ file = Wanted
         /\ kernel = Wanted \/ ~agent.ok \/ swapped)
=============================================================================
