----------------------------- MODULE DomainKeys -----------------------------
(***************************************************************************)
(* The DKIM key of a domain (backend/apps/domains/services/dkim.py), as    *)
(* adding the domain, the start of the API container, removing the domain  *)
(* and the beat's job leave it: a row the DNS record is made from, and the *)
(* file Rspamd signs with.                                                 *)
(*                                                                         *)
(* A domain that is removed and added again is another row of the table    *)
(* (life); its file has the same name.  Nobody holds a lock from reading   *)
(* the key to writing the file.                                            *)
(***************************************************************************)
EXTENDS Naturals

CONSTANTS
    Provisioners,      \* processes that add the domain, provision it again, or run the job
    MaxLives,   \* bound of the model: how often the domain is added
    MaxKeys,    \* bound of the model: keys that are generated
    MaxFaults,  \* bound of the model: processes that die, writes that fail, volumes lost
    None        \* no key

Old == 0  \* the key an installation by older scripts left

VARIABLES
    domain,  \* the life of the domain's row, 0 when there is none
    lives,   \* how many there have been
    key,     \* the key in the domain's row of dkim_keys
    file,    \* the key in <domain>.<selector>.key
    legacy,  \* the key in the file of older scripts, which nobody removes
    made,    \* keys generated so far
    job,     \* p -> what a process holds
    faults,
    parted   \* history: how row and file came to differ

kvars == <<domain, lives, key, file, legacy, made, job, faults, parted>>

Idle == [pc |-> "idle", life |-> 0, key |-> None]

Init ==
    /\ domain = 0 /\ lives = 0
    /\ key = None /\ file = None
    /\ legacy \in {None, Old}
    /\ made = 0
    /\ job = [p \in Provisioners |-> Idle]
    /\ faults = 0
    /\ parted = {}

-----------------------------------------------------------------------------
\* add_domain() or provision_domains: the domain's row, made if need be.
Add(p) ==
    /\ job[p].pc = "idle"
    /\ domain = 0 => lives < MaxLives
    /\ LET life == IF domain = 0 THEN lives + 1 ELSE domain
       IN  /\ domain' = life
           /\ lives' = IF domain = 0 THEN life ELSE lives
           /\ job' = [job EXCEPT ![p] = [Idle EXCEPT !.pc = "ensure", !.life = life]]
    /\ UNCHANGED <<key, file, legacy, made, faults, parted>>

\* ensure(): the active key of the domain as it was read, or none.
Ensure(p) ==
    /\ job[p].pc = "ensure"
    /\ IF domain = job[p].life /\ key # None
       THEN job' = [job EXCEPT ![p].pc = "file", ![p].key = key]
       ELSE job' = [job EXCEPT ![p].pc = "create"]
    /\ UNCHANGED <<domain, lives, key, file, legacy, made, faults, parted>>

\* _import_legacy(): the row is added, which fails when somebody else has.
Adopt(p) ==
    /\ job[p].pc = "create"
    /\ legacy # None
    /\ IF domain = job[p].life /\ key = None
       THEN /\ key' = legacy
            /\ job' = [job EXCEPT ![p].pc = "file", ![p].key = legacy]
       ELSE /\ job' = [job EXCEPT ![p] = Idle]
            /\ UNCHANGED key
    /\ UNCHANGED <<domain, lives, file, legacy, made, faults, parted>>

\* Two that add the domain found no key, and the second replaces that of the first.
Replaced == IF key # None THEN parted \cup {"overlap"} ELSE parted

\* generate(): the row is replaced, whoever made it; the domain may be gone.
Generate(p) ==
    /\ job[p].pc = "create"
    /\ legacy = None
    /\ IF domain = job[p].life
       THEN /\ made < MaxKeys
            /\ made' = made + 1
            /\ key' = made + 1
            /\ parted' = Replaced
            /\ job' = [job EXCEPT ![p].pc = "write", ![p].key = made + 1]
       ELSE /\ job' = [job EXCEPT ![p] = Idle]
            /\ UNCHANGED <<key, made, parted>>
    /\ UNCHANGED <<domain, lives, file, legacy, faults>>

\* Mutant of WantsFile: the job never writes.
WantsFileMutant == FALSE

\* A file that is there is left as it is.
WantsFile == file = None

CheckFile(p) ==
    /\ job[p].pc = "file"
    /\ job' = [job EXCEPT ![p] = IF WantsFile THEN [@ EXCEPT !.pc = "write"] ELSE Idle]
    /\ UNCHANGED <<domain, lives, key, file, legacy, made, faults, parted>>

\* The row is there, the file is not written: the key of an earlier life stays in it.
NotWritten(p) ==
    parted' = IF job[p].pc = "write" /\ file # None THEN parted \cup {"left over"} ELSE parted

\* The key was made, or read for a file that was missing, before the domain was removed
\* and added again, and is written over the new one.
Outlived(p) ==
    parted' = IF job[p].life # domain /\ key \notin {None, job[p].key}
              THEN parted \cup {"outlived"} ELSE parted

\* The file is replaced at once, or the write fails and the step is an error.
WriteFile(p) ==
    /\ job[p].pc = "write"
    /\ \/ file' = job[p].key /\ Outlived(p) /\ UNCHANGED faults
       \/ faults < MaxFaults /\ faults' = faults + 1 /\ NotWritten(p) /\ UNCHANGED file
    /\ job' = [job EXCEPT ![p] = Idle]
    /\ UNCHANGED <<domain, lives, key, legacy, made>>

\* sync_files(): every active key is read, then each file is looked at.
SyncFiles(p) ==
    /\ job[p].pc = "idle"
    /\ key # None
    /\ job' = [job EXCEPT ![p] = [pc |-> "file", life |-> domain, key |-> key]]
    /\ UNCHANGED <<domain, lives, key, file, legacy, made, faults, parted>>

\* remove_domain(): the key's row goes with the domain, its file stays.
RemoveDomain ==
    /\ domain # 0
    /\ domain' = 0 /\ key' = None
    /\ UNCHANGED <<lives, file, legacy, made, job, faults, parted>>

Kill(p) ==
    /\ job[p].pc # "idle"
    /\ faults < MaxFaults /\ faults' = faults + 1
    /\ job' = [job EXCEPT ![p] = Idle]
    /\ NotWritten(p)
    /\ UNCHANGED <<domain, lives, key, file, legacy, made>>

\* "a fresh volume"
LoseVolume ==
    /\ faults < MaxFaults /\ faults' = faults + 1
    /\ file # None
    /\ file' = None
    /\ UNCHANGED <<domain, lives, key, legacy, made, job, parted>>

-----------------------------------------------------------------------------
Step(p) == Ensure(p) \/ Adopt(p) \/ Generate(p) \/ CheckFile(p) \/ WriteFile(p)

Next ==
    \/ \E p \in Provisioners : Add(p) \/ SyncFiles(p) \/ Step(p) \/ Kill(p)
    \/ RemoveDomain \/ LoseVolume

Agree == domain # 0 /\ key # None => file = key

\* In the end Rspamd signs with the key whose record is published, whatever dies,
\* however often the domain is removed and added again, and even after the volume is
\* lost.  Three cases are left, and running the steps again repairs none of them: two
\* that add the domain at once and make a key each, a process that writes the key of the
\* domain as it was before it was removed and added again, and a key made anew that is
\* not written over the old file.
KeysAgree == <>[](Agree \/ parted # {})
=============================================================================
