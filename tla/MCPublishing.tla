----------------------------- MODULE MCPublishing -----------------------------
(* What hands rows over to other servers in files, one part at a time: plugins, *)
(* a zone, the rules of the firewall, the certificate, or a domain's key.       *)
EXTENDS TLC, ZonePublish, Certificates

CONSTANTS
    Plugins, Settings, Claims, Defaults, Requests, Jobs, MaxOps,
    p1, p2, k, r1, r2, a, b, x,
    Nets, People, Beat, u1, Provisioners, MaxLives, MaxKeys

VARIABLES
    part, ops,
    row, file, offered, job, given, twice,
    blocks, flood, closed, rules, render, kernel, agent, swapped,
    domain, lives, key, signing, legacy, made, step, parted

Plugin == INSTANCE PluginLifecycle
Firewall == INSTANCE EntryPoints WITH file <- rules, job <- render
DKIM == INSTANCE DomainKeys WITH file <- signing, job <- step

pvars == <<row, file, offered, job, given, twice>>
cvars == <<request, pairs, listed, certbot, upload, history>>
fvars == <<blocks, flood, closed, rules, render, kernel, agent, swapped>>
dvars == <<domain, lives, key, signing, legacy, made, step, parted>>
counts == <<ops, faults>>

\* Two plugins that want the same thing, the first of them since its update.
MCClaims == (p1 :> <<{}, {k}>>) @@ (p2 :> <<{k}, {k}>>)

-----------------------------------------------------------------------------
Installing == part \in {"one", "two"}
Naming == part \in {"edited", "moved", "served"}
Guarding == part \in {"changed", "failing"}
Certifying == part \in {"killed", "crossed"}

MCInit ==
    /\ part \in {"one", "two", "edited", "moved", "served", "changed", "failing", "killed", "crossed", "keys"}
    /\ Plugin!Init /\ ZoneInit /\ Firewall!Init /\ CertificatesInit /\ DKIM!Init
    /\ records = x
    /\ part # "keys" => legacy = None

\* One request beside the job with its default plugin, and what fails; or two
\* requests, and the job after them.
PluginNext ==
    /\ \/ part = "one" /\ Plugin!Next /\ job'[r2] = Plugin!IdleJob
       \/ /\ part = "two" /\ Plugin!Next
          /\ faults' = 0 /\ \A j \in Jobs : job'[j].pc # "begin"
          /\ (\E j \in Jobs : job'[j].pc # "idle") => \A r \in Requests : job'[r].pc = "idle"
    /\ UNCHANGED <<zvars, fvars, cvars, dvars>>

\* Two publishers and a change of the records, or two of the zone's mode, while Knot runs; or
\* one publisher, while all of it changes, Knot fails or is restarted, and time passes.
Running == Serve \/ (dns.pc \in {"idle", "reload"} /\ UNCHANGED dns)

Serving ==
    /\ \/ part = "edited" /\ ZoneNext /\ Running /\ zone'.here /\ now' = 1 /\ edits' <= 1
       \/ part = "moved" /\ ZoneNext /\ Running /\ records' = x /\ now' = 1 /\ zone'.pk = 1
       \/ part = "served" /\ ZoneNext /\ work'[b] = AtRest
    /\ UNCHANGED <<counts, pvars, fvars, cvars, dvars>>

\* Two changes without flood mode; or one change of anything, and what fails.
FirewallNext ==
    /\ \/ part = "changed" /\ Firewall!Next /\ ops' <= 2 /\ faults' = 0 /\ flood' = "none"
       \/ part = "failing" /\ Firewall!Next /\ ops' <= 1
    /\ UNCHANGED <<pvars, zvars, cvars, dvars>>

\* One upload, and what fails; or two uploads.
Answering ==
    /\ \/ part = "killed" /\ CertificatesNext /\ \A u \in Uploads \ {u1} : upload'[u] = "none"
       \/ part = "crossed" /\ CertificatesNext /\ faults' = 0
    /\ UNCHANGED <<ops, pvars, zvars, fvars, dvars>>

DKIMNext ==
    /\ part = "keys" /\ DKIM!Next
    /\ UNCHANGED <<ops, pvars, zvars, fvars, cvars>>

MCNext == UNCHANGED part /\ (PluginNext \/ Serving \/ FirewallNext \/ Answering \/ DKIMNext)

InstallingFairly ==
    /\ \A q \in Plugin!Procs :
          WF_<<pvars, counts>>(Installing /\ (Plugin!Refused(q) \/ Plugin!Begin(q) \/ Plugin!Effects(q)))
    /\ \A p \in Plugins : WF_<<pvars, counts>>(Installing /\ Plugin!Age(p))
    /\ \A j \in Jobs :
          /\ WF_<<pvars, counts>>(Installing /\ Plugin!Offer(j))
          /\ SF_<<pvars, counts>>(Installing /\ \E p \in Plugins : Plugin!Finish(j, p))
          /\ SF_<<pvars, counts>>(Installing /\ Plugin!Publish(j))

NamingFairly ==
    /\ \A p \in Publishers : WF_zvars(Naming /\ (part = "served" => p = a) /\ Publishing(p))
    /\ WF_zvars(Naming /\ Serve)

GuardingFairly ==
    /\ WF_<<fvars, counts>>(Guarding /\ Firewall!Job)
    /\ WF_<<fvars, counts>>(Guarding /\ Firewall!Agent)
    /\ \A p \in People : WF_<<fvars, counts>>(Guarding /\ Firewall!Publishing(p))

KeepingKeysFairly ==
    /\ \A p \in Provisioners : WF_<<dvars, faults>>(part = "keys" /\ DKIM!Step(p))
    /\ SF_<<dvars, faults>>(part = "keys" /\ \E p \in Provisioners : signing = None /\ DKIM!SyncFiles(p))

MCSpec ==
    /\ MCInit
    /\ [][MCNext]_<<part, counts, pvars, zvars, fvars, cvars, dvars>>
    /\ InstallingFairly /\ NamingFairly /\ GuardingFairly /\ KeepingKeysFairly

-----------------------------------------------------------------------------
NoClash == Plugin!NoClash
RemovedForGood == Plugin!RemovedForGood
StaysSettled == Plugin!StaysSettled
NoLostSetting == Plugin!NoLostSetting
Converges == Plugin!Converges

ServedInNaming == Naming => ServedInTheEnd

RulesFollow == Guarding => Firewall!RulesFollow
KeysAgree == DKIM!KeysAgree
=============================================================================
