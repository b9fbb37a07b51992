------------------------------ MODULE MCServices ------------------------------
(* Services that watch, one part at a time: a behaviour is one of a part, and   *)
(* the variables of the other parts stay as they began.                        *)
EXTENDS TLC, Containment, InboxScan, BounceGuard, Administrators

CONSTANTS e1, e2, s1, s2, c1, c2

VARIABLE part

\* Counts <<delivered, bounced>> of a scan: over the limit, over it with what a resume
\* should have deleted, and one that takes the first below the limit again.
MCBatches == {<<0, 2>>, <<2, 1>>, <<3, 1>>}

-----------------------------------------------------------------------------
MCInit ==
    /\ part \in {"pause", "notify", "overlap", "alone", "bounces", "logins"}
    /\ ContainmentInit /\ InboxInit /\ GuardInit /\ AdministratorsInit
    /\ \A u \in Users : login[u].there /\ login[u].active /\ login[u].staff

\* Two evaluations side by side only alert; the one that pauses meets what fails.
Pausing ==
    /\ \/ /\ part = "pause" /\ ContainmentNext
          /\ doing'[e2] = Resting /\ doing'[e1].mode # "notify"
       \/ /\ part = "notify" /\ ContainmentNext
          /\ outages' = 0 /\ \A e \in Evaluators : doing'[e].mode # "pause"
    /\ UNCHANGED <<ivars, gvars, avars>>

\* Two scans of one mailbox, or one scan of a mailbox that is made anew.
Announcing ==
    /\ \/ part = "overlap" /\ InboxNext /\ validity' = 1
       \/ part = "alone" /\ InboxNext /\ scan'[s2] = scan[s2]
    /\ UNCHANGED <<cvars, gvars, avars>>

\* The last is for the second scan only.
Guarding ==
    /\ part = "bounces" /\ GuardNext
    /\ counting'[c1].batch # <<3, 1>> /\ counting'[c2].batch \in {<<0, 0>>, <<3, 1>>}
    /\ UNCHANGED <<cvars, ivars, avars>>

Administering ==
    /\ part = "logins" /\ AdministratorsNext
    /\ UNCHANGED <<cvars, ivars, gvars>>

MCNext ==
    /\ UNCHANGED part
    /\ Pausing \/ Announcing \/ Guarding \/ Administering

MCSpec ==
    /\ MCInit
    /\ [][MCNext]_<<part, cvars, ivars, gvars, avars>>
    /\ \A p \in Procs : WF_cvars(part = "pause" /\ Working(p))
    /\ SF_cvars(part = "pause" /\ ReadUsage(e1, "pause"))
    /\ SF_cvars(part = "pause" /\ Reconcile)
    /\ \A s \in Scanners : WF_ivars((part = "overlap" \/ (part = "alone" /\ s = s1))
                                    /\ (Look(s) \/ Scanning(s)))

-----------------------------------------------------------------------------
ContainedInPause == part = "pause" => Contained
=============================================================================
