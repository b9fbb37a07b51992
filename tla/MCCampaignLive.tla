---------------------------- MODULE MCCampaignLive ----------------------------
(***************************************************************************)
(* CampaignRunner with one worker and one recipient at a time, in two      *)
(* scenes a behaviour chooses between at the start: two recipients and a   *)
(* relay that does anything ("ends"), and four recipients and a relay that *)
(* refuses them ("streak").  The recipients a scene does not want opt out  *)
(* before there is a campaign.                                             *)
(***************************************************************************)
EXTENDS CampaignRunner

VARIABLES
    scene,
    after  \* history: c -> emails accepted since the campaign left "sending"

\* The last recipient of every campaign has a merge value missing.
MCLastUnfilled == Campaigns \X {5}

Everything == {"accepted", "refused", "failed", "lost"}

Out == IF scene = "ends" THEN {2, 3, 4} ELSE {5}

MCInit == Init /\ scene \in {"ends", "streak"} /\ after = [c \in Campaigns |-> 0]

Accepted(c) == {r \in Rows : r[1] = c /\ mails'[r] > mails[r]}

MCNext ==
    /\ \/ \E a \in Out \ declined : OptOut(a)
       \/ Out \subseteq declined /\ Next /\ declined' \ {1} = Out
    /\ scene = "streak" => /\ faults' = 0 /\ blocked' = {}
                           /\ \A c \in Campaigns : camp'[c] \notin Scheduled
    /\ after' = [c \in Campaigns |-> IF camp'[c] = "sending" THEN 0
                                     ELSE after[c] + Cardinality(Accepted(c))]
    /\ UNCHANGED scene

MCSpec == MCInit /\ [][MCNext]_<<scene, after, vars>> /\ Fairness

\* A campaign that is paused or cancelled while a run has its recipients in hand
\* sends the rest of that run's budget and no more: the next run leaves it alone.
StopsSoon == \A c \in Campaigns : after[c] <= Cardinality(Runners) * Pace
=============================================================================
