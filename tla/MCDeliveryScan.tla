---------------------------- MODULE MCDeliveryScan ----------------------------
(***************************************************************************)
(* Small instances of DeliveryScan for TLC: one scan at a time and what     *)
(* fails, or two scans that overlap.                                       *)
(***************************************************************************)
EXTENDS DeliveryScan

CONSTANTS
    s1, s2,
    Scenes  \* of "alone" and "overlap"

VARIABLE scene

\* Two messages: each has its cleanup line first.
MCCleanup == [l \in Lines |-> IF l < LogLength - 1 THEN 1 ELSE LogLength - 1]

MCInit == Init /\ scene \in Scenes

MCNext ==
    /\ Next /\ UNCHANGED scene
    /\ scene = "alone" => job'[s2] = IdleJob /\ stops' + faults' + rotations' <= 3
    /\ scene = "overlap" =>
          /\ faults' = 0 /\ rotations' = 0 /\ stops' <= 2
          /\ length' > 0 => remembered' = {1}
          /\ length' <= 2

\* Fairness of the scans there are.
MCFairness ==
    /\ \A s \in Scanners : WF_vars(Scan(s))
    /\ WF_vars(\E s \in Scanners : (scene = "alone" => s = s1) /\ Begin(s))

MCSpec == MCInit /\ [][MCNext]_<<scene, vars>> /\ MCFairness
=============================================================================
