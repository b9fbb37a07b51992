------------------------------- MODULE MCSending -------------------------------
(***************************************************************************)
(* Small instances of Sending for TLC.                                     *)
(***************************************************************************)
EXTENDS Sending, TLC

CONSTANTS r1, r2, r3, a1, a2, x1, m1, m2, t1

\* Two messages under one Idempotency-Key: r1 and r2 are tries of the first.
MCMessage == [r \in Requests |-> IF r = r3 THEN m2 ELSE m1]
MCToken == [m \in Messages |-> t1]

\* The second counter has no room for the other message, so r3 gives back the
\* first; all three contend for both.
MCAmount == [x \in Messages \X Counters |-> IF x = <<m2, 2>> THEN 3 ELSE 1]
MCLimit == [c \in Counters |-> 2]

\* r1 and r2 carry the same message.
Symmetry == Permutations(Approvers) \cup Permutations({r1, r2})
=============================================================================
