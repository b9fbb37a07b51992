--------------------------- MODULE CampaignContract ---------------------------
(***************************************************************************)
(* What the campaign runner promises for one recipient, whatever the runs, *)
(* crashes and people do: a recipient ends in one outcome, nothing is      *)
(* mailed before it is claimed or after it has an outcome, and the outcome *)
(* says what happened to the email.                                        *)
(***************************************************************************)
EXTENDS Integers

CONSTANTS Rows

VARIABLES
    state,  \* r -> "none", "pending", "sending" (claimed) or an outcome
    mails,  \* r -> emails the relay accepted
    lost    \* r -> of these, accepted with the reply lost

Init ==
    /\ state = [r \in Rows |-> "none"]
    /\ mails = [r \in Rows |-> 0]
    /\ lost = [r \in Rows |-> 0]

\* A campaign is created: its recipients are pending or, on a list, skipped.
Create(rows) ==
    /\ \A r \in rows : state[r] = "none" /\ state'[r] \in {"pending", "skipped"}
    /\ state' \in [Rows -> {"none", "pending", "sending", "sent", "refused", "missing",
                            "interrupted", "skipped"}]
    /\ \A r \in Rows \ rows : state'[r] = state[r]
    /\ UNCHANGED <<mails, lost>>

Claim(r) ==
    /\ state[r] = "pending"
    /\ state' = [state EXCEPT ![r] = "sending"]
    /\ UNCHANGED <<mails, lost>>

\* The relay accepts the email of a claimed recipient, once for the claim.
Accept(r) ==
    /\ state[r] = "sending"
    /\ mails[r] = lost[r]
    /\ mails' = [mails EXCEPT ![r] = @ + 1]
    /\ lost' \in {lost, [lost EXCEPT ![r] = @ + 1]}
    /\ UNCHANGED state

\* Back to pending, when as far as anybody knows nothing was sent.
Return(r) ==
    /\ state[r] = "sending"
    /\ mails[r] = lost[r]
    /\ state' = [state EXCEPT ![r] = "pending"]
    /\ UNCHANGED <<mails, lost>>

Settle(r) ==
    /\ state[r] = "sending"
    /\ \/ state' = [state EXCEPT ![r] = "sent"] /\ mails[r] = lost[r] + 1
       \/ /\ \E outcome \in {"refused", "missing", "skipped"} :
                state' = [state EXCEPT ![r] = outcome]
          /\ mails[r] = lost[r]
    /\ UNCHANGED <<mails, lost>>

\* Claims of runs that died: nobody knows.
Interrupt(rows) ==
    /\ \A r \in rows : state[r] = "sending"
    /\ state' = [r \in Rows |-> IF r \in rows THEN "interrupted" ELSE state[r]]
    /\ UNCHANGED <<mails, lost>>

Next ==
    \/ \E rows \in SUBSET Rows : Create(rows) \/ Interrupt(rows)
    \/ \E r \in Rows : Claim(r) \/ Accept(r) \/ Return(r) \/ Settle(r)

Spec == Init /\ [][Next]_<<state, mails, lost>>
=============================================================================
