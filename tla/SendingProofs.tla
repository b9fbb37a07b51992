----------------------------- MODULE SendingProofs -----------------------------
(***************************************************************************)
(* Proofs about Sending, for any number of requests, approvers and faults  *)
(* and any limits: a held message is mailed by one call of approve only,   *)
(* what the decision says is what happened, a repeated answer was given,   *)
(* a client that waits for its answers sends once, and the counters of the *)
(* quotas are exact and keep their limits.                                 *)
(***************************************************************************)
EXTENDS Sending, Sums, TLAPS, FiniteSetTheorems

LEMMA InitInv == Init => IInv
<1> SUFFICES ASSUME Init PROVE IInv
  OBVIOUS
<1>1. Types
  BY SendingAssumption DEF Init, Types, NewJob, Jobs, Answers, Senders, Procs
<1>2. \A p \in Procs : job[p].pc = "new" /\ ~Running(p)
  BY DEF Init, NewJob, Running
<1>3. \A a \in Approvers : ~Running(a)
  BY <1>2 DEF Senders, Procs
<1>4. LocksOK
  <2>1. \A r \in Requests, a \in Approvers : locked[r] # a
    BY SendingAssumption DEF Init
  <2>2. \A r \in Requests : status[r] = "none" /\ Mailers(r) = {}
    BY DEF Init, Mailers
  <2> QED
    BY <1>3, <2>1, <2>2 DEF LocksOK
<1>5. EmailsOK
  BY <1>2 DEF Init, EmailsOK, Senders, Procs
<1>6. DecisionsTrue
  BY DEF Init, DecisionsTrue, Mailers
<1>7. PlacesOK
  BY SendingAssumption DEF Init, PlacesOK, NewJob, Procs
<1>8. RejectsOK
  BY <1>2 DEF RejectsOK, Procs
<1> QED
  BY <1>1, <1>4, <1>5, <1>6, <1>7, <1>8 DEF IInv

-----------------------------------------------------------------------------
(* Frames: what a step of one process leaves alone.                         *)

\* What the invariant says of the held messages and the calls of approve.
Decisions == LocksOK /\ EmailsOK /\ DecisionsTrue

Early == {"new", "claim", "check"}

\* A step that moves no call of approve.
SameApprovers ==
    /\ \A a \in Approvers : /\ job'[a] = job[a]
                            /\ a \in left' <=> a \in left
                            /\ a \in unsure' <=> a \in unsure
    /\ \A r \in Requests : job'[r].pc \in Early => job[r].pc \in Early

LEMMA SameMailers ==
    ASSUME SameApprovers
    PROVE  /\ \A a \in Approvers : (Running(a)' <=> Running(a)) /\ (Died(a)' <=> Died(a))
           /\ \A r \in Requests : Mailers(r)' = Mailers(r) /\ Mailers(r) \subseteq Approvers
<1>1. \A a \in Approvers : (Running(a)' <=> Running(a)) /\ (Died(a)' <=> Died(a))
  BY DEF SameApprovers, Running, Died
<1>2. \A r \in Requests : Mailers(r)' = Mailers(r) /\ Mailers(r) \subseteq Approvers
  BY DEF SameApprovers, Mailers
<1> QED
  BY <1>1, <1>2

\* One call of somebody who approves nothing.
LEMMA OthersFrame ==
    ASSUME Types, NEW p \in Procs \ Approvers, NEW j \in Jobs,
           job' = [job EXCEPT ![p] = j],
           p \in Requests /\ j.pc \in Early => job[p].pc \in Early,
           left' \in {left, left \cup {p}}, unsure' \in {unsure, unsure \cup {p}}
    PROVE  SameApprovers
<1>1. \A a \in Approvers : job'[a] = job[a]
  BY DEF Types, Procs, Senders
<1>2. \A a \in Approvers : (a \in left' <=> a \in left) /\ (a \in unsure' <=> a \in unsure)
  OBVIOUS
<1>3. \A r \in Requests : job'[r].pc \in Early => job[r].pc \in Early
  BY DEF Types, Procs, Senders
<1> QED
  BY <1>1, <1>2, <1>3 DEF SameApprovers

\* No row changes.
LEMMA OthersStep ==
    ASSUME IInv, SameApprovers, status' = status, locked' = locked
    PROVE  Decisions'
<1>1. LocksOK'
  BY SameMailers DEF IInv, LocksOK, SameApprovers, Early
<1>2. EmailsOK'
  BY DEF IInv, EmailsOK, SameApprovers
<1>3. DecisionsTrue'
  BY SameMailers DEF IInv, DecisionsTrue, SameApprovers
<1> QED
  BY <1>1, <1>2, <1>3 DEF Decisions

\* A row is made, or an unlocked one is rejected or expires.
LEMMA RowStep ==
    ASSUME IInv, SameApprovers, NEW r \in Requests, locked' = locked,
           NEW new, status' = [status EXCEPT ![r] = new],
           job'[r].pc \notin Early,
           \/ new = "pending" /\ status[r] = "none"
           \/ new = "rejected" /\ locked[r] = None
           \/ new = "expired" /\ locked[r] = None /\ status[r] = "pending"
    PROVE  Decisions'
<1>1. status'[r] = new /\ \A q \in Requests \ {r} : status'[q] = status[q]
  BY DEF IInv, Types
<1>2. \A a \in Approvers : a # None
  BY SendingAssumption
<1>3. \A a \in Approvers : Running(a) => job[a].row # r
  BY <1>2 DEF IInv, LocksOK
<1>4. new \in {"pending", "expired"} => \A a \in Mailers(r) : Died(a)
  BY <1>2, SameMailers DEF IInv, LocksOK
<1>5. LocksOK'
  <2>1. \A a \in Approvers : Running(a)' =>
            job'[a].row \in Requests /\ locked'[job'[a].row] = a
                                     /\ status'[job'[a].row] = "pending"
    BY <1>1, <1>3, SameMailers DEF IInv, LocksOK, SameApprovers
  <2>2. \A q \in Requests, a \in Approvers :
            locked'[q] = a => Running(a)' /\ job'[a].row = q
    BY SameMailers DEF IInv, LocksOK, SameApprovers
  <2>3. \A q \in Requests : status'[q] = "pending" =>
            \A a \in Mailers(q)' : Died(a)' \/ locked'[q] = a
    BY <1>1, <1>4, SameMailers DEF IInv, LocksOK
  <2>4. \A q \in Requests : status'[q] = "none" => Mailers(q)' = {}
    BY <1>1, SameMailers DEF IInv, LocksOK
  <2>5. \A q \in Requests : job'[q].pc \in {"new", "claim", "check"} => status'[q] = "none"
    BY <1>1 DEF IInv, LocksOK, SameApprovers, Early
  <2> QED
    BY <2>1, <2>2, <2>3, <2>4, <2>5 DEF LocksOK
<1>6. EmailsOK'
  BY DEF IInv, EmailsOK, SameApprovers
<1>7. DecisionsTrue'
  BY <1>1, <1>4, SameMailers DEF IInv, DecisionsTrue, SameApprovers
<1> QED
  BY <1>5, <1>6, <1>7 DEF Decisions

\* A step in the middle of a call of approve.
LEMMA ApproverStep ==
    ASSUME IInv, NEW a \in Approvers, Running(a), NEW j \in Jobs,
           job' = [job EXCEPT ![a] = j],
           j.row = job[a].row, j.answer = job[a].answer,
           j.pc \in {"check", "take", "untake", "refund", "relay", "ok", "fail"},
           status' = status, locked' = locked,
           left' \in {left, left \cup {a}}, unsure' \in {unsure, unsure \cup {a}},
           /\ j.pc \in {"check", "take", "untake", "relay"} => a \notin left'
           /\ j.pc = "ok" => a \in left' \ unsure'
           /\ j.pc \in {"refund", "fail"} /\ a \in left' => a \in unsure'
    PROVE  Decisions'
<1> DEFINE row == job[a].row
<1>1. /\ row \in Requests /\ locked[row] = a /\ status[row] = "pending"
      /\ a \notin Requests /\ a \in Procs
  BY SendingAssumption DEF IInv, LocksOK, Procs, Senders
<1>2. /\ job'[a] = j
      /\ \A p \in Procs \ {a} : job'[p] = job[p]
  BY <1>1 DEF IInv, Types
<1>3. \A b \in Approvers : /\ job'[b].row = job[b].row /\ job'[b].answer = job[b].answer
                           /\ Running(b)' <=> Running(b)
                           /\ Died(b)' <=> Died(b)
  BY <1>2 DEF Running, Died, Procs, Senders
<1>4. \A b \in Approvers \ {a} : /\ b \in left' <=> b \in left
                                 /\ b \in unsure' <=> b \in unsure
                                 /\ job'[b] = job[b]
  BY <1>2 DEF Procs, Senders
<1>5. \A r \in Requests : /\ Mailers(r)' \subseteq Mailers(r) \cup (IF r = row THEN {a} ELSE {})
                          /\ Mailers(r) \subseteq Mailers(r)'
                          /\ Mailers(r)' \subseteq Approvers
  BY <1>3, <1>4 DEF Mailers
<1> HIDE DEF row
<1>6. LocksOK'
  <2>1. \A b \in Approvers : Running(b)' =>
            job'[b].row \in Requests /\ locked'[job'[b].row] = b
                                     /\ status'[job'[b].row] = "pending"
    BY <1>3 DEF IInv, LocksOK
  <2>2. \A r \in Requests, b \in Approvers :
            locked'[r] = b => Running(b)' /\ job'[b].row = r
    BY <1>3 DEF IInv, LocksOK
  <2>3. \A r \in Requests : status'[r] = "pending" =>
            \A b \in Mailers(r)' : Died(b)' \/ locked'[r] = b
    BY <1>1, <1>3, <1>5 DEF IInv, LocksOK
  <2>4. \A r \in Requests : status'[r] = "none" => Mailers(r)' = {}
    BY <1>1, <1>5 DEF IInv, LocksOK
  <2>5. \A r \in Requests : job'[r].pc \in {"new", "claim", "check"} => status'[r] = "none"
    BY <1>1, <1>2 DEF IInv, LocksOK, Procs, Senders
  <2> QED
    BY <2>1, <2>2, <2>3, <2>4, <2>5 DEF LocksOK
<1>7. EmailsOK'
  BY <1>2, <1>4 DEF IInv, EmailsOK
<1>8. DecisionsTrue'
  <2> SUFFICES ASSUME NEW r \in Requests
               PROVE  /\ \A b, c \in Mailers(r)' : ~Died(b)' /\ ~Died(c)' => b = c
                      /\ status'[r] = "sent" => \E b \in Mailers(r)' : b \notin unsure' /\ ~Died(b)'
                      /\ status'[r] = "failed" => \A b \in Mailers(r)' : b \in unsure' \/ Died(b)'
                      /\ status'[r] = "expired" => \A b \in Mailers(r)' : Died(b)'
    BY DEF DecisionsTrue
  <2>1. CASE r = row
    <3>1. \A b \in Mailers(r)' : b = a \/ Died(b)'
      BY <1>1, <1>3, <1>5, <2>1 DEF IInv, LocksOK
    <3>2. status'[r] = "pending"
      BY <1>1, <2>1
    <3> QED
      BY <3>1, <3>2
  <2>2. CASE r # row
    <3>1. Mailers(r)' = Mailers(r) /\ Mailers(r) \subseteq Approvers \ {a}
      BY <1>5, <2>2 DEF Mailers, row
    <3> QED
      BY <1>3, <1>4, <3>1 DEF IInv, DecisionsTrue
  <2> QED
    BY <2>1, <2>2
<1> QED
  BY <1>6, <1>7, <1>8 DEF Decisions

-----------------------------------------------------------------------------
(* Types.                                                                   *)

Shape == Types /\ PlacesOK

Pcs == {"new", "claim", "check", "take", "untake", "refund", "relay", "ok", "fail",
        "decide", "done"}

\* What each kind of move makes of a call.
LEMMA MovedJob ==
    ASSUME NEW j \in Jobs, NEW pc \in Pcs
    PROVE  LET k == [j EXCEPT !.pc = pc]
           IN  k \in Jobs /\ k.pc = pc /\ k.row = j.row /\ k.next = j.next /\ k.back = j.back /\ k.answer = j.answer
  BY DEF Jobs, Pcs

LEMMA GotoFacts ==
    ASSUME Shape, NEW p \in Procs, NEW pc \in Pcs, Goto(p, pc)
    PROVE  \E j \in Jobs : /\ job' = [job EXCEPT ![p] = j]
                           /\ j.pc = pc /\ j.row = job[p].row
                           /\ j.next = job[p].next /\ j.back = job[p].back
                           /\ j.answer = job[p].answer
<1>1. job[p] \in Jobs
  BY DEF Shape, Types
<1>2. job' = [job EXCEPT ![p] = [job[p] EXCEPT !.pc = pc]]
  BY DEF Goto
<1> QED
  BY <1>1, <1>2, MovedJob

LEMMA AnswerFacts ==
    ASSUME Shape, NEW p \in Procs, NEW answer \in Answers, Answer(p, answer)
    PROVE  \E j \in Jobs : /\ job' = [job EXCEPT ![p] = j]
                           /\ j.pc = "done" /\ j.row = job[p].row
                           /\ j.next = 1 /\ j.back = 0 /\ j.answer = answer
<1> DEFINE j == [pc |-> "done", row |-> job[p].row, next |-> 1, back |-> 0, answer |-> answer]
<1>1. job[p].row \in Requests \cup {None}
  BY DEF Shape, Types, Jobs
<1>2. j \in Jobs /\ j.pc = "done" /\ j.row = job[p].row /\ j.next = 1 /\ j.back = 0 /\ j.answer = answer
  BY <1>1 DEF Jobs
<1>3. job' = [job EXCEPT ![p] = j]
  BY DEF Answer
<1> HIDE DEF j
<1> QED
  BY <1>2, <1>3

\* One call moves on: its job is a job, its place is a place.
LEMMA MoveStep ==
    ASSUME Shape, NEW p \in Procs, NEW j \in Jobs, job' = [job EXCEPT ![p] = j],
           p \in Senders =>
               /\ j.next \in 1 .. Quotas + 1
               /\ j.pc \in {"new", "claim", "check"} => j.next = 1
               /\ j.pc \in {"take", "untake"} => j.next <= Quotas
               /\ j.pc = "relay" => j.next >= 2
               /\ j.pc = "refund" => j.back + 2 <= j.next
               /\ j.pc \notin {"refund", "fail", "done"} => j.back = 0
    PROVE  job' \in [Procs -> Jobs] /\ PlacesOK'
<1>1. job' \in [Procs -> Jobs]
  BY DEF Shape, Types
<1>2. job'[p] = j /\ \A q \in Procs \ {p} : job'[q] = job[q]
  BY DEF Shape, Types
<1>3. Senders \subseteq Procs
  BY DEF Procs
<1> QED
  BY <1>1, <1>2, <1>3 DEF Shape, PlacesOK

\* A step of a request that leaves its place in the quotas alone.
LEMMA RequestMove ==
    ASSUME Shape, NEW r \in Requests, NEW j \in Jobs, job' = [job EXCEPT ![r] = j],
           \/ j.next = job[r].next /\ j.back = job[r].back
           \/ j.next = 1 /\ j.back = 0,
           j.pc \in {"claim", "check", "ok", "done"},
           j.pc \in {"claim", "check"} => job[r].pc \in {"new", "claim"},
           j.pc = "ok" => job[r].pc = "check"
    PROVE  job' \in [Procs -> Jobs] /\ PlacesOK'
<1>1. r \in Procs /\ r \in Senders /\ 1 \in 1 .. Quotas + 1
  BY SendingAssumption DEF Procs, Senders
<1>2. /\ job[r].next \in 1 .. Quotas + 1
      /\ job[r].pc \in {"new", "claim", "check"} => job[r].next = 1 /\ job[r].back = 0
  BY <1>1 DEF Shape, PlacesOK
<1>3. j.pc \notin {"new", "take", "untake", "refund", "relay"}
  OBVIOUS
<1>4. /\ j.pc \in {"claim", "check"} => j.next = 1
      /\ j.pc # "done" => j.back = 0
  BY <1>2
<1> QED
  BY <1>1, <1>2, <1>3, <1>4, MoveStep

\* The calls of a request.
LEMMA RequestShape == ASSUME Shape, NEW r \in Requests, Request(r) PROVE Shape'
<1>1. /\ r \in Procs /\ Key(r) \in Tokens /\ Message[r] \in Messages
  BY DEF Procs, Senders, Key, Tokens, Messages
<1>2. \A t \in Tokens, m \in Messages, st \in {"pending", "done"} :
          [slot EXCEPT ![t] = [state |-> st, message |-> m]] \in
              [Tokens -> [state : {"pending", "done"}, message : Messages] \cup {None}]
  BY DEF Shape, Types
<1>3. CASE Fresh(r)
  <2>1. Goto(r, "claim") /\ job[r].pc = "new"
    BY <1>3 DEF Fresh, Begins
  <2>2. PICK j \in Jobs : /\ job' = [job EXCEPT ![r] = j] /\ j.next = job[r].next
                          /\ j.back = job[r].back /\ j.pc = "claim"
    BY <1>1, <2>1, GotoFacts DEF Pcs
  <2>3. job' \in [Procs -> Jobs] /\ PlacesOK'
    BY <2>1, <2>2, RequestMove
  <2> QED
    BY <1>1, <1>3, <2>3 DEF Fresh, Begins, held, history, Shape, Types
<1>4. CASE Answered(r)
  <2>1. PICK answer \in Answers : Answer(r, answer)
    BY <1>4 DEF Answered, Answers
  <2>2. PICK j \in Jobs : /\ job' = [job EXCEPT ![r] = j] /\ j.next = 1
                          /\ j.back = 0 /\ j.pc = "done"
    BY <1>1, <2>1, AnswerFacts
  <2>3. job' \in [Procs -> Jobs] /\ PlacesOK'
    BY <2>2, RequestMove
  <2> QED
    BY <1>1, <1>4, <2>3 DEF Answered, Begins, held, history, Shape, Types
<1>5. CASE ClaimSlot(r)
  <2>1. Goto(r, "check") /\ job[r].pc = "claim"
    BY <1>5 DEF ClaimSlot
  <2>2. PICK j \in Jobs : /\ job' = [job EXCEPT ![r] = j] /\ j.next = job[r].next
                          /\ j.back = job[r].back /\ j.pc = "check"
    BY <1>1, <2>1, GotoFacts DEF Pcs
  <2>3. job' \in [Procs -> Jobs] /\ PlacesOK'
    BY <2>1, <2>2, RequestMove
  <2> QED
    BY <1>1, <1>2, <1>5, <2>3 DEF ClaimSlot, held, history, Shape, Types
<1>6. CASE Hold(r)
  <2>1. Goto(r, "ok") /\ job[r].pc = "check"
    BY <1>6 DEF Hold
  <2>2. PICK j \in Jobs : /\ job' = [job EXCEPT ![r] = j] /\ j.next = job[r].next
                          /\ j.back = job[r].back /\ j.pc = "ok"
    BY <1>1, <2>1, GotoFacts DEF Pcs
  <2>3. job' \in [Procs -> Jobs] /\ PlacesOK'
    BY <2>1, <2>2, RequestMove
  <2> QED
    BY <1>1, <1>6, <2>3 DEF Hold, history, Shape, Types
<1>7. CASE Succeed(r)
  <2>1. Answer(r, "accepted")
    BY <1>7 DEF Succeed
  <2>2. PICK j \in Jobs : /\ job' = [job EXCEPT ![r] = j] /\ j.next = 1
                          /\ j.back = 0 /\ j.pc = "done"
    BY <1>1, <2>1, AnswerFacts DEF Answers
  <2>3. job' \in [Procs -> Jobs] /\ PlacesOK'
    BY <2>1, <2>2, RequestMove
  <2> QED
    BY <1>1, <1>2, <1>7, <2>3 DEF Succeed, Stored, held, history, Shape, Types
<1>8. CASE Fail(r)
  <2>1. Answer(r, "refused")
    BY <1>8 DEF Fail
  <2>2. PICK j \in Jobs : /\ job' = [job EXCEPT ![r] = j] /\ j.next = 1
                          /\ j.back = 0 /\ j.pc = "done"
    BY <1>1, <2>1, AnswerFacts DEF Answers
  <2>3. job' \in [Procs -> Jobs] /\ PlacesOK'
    BY <2>1, <2>2, RequestMove
  <2> QED
    BY <1>1, <1>8, <2>3 DEF Fail, held, history, Shape, Types
<1> QED
  BY <1>3, <1>4, <1>5, <1>6, <1>7, <1>8 DEF Request

-----------------------------------------------------------------------------
(* The steps of a sender.                                                   *)

\* What every step of MessageService.send does to the call and to the histories.
Flow(p, j) ==
    /\ job' = [job EXCEPT ![p] = j]
    /\ j.row = job[p].row /\ j.answer = job[p].answer
    /\ job[p].pc \in {"check", "take", "untake", "refund", "relay"}
    /\ j.pc \in {"take", "untake", "refund", "relay", "ok", "fail"}
    /\ j.next \in 1 .. Quotas + 1
    /\ j.pc \in {"take", "untake"} => j.next <= Quotas
    /\ j.pc = "relay" => j.next >= 2
    /\ j.pc = "refund" => j.back + 2 <= j.next
    /\ j.pc \notin {"refund", "fail"} => j.back = 0
    /\ slot' = slot /\ status' = status /\ locked' = locked /\ overlap' = overlap
    /\ faults' \in 0 .. MaxFaults
    /\ \/ /\ left' = left /\ unsure' = unsure
          /\ j.pc \in {"take", "untake", "relay"} => job[p].pc \in {"check", "take"}
          /\ j.pc # "ok"
       \/ /\ job[p].pc = "relay" /\ left' = left \cup {p}
          /\ \/ j.pc = "ok" /\ unsure' = unsure
             \/ j.pc = "refund" /\ unsure' = unsure \cup {p}

\* The place of a sender in the quotas.
LEMMA SendFlow ==
    ASSUME IInv, NEW p \in Senders, Send(p)
    PROVE  \E j \in Jobs : Flow(p, j)
<1>1. Shape /\ p \in Procs /\ job[p] \in Jobs /\ faults \in 0 .. MaxFaults
  BY DEF IInv, Shape, Types, Procs
<1>2. /\ job[p].next \in 1 .. Quotas + 1 /\ job[p].next \in Nat
      /\ job[p].pc = "check" => job[p].next = 1
      /\ job[p].pc \in {"take", "untake"} => job[p].next <= Quotas
      /\ job[p].pc = "relay" => job[p].next >= 2
      /\ job[p].pc = "refund" => job[p].back + 2 <= job[p].next
      /\ job[p].pc \in {"check", "take", "untake", "relay"} => job[p].back = 0
      /\ job[p].back \in Nat
  BY <1>1, SendingAssumption DEF IInv, PlacesOK, Jobs
<1>3. Quotas \in Nat \ {0} /\ MaxFaults \in Nat
  BY SendingAssumption
<1>4. CASE Allowed(p)
  <2>1. Goto(p, "take")
    BY <1>4 DEF Allowed
  <2>2. PICK j \in Jobs : /\ job' = [job EXCEPT ![p] = j] /\ j.pc = "take"
                          /\ j.row = job[p].row /\ j.answer = job[p].answer /\ j.next = job[p].next
                          /\ j.back = job[p].back
    BY <1>1, <2>1, GotoFacts DEF Pcs
  <2>3. Flow(p, j)
    BY <1>1, <1>2, <1>3, <1>4, <2>2 DEF Allowed, Flow, held, history
  <2> QED
    BY <2>3
<1>5. CASE Refused(p)
  <2>1. Goto(p, "fail")
    BY <1>5 DEF Refused
  <2>2. PICK j \in Jobs : /\ job' = [job EXCEPT ![p] = j] /\ j.pc = "fail"
                          /\ j.row = job[p].row /\ j.answer = job[p].answer /\ j.next = job[p].next
                          /\ j.back = job[p].back
    BY <1>1, <2>1, GotoFacts DEF Pcs
  <2>3. Flow(p, j)
    BY <1>1, <1>2, <1>3, <1>5, <2>2 DEF Refused, Flow, held, history
  <2> QED
    BY <2>3
<1>6. CASE Take(p)
  <2> DEFINE c == job[p].next
             over == Over(c, used[c] + Adds(p, c))
             to == IF over THEN "untake" ELSE IF c = Quotas THEN "relay" ELSE "take"
             n == IF over THEN c ELSE c + 1
  <2>1. job' = [job EXCEPT ![p] = [job[p] EXCEPT !.pc = to, !.next = n]]
    BY <1>6 DEF Take
  <2>2. job[p].pc = "take"
    BY <1>6 DEF Take
  <2>3. /\ to \in {"untake", "relay", "take"} /\ n \in 1 .. Quotas + 1 /\ n \in Nat
        /\ to \in {"take", "untake"} => n <= Quotas
        /\ to = "relay" => n >= 2
    <3> HIDE DEF over
    <3> QED
      BY <1>2, <1>3, <2>2
  <2> HIDE DEF to, n
  <2>4. to \in Pcs
    BY <2>3 DEF Pcs
  <2>5. PICK pc \in Pcs, m \in Nat :
            job' = [job EXCEPT ![p] = [job[p] EXCEPT !.pc = pc, !.next = m]] /\ pc = to /\ m = n
    BY <2>1, <2>3, <2>4, Zenon
  <2> DEFINE k == [job[p] EXCEPT !.pc = pc, !.next = m]
  <2>6. /\ job' = [job EXCEPT ![p] = k] /\ k \in Jobs /\ k.pc = pc
        /\ k.row = job[p].row /\ k.next = m /\ k.back = job[p].back /\ k.answer = job[p].answer
    <3>1. job' = [job EXCEPT ![p] = k]
      BY <2>5
    <3>2. k \in Jobs
      BY <1>1 DEF Jobs, Pcs
    <3>3. /\ k.pc = pc /\ k.row = job[p].row /\ k.next = m /\ k.back = job[p].back
          /\ k.answer = job[p].answer
      BY <1>1 DEF Jobs, Pcs
    <3> QED
      BY <3>1, <3>2, <3>3
  <2> HIDE DEF k
  <2>7. Flow(p, k)
    BY <1>1, <1>2, <1>6, <2>2, <2>3, <2>5, <2>6 DEF Take, Flow, held, history
  <2> QED
    BY <2>6, <2>7
<1>7. ASSUME NEW c, GiveBack(p, c) PROVE faults' \in 0 .. MaxFaults
  <2>1. faults' = faults \/ (faults < MaxFaults /\ faults' = faults + 1)
    BY <1>7 DEF GiveBack
  <2> QED
    BY <1>1, <1>3, <2>1
<1>8. CASE Untake(p)
  <2> DEFINE pc == IF job[p].next = 1 THEN "fail" ELSE "refund"
  <2>1. Goto(p, pc) /\ job[p].pc = "untake"
    BY <1>8 DEF Untake
  <2>2. pc \in {"fail", "refund"} /\ (pc = "refund" => job[p].next >= 2)
    BY <1>2
  <2> HIDE DEF pc
  <2>3. pc \in Pcs
    BY <2>2 DEF Pcs
  <2>4. PICK j \in Jobs : /\ job' = [job EXCEPT ![p] = j] /\ j.pc = pc
                          /\ j.row = job[p].row /\ j.answer = job[p].answer /\ j.next = job[p].next
                          /\ j.back = job[p].back
    BY <1>1, <2>1, <2>3, GotoFacts
  <2>5. faults' \in 0 .. MaxFaults
    BY <1>7, <1>8 DEF Untake
  <2>6. Flow(p, j)
    BY <1>2, <1>8, <2>1, <2>2, <2>4, <2>5 DEF Untake, Flow, held, history
  <2> QED
    BY <2>6
<1>13. CASE TakeFails(p)
  <2> DEFINE pc == IF job[p].next = 1 THEN "fail" ELSE "refund"
  <2>1. Goto(p, pc) /\ job[p].pc = "take" /\ faults < MaxFaults /\ faults' = faults + 1
    BY <1>13 DEF TakeFails
  <2>2. pc \in {"fail", "refund"} /\ (pc = "refund" => job[p].next >= 2)
    BY <1>2
  <2> HIDE DEF pc
  <2>3. pc \in Pcs
    BY <2>2 DEF Pcs
  <2>4. PICK j \in Jobs : /\ job' = [job EXCEPT ![p] = j] /\ j.pc = pc
                          /\ j.row = job[p].row /\ j.answer = job[p].answer /\ j.next = job[p].next
                          /\ j.back = job[p].back
    BY <1>1, <2>1, <2>3, GotoFacts
  <2>5. faults' \in 0 .. MaxFaults
    BY <1>1, <1>3, <2>1
  <2>6. Flow(p, j)
    BY <1>2, <1>13, <2>1, <2>2, <2>4, <2>5 DEF TakeFails, Flow, held, history
  <2> QED
    BY <2>6
<1>9. CASE Refund(p)
  <2> DEFINE to == IF job[p].back + 1 = job[p].next - 1 THEN "fail" ELSE "refund"
             n == job[p].back + 1
  <2>1. job' = [job EXCEPT ![p] = [job[p] EXCEPT !.pc = to, !.back = n]]
    BY <1>9 DEF Refund
  <2>2. job[p].pc = "refund"
    BY <1>9 DEF Refund
  <2>3. to \in {"fail", "refund"} /\ n \in Nat /\ (to = "refund" => n + 2 <= job[p].next)
    BY <1>2, <1>3, <2>2
  <2> HIDE DEF to, n
  <2>4. to \in Pcs
    BY <2>3 DEF Pcs
  <2>5. PICK pc \in Pcs, m \in Nat :
            job' = [job EXCEPT ![p] = [job[p] EXCEPT !.pc = pc, !.back = m]] /\ pc = to /\ m = n
    BY <2>1, <2>3, <2>4, Zenon
  <2> DEFINE k == [job[p] EXCEPT !.pc = pc, !.back = m]
  <2>6. /\ job' = [job EXCEPT ![p] = k] /\ k \in Jobs /\ k.pc = pc
        /\ k.row = job[p].row /\ k.next = job[p].next /\ k.back = m /\ k.answer = job[p].answer
    <3>1. job' = [job EXCEPT ![p] = k]
      BY <2>5
    <3>2. k \in Jobs
      BY <1>1 DEF Jobs, Pcs
    <3>3. /\ k.pc = pc /\ k.row = job[p].row /\ k.next = job[p].next /\ k.back = m
          /\ k.answer = job[p].answer
      BY <1>1 DEF Jobs, Pcs
    <3> QED
      BY <3>1, <3>2, <3>3
  <2> HIDE DEF k
  <2>7. faults' \in 0 .. MaxFaults
    BY <1>7, <1>9 DEF Refund
  <2>8. Flow(p, k)
    BY <1>2, <1>9, <2>2, <2>3, <2>5, <2>6, <2>7 DEF Refund, Flow, held, history
  <2> QED
    BY <2>6, <2>8
<1>10. CASE RelayAccepts(p)
  <2>1. Goto(p, "ok")
    BY <1>10 DEF RelayAccepts
  <2>2. PICK j \in Jobs : /\ job' = [job EXCEPT ![p] = j] /\ j.pc = "ok"
                          /\ j.row = job[p].row /\ j.answer = job[p].answer /\ j.next = job[p].next
                          /\ j.back = job[p].back
    BY <1>1, <2>1, GotoFacts DEF Pcs
  <2>3. Flow(p, j)
    BY <1>1, <1>2, <1>10, <2>2 DEF RelayAccepts, Flow, held
  <2> QED
    BY <2>3
<1>11. CASE RelayFails(p)
  <2>1. Goto(p, "refund")
    BY <1>11 DEF RelayFails
  <2>2. PICK j \in Jobs : /\ job' = [job EXCEPT ![p] = j] /\ j.pc = "refund"
                          /\ j.row = job[p].row /\ j.answer = job[p].answer /\ j.next = job[p].next
                          /\ j.back = job[p].back
    BY <1>1, <2>1, GotoFacts DEF Pcs
  <2>3. Flow(p, j)
    BY <1>1, <1>2, <1>11, <2>2 DEF RelayFails, Flow, held, history
  <2> QED
    BY <2>3
<1>12. CASE ReplyLost(p)
  <2>1. Goto(p, "refund")
    BY <1>12 DEF ReplyLost
  <2>2. PICK j \in Jobs : /\ job' = [job EXCEPT ![p] = j] /\ j.pc = "refund"
                          /\ j.row = job[p].row /\ j.answer = job[p].answer /\ j.next = job[p].next
                          /\ j.back = job[p].back
    BY <1>1, <2>1, GotoFacts DEF Pcs
  <2>3. faults' \in 0 .. MaxFaults
    BY <1>1, <1>3, <1>12 DEF ReplyLost
  <2>4. Flow(p, j)
    BY <1>2, <1>12, <2>2, <2>3 DEF ReplyLost, Flow, held
  <2> QED
    BY <2>4
<1> QED
  BY <1>4, <1>5, <1>6, <1>8, <1>9, <1>10, <1>11, <1>12, <1>13 DEF Send

\* Nobody begins to reject a row that is not there, and no row goes away.
LEMMA RejectsKept ==
    ASSUME RejectsOK, \A x \in Rejecters : job'[x] = job[x] \/ job'[x].pc # "decide",
           \A r \in Requests : status[r] # "none" => status'[r] # "none"
    PROVE  RejectsOK'
  BY DEF RejectsOK

LEMMA SendStep == ASSUME IInv, NEW p \in Senders, Send(p) PROVE IInv'
<1>1. PICK j \in Jobs : Flow(p, j)
  BY SendFlow
<1>2. Shape /\ p \in Procs /\ Senders \subseteq Procs
  BY DEF IInv, Shape, Procs
<1>3. job' \in [Procs -> Jobs] /\ PlacesOK'
  BY <1>1, <1>2, MoveStep DEF Flow
<1>4. left' \in SUBSET Senders /\ unsure' \in SUBSET left'
  BY <1>1 DEF Flow, IInv, Types
<1>5. Types'
  BY <1>1, <1>3, <1>4 DEF Flow, IInv, Types
<1>6. RejectsOK'
  <2>1. \A x \in Rejecters : job'[x] = job[x] \/ job'[x].pc # "decide"
    BY <1>1, <1>2 DEF Flow, IInv, Types, Procs
  <2> QED
    BY <1>1, <2>1, RejectsKept DEF Flow, IInv
<1>7. Decisions'
  <2>1. CASE p \in Approvers
    <3>1. Running(p)
      BY <1>1 DEF Flow, Running
    <3>2. /\ j.pc \in {"check", "take", "untake", "relay"} => p \notin left'
          /\ j.pc = "ok" => p \in left' \ unsure'
          /\ j.pc \in {"refund", "fail"} /\ p \in left' => p \in unsure'
      BY <1>1, <2>1 DEF Flow, IInv, EmailsOK, Types
    <3>3. left' \in {left, left \cup {p}} /\ unsure' \in {unsure, unsure \cup {p}}
      BY <1>1 DEF Flow
    <3>4. /\ job' = [job EXCEPT ![p] = j] /\ j.row = job[p].row /\ j.answer = job[p].answer
          /\ j.pc \in {"check", "take", "untake", "refund", "relay", "ok", "fail"}
          /\ status' = status /\ locked' = locked
      BY <1>1 DEF Flow
    <3> QED
      BY <2>1, <3>1, <3>2, <3>3, <3>4, ApproverStep
  <2>2. CASE p \notin Approvers
    <3>1. j.pc \notin Early
      BY <1>1 DEF Flow, Early
    <3>2. left' \in {left, left \cup {p}} /\ unsure' \in {unsure, unsure \cup {p}}
      BY <1>1 DEF Flow
    <3>3. SameApprovers
      BY <1>1, <1>2, <2>2, <3>1, <3>2, OthersFrame DEF Flow, IInv
    <3> QED
      BY <1>1, <3>3, OthersStep DEF Flow
  <2> QED
    BY <2>1, <2>2
<1> QED
  BY <1>3, <1>5, <1>6, <1>7 DEF IInv, Decisions

-----------------------------------------------------------------------------
(* The steps of a request, of approve, reject and expire, and a dead process. *)

LEMMA RequestStep == ASSUME IInv, NEW r \in Requests, Request(r) PROVE IInv'
<1>1. Shape /\ r \in Procs \ Approvers /\ Rejecters \subseteq Procs /\ r \notin Rejecters
  BY SendingAssumption DEF IInv, Shape, Procs, Senders
<1>2. Shape'
  BY <1>1, RequestShape
<1>3. PICK pc \in {"claim", "check", "ok", "done"} :
          /\ job' = [job EXCEPT ![r].pc = pc] \/ Answer(r, "accepted") \/ Answer(r, "refused")
                \/ \E answer \in Answers : Answer(r, answer)
          /\ left' = left /\ unsure' = unsure /\ locked' = locked
          /\ job'[r].pc = pc
          /\ pc \in Early => job[r].pc \in Early
          /\ \/ status' = status
             \/ status' = [status EXCEPT ![r] = "pending"] /\ job[r].pc = "check" /\ pc = "ok"
  <2>1. job \in [Procs -> Jobs] /\ \A j \in Jobs : DOMAIN j = {"pc", "row", "next", "back", "answer"}
    BY DEF IInv, Types, Jobs
  <2>2. CASE Fresh(r)
    BY <1>1, <2>1, <2>2 DEF Fresh, Begins, Goto, held, history, Early
  <2>3. CASE Answered(r)
    <3>1. PICK answer \in Answers : Answer(r, answer)
      BY <2>3 DEF Answered, Answers
    <3>2. job'[r].pc = "done"
      BY <1>1, <2>1, <3>1 DEF Answer
    <3> QED
      BY <2>3, <3>1, <3>2 DEF Answered, Begins, held, history, Early
  <2>4. CASE ClaimSlot(r)
    BY <1>1, <2>1, <2>4 DEF ClaimSlot, Goto, held, history, Early
  <2>5. CASE Hold(r)
    BY <1>1, <2>1, <2>5 DEF Hold, Goto, history, Early
  <2>6. CASE Succeed(r)
    <3>1. job'[r].pc = "done"
      BY <1>1, <2>1, <2>6 DEF Succeed, Answer
    <3> QED
      BY <2>6, <3>1 DEF Succeed, held, history, Early
  <2>7. CASE Fail(r)
    <3>1. job'[r].pc = "done"
      BY <1>1, <2>1, <2>7 DEF Fail, Answer
    <3> QED
      BY <2>7, <3>1 DEF Fail, held, history, Early
  <2> QED
    BY <2>2, <2>3, <2>4, <2>5, <2>6, <2>7 DEF Request
<1>4. \A q \in Procs \ {r} : job'[q] = job[q]
  BY <1>1, <1>3 DEF Answer, IInv, Types
<1>5. RejectsOK'
  <2>1. \A q \in Requests : status[q] # "none" => status'[q] # "none"
    BY <1>3 DEF IInv, Types
  <2> QED
    BY <1>1, <1>4, <2>1, RejectsKept DEF IInv
<1>6. SameApprovers
  <2>1. \A q \in Requests : job'[q].pc \in Early => job[q].pc \in Early
    BY <1>3, <1>4 DEF Procs, Senders
  <2> QED
    BY <1>1, <1>3, <1>4, <2>1 DEF SameApprovers, Procs, Senders
<1>7. Decisions'
  <2>1. CASE status' = status
    BY <1>3, <1>6, <2>1, OthersStep
  <2>2. CASE status' # status
    <3>1. job'[r].pc \notin Early
      BY <1>3, <2>2 DEF Early
    <3>2. status[r] = "none"
      BY <1>3, <2>2 DEF IInv, LocksOK
    <3> QED
      BY <1>3, <1>6, <2>2, <3>1, <3>2, RowStep
  <2> QED
    BY <2>1, <2>2
<1> QED
  BY <1>2, <1>5, <1>7 DEF IInv, Shape, Decisions

\* A call of approve begins: it has the lock of a pending row, or nothing.
LEMMA ApproveStep ==
    ASSUME IInv, NEW a \in Approvers, NEW r \in Requests, Approve(a, r) PROVE IInv'
<1>1. /\ Shape /\ a \in Procs /\ a \in Senders /\ a \notin Requests /\ a \notin Rejecters
      /\ Requests \subseteq Procs /\ Rejecters \subseteq Procs /\ Approvers \subseteq Procs
      /\ job \in [Procs -> Jobs] /\ job[a] \in Jobs
  BY SendingAssumption DEF IInv, Shape, Types, Procs, Senders
<1>2. /\ job[a].pc = "new" /\ status[r] # "none" /\ locked[r] = None
      /\ status' = status /\ left' = left /\ unsure' = unsure /\ slot' = slot
      /\ overlap' = overlap /\ faults' = faults
  BY DEF Approve, history
<1>3. job[a].next \in 1 .. Quotas + 1 /\ job[a].next = 1 /\ job[a].back = 0 /\ a \notin left /\ ~Running(a)
  BY <1>1, <1>2 DEF IInv, PlacesOK, EmailsOK, Running
<1>4. \A q \in Requests : locked[q] # a
  BY <1>3 DEF IInv, LocksOK
<1>5. CASE Decidable(r)
  <2> DEFINE j == [job[a] EXCEPT !.pc = "check", !.row = r]
  <2>1. job' = [job EXCEPT ![a] = j] /\ locked' = [locked EXCEPT ![r] = a]
    BY <1>5 DEF Approve
  <2>2. /\ j \in Jobs /\ j.pc = "check" /\ j.row = r /\ j.next = job[a].next
        /\ j.back = job[a].back /\ j.answer = job[a].answer
    <3>1. j \in Jobs
      BY <1>1 DEF Jobs
    <3>2. /\ j.pc = "check" /\ j.row = r /\ j.next = job[a].next /\ j.back = job[a].back
          /\ j.answer = job[a].answer
      BY <1>1 DEF Jobs
    <3> QED
      BY <3>1, <3>2
  <2> HIDE DEF j
  <2>3. job' \in [Procs -> Jobs] /\ PlacesOK'
    BY <1>1, <1>3, <2>1, <2>2, MoveStep
  <2>4. job'[a] = j /\ \A q \in Procs \ {a} : job'[q] = job[q]
    BY <1>1, <2>1
  <2>5. locked'[r] = a /\ \A q \in Requests \ {r} : locked'[q] = locked[q]
    BY <2>1 DEF IInv, Types
  <2>6. Types'
    BY <1>2, <2>1, <2>3 DEF IInv, Types
  <2>7. RejectsOK'
    BY <1>1, <1>2, <2>4, RejectsKept DEF IInv
  <2>8. \A q \in Requests : Mailers(q)' = Mailers(q) /\ Mailers(q) \subseteq Approvers \ {a}
    BY <1>1, <1>2, <1>3, <2>4 DEF Mailers
  <2>9. \A b \in Approvers \ {a} : (Running(b)' <=> Running(b)) /\ (Died(b)' <=> Died(b))
    BY <1>1, <2>4 DEF Running, Died
  <2>10. LocksOK'
    <3>1. Running(a)' /\ status'[r] = "pending"
      BY <1>2, <1>5, <2>2, <2>4 DEF Running, Decidable
    <3>2. \A b \in Approvers : Running(b)' =>
              job'[b].row \in Requests /\ locked'[job'[b].row] = b
                                       /\ status'[job'[b].row] = "pending"
      <4>1. \A b \in Approvers \ {a} : Running(b) => job[b].row # r
        BY <1>2, SendingAssumption DEF IInv, LocksOK
      <4> QED
        BY <1>1, <1>2, <2>2, <2>4, <2>5, <2>9, <3>1, <4>1 DEF IInv, LocksOK
    <3>3. \A q \in Requests, b \in Approvers :
              locked'[q] = b => Running(b)' /\ job'[b].row = q
      BY <1>1, <1>4, <2>2, <2>4, <2>5, <2>9, <3>1 DEF IInv, LocksOK
    <3>4. \A q \in Requests : status'[q] = "pending" =>
              \A b \in Mailers(q)' : Died(b)' \/ locked'[q] = b
      BY <1>2, <2>5, <2>8, <2>9, SendingAssumption DEF IInv, LocksOK
    <3>5. \A q \in Requests : status'[q] = "none" => Mailers(q)' = {}
      BY <1>2, <2>8 DEF IInv, LocksOK
    <3>6. \A q \in Requests : job'[q].pc \in {"new", "claim", "check"} => status'[q] = "none"
      BY <1>1, <1>2, <2>4 DEF IInv, LocksOK
    <3> QED
      BY <3>2, <3>3, <3>4, <3>5, <3>6 DEF LocksOK
  <2>11. EmailsOK'
    BY <1>1, <1>2, <1>3, <2>2, <2>4 DEF IInv, EmailsOK
  <2>12. DecisionsTrue'
    BY <1>2, <2>8, <2>9 DEF IInv, DecisionsTrue
  <2> QED
    BY <2>3, <2>6, <2>7, <2>10, <2>11, <2>12 DEF IInv
<1>6. CASE ~Decidable(r)
  <2>1. Answer(a, "already") /\ locked' = locked
    BY <1>6 DEF Approve
  <2>2. PICK j \in Jobs : /\ job' = [job EXCEPT ![a] = j] /\ j.pc = "done"
                          /\ j.row = job[a].row /\ j.next = 1 /\ j.back = 0
    BY <1>1, <2>1, AnswerFacts DEF Answers
  <2>3. job' \in [Procs -> Jobs] /\ PlacesOK'
    BY <1>1, <1>3, <2>2, MoveStep
  <2>4. job'[a] = j /\ \A q \in Procs \ {a} : job'[q] = job[q]
    BY <1>1, <2>2
  <2>5. Types'
    BY <1>2, <2>1, <2>3 DEF IInv, Types
  <2>6. RejectsOK'
    BY <1>1, <1>2, <2>4, RejectsKept DEF IInv
  <2>7. \A q \in Requests : Mailers(q)' = Mailers(q) /\ Mailers(q) \subseteq Approvers \ {a}
    BY <1>1, <1>2, <1>3, <2>4 DEF Mailers
  <2>8. \A b \in Approvers \ {a} : (Running(b)' <=> Running(b)) /\ (Died(b)' <=> Died(b))
    BY <1>1, <2>4 DEF Running, Died
  <2>9. ~Running(a)'
    BY <2>2, <2>4 DEF Running
  <2>10. LocksOK'
    BY <1>1, <1>2, <1>3, <2>1, <2>4, <2>7, <2>8, <2>9 DEF IInv, LocksOK
  <2>11. EmailsOK'
    BY <1>1, <1>2, <2>2, <2>4 DEF IInv, EmailsOK
  <2>12. DecisionsTrue'
    BY <1>2, <2>7, <2>8 DEF IInv, DecisionsTrue
  <2> QED
    BY <2>3, <2>5, <2>6, <2>10, <2>11, <2>12 DEF IInv
<1> QED
  BY <1>5, <1>6

\* A call of approve ends with its commit, or dies and its transaction rolls back.
LEMMA ApproverEnds ==
    ASSUME IInv, NEW a \in Approvers, Running(a), NEW answer \in Answers, Answer(a, answer),
           left' = left, unsure' = unsure, slot' = slot, overlap' = overlap,
           faults' \in 0 .. MaxFaults,
           locked' = [r \in Requests |-> IF locked[r] = a THEN None ELSE locked[r]],
           \/ status' = status /\ answer = "died"
           \/ /\ answer = "decided"
              /\ \/ job[a].pc = "ok" /\ status' = [status EXCEPT ![job[a].row] = "sent"]
                 \/ job[a].pc = "fail" /\ status' = [status EXCEPT ![job[a].row] = "failed"]
    PROVE  IInv'
<1>1. /\ Shape /\ a \in Procs /\ a \in Senders /\ a \notin Requests /\ a \notin Rejecters
      /\ Requests \subseteq Procs /\ Rejecters \subseteq Procs /\ Approvers \subseteq Procs
      /\ job \in [Procs -> Jobs] /\ job[a] \in Jobs
  BY SendingAssumption DEF IInv, Shape, Types, Procs, Senders
<1>2. PICK r \in Requests : job[a].row = r /\ locked[r] = a /\ status[r] = "pending"
  BY DEF IInv, LocksOK
<1>3. PICK j \in Jobs : /\ job' = [job EXCEPT ![a] = j] /\ j.pc = "done" /\ j.row = r
                        /\ j.next = 1 /\ j.back = 0 /\ j.answer = answer
  BY <1>1, <1>2, AnswerFacts
<1>4. 1 \in 1 .. Quotas + 1
  BY SendingAssumption
<1>5. job' \in [Procs -> Jobs] /\ PlacesOK'
  BY <1>1, <1>3, <1>4, MoveStep
<1>6. job'[a] = j /\ \A q \in Procs \ {a} : job'[q] = job[q]
  BY <1>1, <1>3
<1>7. /\ \A q \in Requests \ {r} : status'[q] = status[q]
      /\ status'[r] \in {"pending", "sent", "failed"}
  BY <1>2 DEF IInv, Types
<1>8. \A q \in Requests : locked[q] = a => q = r
  BY <1>2 DEF IInv, LocksOK
<1>9. locked'[r] = None /\ \A q \in Requests \ {r} : locked'[q] = locked[q]
  BY <1>2, <1>8
<1>10. Types'
  <2>1. locked' \in [Requests -> Approvers \cup {None}]
    BY DEF IInv, Types
  <2>2. status' \in [Requests -> {"none", "pending", "sent", "failed", "rejected", "expired"}]
    BY <1>2 DEF IInv, Types
  <2> QED
    BY <1>5, <2>1, <2>2 DEF IInv, Types
<1>11. RejectsOK'
  BY <1>1, <1>2, <1>6, <1>7, RejectsKept DEF IInv
<1>12. \A q \in Requests : Mailers(q)' = Mailers(q) /\ Mailers(q) \subseteq Approvers
  BY <1>1, <1>2, <1>3, <1>6 DEF Mailers
<1>13. \A b \in Approvers \ {a} : (Running(b)' <=> Running(b)) /\ (Died(b)' <=> Died(b))
  BY <1>1, <1>6 DEF Running, Died
<1>14. ~Running(a)' /\ (Died(a)' <=> answer = "died")
  BY <1>3, <1>6 DEF Running, Died
<1>15. \A b \in Mailers(r) : b # a => Died(b)
  BY <1>2 DEF IInv, LocksOK
<1>16. \A q \in Requests \ {r} : a \notin Mailers(q)
  BY <1>2 DEF Mailers
<1>17. LocksOK'
  <2>1. \A b \in Approvers : Running(b)' =>
            job'[b].row \in Requests /\ locked'[job'[b].row] = b
                                     /\ status'[job'[b].row] = "pending"
    <3>1. \A b \in Approvers \ {a} : Running(b) => job[b].row # r
      BY <1>2 DEF IInv, LocksOK
    <3> QED
      BY <1>1, <1>6, <1>7, <1>9, <1>13, <1>14, <3>1 DEF IInv, LocksOK
  <2>2. \A q \in Requests, b \in Approvers :
            locked'[q] = b => Running(b)' /\ job'[b].row = q
    BY <1>1, <1>6, <1>8, <1>9, <1>13, SendingAssumption DEF IInv, LocksOK
  <2>3. \A q \in Requests : status'[q] = "pending" =>
            \A b \in Mailers(q)' : Died(b)' \/ locked'[q] = b
    <3>1. CASE answer = "died"
      BY <1>7, <1>9, <1>12, <1>13, <1>14, <1>15, <1>16, <3>1 DEF IInv, LocksOK
    <3>2. CASE answer = "decided"
      <4>1. status'[r] # "pending"
        BY <1>2, <3>2 DEF IInv, Types
      <4> QED
        BY <1>7, <1>9, <1>12, <1>13, <1>16, <4>1 DEF IInv, LocksOK
    <3> QED
      BY <3>1, <3>2
  <2>4. \A q \in Requests : status'[q] = "none" => Mailers(q)' = {}
    BY <1>7, <1>12 DEF IInv, LocksOK
  <2>5. \A q \in Requests : job'[q].pc \in {"new", "claim", "check"} => status'[q] = "none"
    BY <1>1, <1>2, <1>6, <1>7 DEF IInv, LocksOK
  <2> QED
    BY <2>1, <2>2, <2>3, <2>4, <2>5 DEF LocksOK
<1>18. EmailsOK'
  BY <1>1, <1>3, <1>6 DEF IInv, EmailsOK
<1>19. DecisionsTrue'
  <2> SUFFICES ASSUME NEW q \in Requests
               PROVE  /\ \A b, c \in Mailers(q)' : ~Died(b)' /\ ~Died(c)' => b = c
                      /\ status'[q] = "sent" => \E b \in Mailers(q)' : b \notin unsure' /\ ~Died(b)'
                      /\ status'[q] = "failed" => \A b \in Mailers(q)' : b \in unsure' \/ Died(b)'
                      /\ status'[q] = "expired" => \A b \in Mailers(q)' : Died(b)'
    BY DEF DecisionsTrue
  <2>1. CASE q # r
    BY <1>7, <1>12, <1>13, <1>16, <2>1 DEF IInv, DecisionsTrue
  <2>2. CASE q = r
    <3>1. \A b \in Mailers(r)' : b = a \/ Died(b)'
      BY <1>2, <1>12, <1>13, <1>15
    <3>2. status'[r] = "sent" => a \in Mailers(r)' /\ a \notin unsure' /\ ~Died(a)'
      <4>1. status'[r] = "sent" => job[a].pc = "ok" /\ answer = "decided"
        BY <1>2 DEF IInv, Types
      <4> QED
        BY <1>2, <1>12, <1>14, <4>1 DEF IInv, EmailsOK, Mailers
    <3>3. status'[r] = "failed" => (a \in left => a \in unsure')
      <4>1. status'[r] = "failed" => job[a].pc = "fail"
        BY <1>2 DEF IInv, Types
      <4> QED
        BY <4>1 DEF IInv, EmailsOK
    <3>4. a \in Mailers(r)' => a \in left
      BY <1>2, <1>12 DEF Mailers
    <3>5. status'[r] # "expired"
      BY <1>7
    <3> QED
      BY <2>2, <3>1, <3>2, <3>3, <3>4, <3>5
  <2> QED
    BY <2>1, <2>2
<1> QED
  BY <1>5, <1>10, <1>11, <1>17, <1>18, <1>19 DEF IInv

LEMMA CommitStep == ASSUME IInv, NEW a \in Approvers, Commit(a) PROVE IInv'
<1>1. /\ job[a].pc \in {"ok", "fail"} /\ Running(a)
      /\ Answer(a, "decided") /\ "decided" \in Answers
      /\ left' = left /\ unsure' = unsure /\ slot' = slot /\ overlap' = overlap
      /\ faults' = faults
  BY DEF Commit, Running, Answers, history
<1>2. /\ job[a].row \in Requests /\ locked[job[a].row] = a
      /\ \A r \in Requests : locked[r] = a => job[a].row = r
  BY <1>1 DEF IInv, LocksOK
<1>3. locked' = [r \in Requests |-> IF locked[r] = a THEN None ELSE locked[r]]
  BY <1>2 DEF Commit, IInv, Types
<1>4. \/ job[a].pc = "ok" /\ status' = [status EXCEPT ![job[a].row] = "sent"]
      \/ job[a].pc = "fail" /\ status' = [status EXCEPT ![job[a].row] = "failed"]
  BY <1>1 DEF Commit
<1>5. faults' \in 0 .. MaxFaults
  BY <1>1 DEF IInv, Types
<1> QED
  BY <1>1, <1>3, <1>4, <1>5, ApproverEnds

LEMMA RejectReadStep ==
    ASSUME IInv, NEW x \in Rejecters, NEW r \in Requests, RejectRead(x, r) PROVE IInv'
<1>1. /\ Shape /\ x \in Procs \ Approvers /\ x \notin Senders /\ x \notin Requests
      /\ Rejecters \subseteq Procs /\ job[x] \in Jobs
  BY SendingAssumption DEF IInv, Shape, Types, Procs, Senders
<1>2. /\ status[r] # "none" /\ slot' = slot /\ status' = status /\ locked' = locked
      /\ left' = left /\ unsure' = unsure /\ overlap' = overlap /\ faults' = faults
  BY DEF RejectRead, held, history
<1>3. PICK j \in Jobs : /\ job' = [job EXCEPT ![x] = j]
                        /\ j.pc = "decide" => j.row = r
  <2>1. CASE status[r] = "pending"
    <3> DEFINE j == [job[x] EXCEPT !.pc = "decide", !.row = r]
    <3>1. job' = [job EXCEPT ![x] = j]
      BY <2>1 DEF RejectRead
    <3>2. j \in Jobs
      BY <1>1 DEF Jobs
    <3>3. j.row = r
      BY <1>1 DEF Jobs
    <3> HIDE DEF j
    <3> QED
      BY <3>1, <3>2, <3>3
  <2>2. CASE status[r] # "pending"
    <3>1. Answer(x, "already")
      BY <2>2 DEF RejectRead
    <3>2. PICK j \in Jobs : job' = [job EXCEPT ![x] = j] /\ j.pc = "done"
      BY <1>1, <3>1, AnswerFacts DEF Answers
    <3> QED
      BY <3>2
  <2> QED
    BY <2>1, <2>2
<1>4. job' \in [Procs -> Jobs] /\ PlacesOK'
  BY <1>1, <1>3, MoveStep
<1>5. Types'
  BY <1>2, <1>4 DEF IInv, Types
<1>6. RejectsOK'
  BY <1>1, <1>2, <1>3 DEF IInv, Types, RejectsOK
<1>7. SameApprovers
  BY <1>1, <1>2, <1>3, OthersFrame DEF IInv
<1>8. Decisions'
  BY <1>2, <1>7, OthersStep
<1> QED
  BY <1>4, <1>5, <1>6, <1>8 DEF IInv, Decisions

LEMMA RejectSaveStep == ASSUME IInv, NEW x \in Rejecters, RejectSave(x) PROVE IInv'
<1>1. /\ Shape /\ x \in Procs \ Approvers /\ x \notin Senders /\ x \notin Requests
      /\ Rejecters \subseteq Procs /\ Requests \subseteq Procs
  BY SendingAssumption DEF IInv, Shape, Procs, Senders
<1>2. PICK r \in Requests : job[x].row = r /\ status[r] # "none"
  BY DEF RejectSave, IInv, RejectsOK
<1>3. /\ Answer(x, "decided") /\ locked[r] = None /\ slot' = slot /\ locked' = locked
      /\ status' = [status EXCEPT ![r] = "rejected"]
      /\ left' = left /\ unsure' = unsure /\ overlap' = overlap /\ faults' = faults
  BY <1>2 DEF RejectSave, history
<1>4. PICK j \in Jobs : job' = [job EXCEPT ![x] = j] /\ j.pc = "done"
  BY <1>1, <1>3, AnswerFacts DEF Answers
<1>5. job' \in [Procs -> Jobs] /\ PlacesOK'
  BY <1>1, <1>4, MoveStep
<1>6. Types'
  BY <1>3, <1>5 DEF IInv, Types
<1>7. RejectsOK'
  <2>1. \A y \in Rejecters : job'[y] = job[y] \/ job'[y].pc # "decide"
    BY <1>1, <1>4 DEF IInv, Types
  <2>2. \A q \in Requests : status[q] # "none" => status'[q] # "none"
    BY <1>3 DEF IInv, Types
  <2> QED
    BY <2>1, <2>2, RejectsKept DEF IInv
<1>8. SameApprovers
  BY <1>1, <1>3, <1>4, OthersFrame DEF IInv
<1>9. job'[r].pc \notin Early
  <2>1. job'[r] = job[r]
    BY <1>1, <1>2, <1>4 DEF IInv, Types
  <2> QED
    BY <1>2, <2>1 DEF IInv, LocksOK, Early
<1>10. Decisions'
  BY <1>3, <1>8, <1>9, RowStep
<1> QED
  BY <1>5, <1>6, <1>7, <1>10 DEF IInv, Decisions

LEMMA ExpireStep == ASSUME IInv, NEW r \in Requests, Expire(r) PROVE IInv'
<1>1. /\ locked[r] = None /\ status[r] = "pending" /\ slot' = slot /\ locked' = locked
      /\ status' = [status EXCEPT ![r] = "expired"] /\ job' = job
      /\ left' = left /\ unsure' = unsure /\ overlap' = overlap /\ faults' = faults
  BY DEF Expire, history
<1>2. Types'
  BY <1>1 DEF IInv, Types
<1>3. RejectsOK' /\ PlacesOK'
  BY <1>1 DEF IInv, Types, RejectsOK, PlacesOK
<1>4. SameApprovers
  BY <1>1 DEF SameApprovers
<1>5. job'[r].pc \notin Early
  BY <1>1 DEF IInv, LocksOK, Early
<1>6. Decisions'
  BY <1>1, <1>4, <1>5, RowStep
<1> QED
  BY <1>2, <1>3, <1>6 DEF IInv, Decisions

LEMMA SlotStep == ASSUME IInv, NEW t \in Tokens, SlotExpires(t) PROVE IInv'
<1>1. /\ slot' = [slot EXCEPT ![t] = None] /\ locked' = locked /\ status' = status /\ job' = job
      /\ left' = left /\ unsure' = unsure /\ overlap' = overlap /\ faults' = faults
  BY DEF SlotExpires, held, history
<1>2. Types'
  BY <1>1 DEF IInv, Types
<1>3. RejectsOK' /\ PlacesOK'
  BY <1>1 DEF IInv, RejectsOK, PlacesOK
<1>4. SameApprovers
  BY <1>1 DEF SameApprovers
<1>5. Decisions'
  BY <1>1, <1>4, OthersStep
<1> QED
  BY <1>2, <1>3, <1>5 DEF IInv, Decisions

LEMMA KillStep == ASSUME IInv, NEW p \in Procs, Kill(p) PROVE IInv'
<1>1. /\ Running(p) /\ Answer(p, "died") /\ "died" \in Answers
      /\ locked' = [r \in Requests |-> IF locked[r] = p THEN None ELSE locked[r]]
      /\ slot' = slot /\ status' = status /\ left' = left /\ unsure' = unsure
      /\ overlap' = overlap /\ faults < MaxFaults /\ faults' = faults + 1
  BY DEF Kill, Answers, history
<1>2. faults' \in 0 .. MaxFaults
  BY <1>1, SendingAssumption DEF IInv, Types
<1>3. CASE p \in Approvers
  BY <1>1, <1>2, <1>3, ApproverEnds
<1>4. CASE p \notin Approvers
  <2>1. /\ Shape /\ p \in Procs \ Approvers /\ Senders \subseteq Procs /\ Rejecters \subseteq Procs
    BY <1>4 DEF IInv, Shape, Procs
  <2>2. locked' = locked
    BY <1>1, <1>4 DEF IInv, Types
  <2>3. PICK j \in Jobs : /\ job' = [job EXCEPT ![p] = j] /\ j.pc = "done"
                          /\ j.next = 1 /\ j.back = 0
    BY <1>1, <2>1, AnswerFacts
  <2>4. 1 \in 1 .. Quotas + 1
    BY SendingAssumption
  <2>5. job' \in [Procs -> Jobs] /\ PlacesOK'
    BY <2>1, <2>3, <2>4, MoveStep
  <2>6. Types'
    BY <1>1, <1>2, <2>2, <2>5 DEF IInv, Types
  <2>7. RejectsOK'
    <3>1. \A y \in Rejecters : job'[y] = job[y] \/ job'[y].pc # "decide"
      BY <2>1, <2>3 DEF IInv, Types
    <3> QED
      BY <1>1, <3>1, RejectsKept DEF IInv
  <2>8. SameApprovers
    BY <1>1, <2>1, <2>3, OthersFrame DEF IInv, Early
  <2>9. Decisions'
    BY <1>1, <2>2, <2>8, OthersStep
  <2> QED
    BY <2>5, <2>6, <2>7, <2>9 DEF IInv, Decisions
<1> QED
  BY <1>3, <1>4

-----------------------------------------------------------------------------

LEMMA NextInv == IInv /\ [Next]_vars => IInv'
<1> SUFFICES ASSUME IInv, [Next]_vars PROVE IInv'
  OBVIOUS
<1>1. ASSUME NEW r \in Requests, Request(r) PROVE IInv'
  BY <1>1, RequestStep
<1>2. ASSUME NEW p \in Senders, Send(p) PROVE IInv'
  BY <1>2, SendStep
<1>3. CASE Decide
  <2>1. ASSUME NEW a \in Approvers, Commit(a) PROVE IInv'
    BY <2>1, CommitStep
  <2>2. ASSUME NEW a \in Approvers, NEW r \in Requests, Approve(a, r) PROVE IInv'
    BY <2>2, ApproveStep
  <2>3. ASSUME NEW x \in Rejecters, RejectSave(x) PROVE IInv'
    BY <2>3, RejectSaveStep
  <2>4. ASSUME NEW x \in Rejecters, NEW r \in Requests, RejectRead(x, r) PROVE IInv'
    BY <2>4, RejectReadStep
  <2>5. ASSUME NEW r \in Requests, Expire(r) PROVE IInv'
    BY <2>5, ExpireStep
  <2> QED
    BY <1>3, <2>1, <2>2, <2>3, <2>4, <2>5 DEF Decide
<1>4. ASSUME NEW t \in Tokens, SlotExpires(t) PROVE IInv'
  BY <1>4, SlotStep
<1>5. ASSUME NEW p \in Procs, Kill(p) PROVE IInv'
  BY <1>5, KillStep
<1>6. CASE UNCHANGED vars
  BY <1>6 DEF vars, held, history, IInv, Types, PlacesOK, RejectsOK, LocksOK, EmailsOK,
              DecisionsTrue, Mailers, Died, Running
<1> QED
  BY <1>1, <1>2, <1>3, <1>4, <1>5, <1>6 DEF Next

\* The inductive invariant: who has the lock of a held message, how far its email
\* is and what its row says agree, whatever calls of approve, reject and expire
\* meet and whatever process dies.
THEOREM Invariant == Spec => []IInv
  BY InitInv, NextInv, PTL DEF Spec

\* A held message leaves once, and its row says what happened, for any number of
\* concurrent calls of approve.
THEOREM DecisionsTrueAlways == Spec => []DecisionsTrue
<1>1. IInv => DecisionsTrue
  BY DEF IInv
<1> QED
  BY <1>1, Invariant, PTL

-----------------------------------------------------------------------------
(* The Idempotency-Key: RepeatTrue and SequentialRetriesSafe.               *)

\* How far a request is tells whether its message went out or is held: not before
\* the relay answered or the row was made, and not after a refusal, unless the
\* relay's reply was lost.
Try(r) ==
    /\ job[r].pc # "decide"
    /\ job[r].pc = "done" <=> job[r].answer # "none"
    /\ job[r].answer \in {"none", "accepted", "refused", "repeat", "mismatch", "busy", "died"}
    /\ \/ job[r].pc \in {"new", "claim", "check", "take", "untake", "relay"}
       \/ job[r].answer \in {"repeat", "mismatch", "busy"}
       => r \notin left /\ status[r] = "none"
    /\ job[r].pc \in {"refund", "fail"} \/ job[r].answer = "refused"
       => (r \in left => r \in unsure) /\ status[r] = "none"

\* An answer in a slot, and a repeated one, is the answer some request got.
Stands ==
    /\ \A t \in Tokens : slot[t] # None /\ slot[t].state = "done" =>
          \E q \in Requests : Message[q] = slot[t].message /\ job[q].answer = "accepted"
    /\ \A r \in Requests : job[r].answer = "repeat" =>
          \E q \in Requests : Message[q] = Message[r] /\ job[q].answer = "accepted"

\* Requests of a key that did not overlap: one runs at a time, none runs after one
\* was accepted, and its answer stays in the slot.
InTurn ==
    \A q, r \in Requests : Key(q) = Key(r) /\ Key(r) \notin overlap =>
        /\ Running(q) /\ Running(r) => q = r
        /\ Running(q) => job[r].answer # "accepted"
        /\ job[q].answer = "accepted" /\ job[r].answer = "accepted" => q = r
        /\ job[r].answer = "accepted" => slot[Key(r)] # None /\ slot[Key(r)].state = "done"

Retried == (\A r \in Requests : Try(r)) /\ Stands /\ InTurn

LEMMA RetriedInit == Init => Retried
BY DEF Init, NewJob, Retried, Try, Stands, InTurn, Running, Tokens, Messages, Procs, Senders, Key

\* What everybody else does leaves the requests as they are.
LEMMA Bystander ==
    ASSUME Retried, slot' = slot, overlap' = overlap,
           \A r \in Requests :
               /\ job'[r] = job[r]
               /\ r \in left' <=> r \in left
               /\ r \in unsure' <=> r \in unsure
               /\ status'[r] = "none" <=> status[r] = "none"
    PROVE  Retried'
<1>1. \A r \in Requests : Try(r)'
  BY DEF Retried, Try
<1>2. Stands'
  BY DEF Retried, Stands
<1>3. InTurn'
  BY DEF Retried, InTurn, Running, Key
<1> QED
  BY <1>1, <1>2, <1>3 DEF Retried

\* A request that goes on without touching its slot.
LEMMA GoesOn ==
    ASSUME Retried, NEW r \in Requests, Running(r), Running(r)',
           job'[r].answer = job[r].answer,
           \A q \in Requests \ {r} :
               /\ job'[q] = job[q] /\ status'[q] = status[q]
               /\ q \in left' <=> q \in left
               /\ q \in unsure' <=> q \in unsure,
           slot' = slot, overlap' = overlap, Try(r)'
    PROVE  Retried'
<1>1. \A q \in Requests : Try(q)'
  BY DEF Retried, Try
<1>2. \A q \in Requests : (Running(q)' <=> Running(q)) /\ job'[q].answer = job[q].answer
  BY DEF Running
<1>3. Stands'
  BY <1>2 DEF Retried, Stands
<1>4. InTurn'
  BY <1>2 DEF Retried, InTurn, Key
<1> QED
  BY <1>1, <1>3, <1>4 DEF Retried

LEMMA SendRetried ==
    ASSUME IInv, Retried, NEW r \in Requests, Send(r)
    PROVE  Retried'
<1>1. PICK j \in Jobs : Flow(r, j)
  BY SendFlow DEF Senders
<1>2. /\ r \in Procs /\ Requests \subseteq Procs /\ job \in [Procs -> Jobs]
      /\ left \in SUBSET Senders /\ unsure \in SUBSET left
  BY DEF IInv, Types, Procs, Senders
<1>3. /\ job'[r] = j /\ \A q \in Requests \ {r} : job'[q] = job[q]
      /\ slot' = slot /\ status' = status /\ overlap' = overlap
  BY <1>1, <1>2 DEF Flow
<1>4. \A q \in Requests \ {r} : (q \in left' <=> q \in left) /\ (q \in unsure' <=> q \in unsure)
  BY <1>1, <1>2 DEF Flow
<1>5. Running(r) /\ Running(r)'
  BY <1>1, <1>3 DEF Flow, Running
<1>6. Try(r)'
  <2>1. Try(r)
    BY DEF Retried
  <2>2. job[r].answer = "none" /\ j.answer = "none"
    BY <1>1, <2>1 DEF Flow, Try
  <2>3. j.pc \in {"take", "untake", "relay"} => r \notin left' /\ status[r] = "none"
    BY <1>1, <2>1 DEF Flow, Try
  <2>4. j.pc \in {"refund", "fail"} => (r \in left' => r \in unsure') /\ status[r] = "none"
    BY <1>1, <2>1 DEF Flow, Try
  <2> QED
    BY <1>1, <1>3, <2>2, <2>3, <2>4 DEF Flow, Try
<1> QED
  BY <1>1, <1>3, <1>4, <1>5, <1>6, GoesOn DEF Flow

\* The job of a request, before and after a step of its own.
LEMMA OwnStep ==
    ASSUME IInv, NEW r \in Requests, NEW pc \in Pcs, NEW answer \in Answers,
           Goto(r, pc) \/ Answer(r, answer)
    PROVE  /\ \A q \in Requests \ {r} : job'[q] = job[q]
           /\ Goto(r, pc) => job'[r].pc = pc /\ job'[r].answer = job[r].answer
           /\ Answer(r, answer) => job'[r].pc = "done" /\ job'[r].answer = answer
           /\ Key(r) \in Tokens /\ Message[r] \in Messages
<1>1. r \in Procs /\ Requests \subseteq Procs /\ Shape
  BY DEF IInv, Shape, Procs, Senders
<1>2. job \in [Procs -> Jobs]
  BY DEF IInv, Types
<1>3. Key(r) \in Tokens /\ Message[r] \in Messages
  BY DEF Key, Tokens, Messages
<1>4. \A q \in Requests \ {r} : job'[q] = job[q]
  BY <1>1, <1>2 DEF Goto, Answer
<1>5. ASSUME Goto(r, pc) PROVE job'[r].pc = pc /\ job'[r].answer = job[r].answer
  BY <1>1, <1>2, <1>5, GotoFacts
<1>6. ASSUME Answer(r, answer) PROVE job'[r].pc = "done" /\ job'[r].answer = answer
  BY <1>1, <1>2, <1>6, AnswerFacts
<1> QED
  BY <1>3, <1>4, <1>5, <1>6

\* The first of a key that looks finds nothing: nobody was accepted under it; if
\* another runs, the two overlap.
LEMMA FreshRetried ==
    ASSUME IInv, Retried, NEW r \in Requests, Fresh(r)
    PROVE  Retried'
<1>1. /\ job[r].pc = "new" /\ slot[Key(r)] = None /\ Goto(r, "claim") /\ "claim" \in Pcs
      /\ UNCHANGED <<slot, left, unsure, status>>
      /\ overlap' = IF \E q \in Requests : Running(q) /\ Key(q) = Key(r)
                    THEN overlap \cup {Key(r)} ELSE overlap
  BY DEF Fresh, Begins, Pcs, held, history
<1>2. /\ \A q \in Requests \ {r} : job'[q] = job[q]
      /\ job'[r].pc = "claim" /\ job'[r].answer = job[r].answer
  BY <1>1, OwnStep DEF Answers
<1>3. \A q \in Requests : Try(q)'
  BY <1>1, <1>2 DEF Retried, Try
<1>4. \A q \in Requests : job'[q].answer = job[q].answer
  BY <1>2
<1>5. Stands'
  BY <1>1, <1>4 DEF Retried, Stands
<1>6. InTurn'
  <2> SUFFICES ASSUME NEW q \in Requests, NEW s \in Requests,
                      Key(q) = Key(s), Key(s) \notin overlap'
               PROVE  InTurn!(q, s)!2'
    BY DEF InTurn, Key
  <2>1. Key(s) \notin overlap /\ InTurn!(q, s)!2 /\ InTurn!(s, q)!2
    BY <1>1 DEF Retried, InTurn
  <2>2. \A u \in Requests \ {r} : Running(u)' <=> Running(u)
    BY <1>2 DEF Running
  <2>3. Key(s) = Key(r) => ~Running(q) /\ ~Running(s) /\ job[s].answer # "accepted"
    BY <1>1, <2>1
  <2> QED
    BY <1>1, <1>2, <1>4, <2>1, <2>2, <2>3 DEF Key
<1> QED
  BY <1>3, <1>5, <1>6 DEF Retried

\* A request that is answered at once sends nothing; what it repeats was said.
LEMMA AnsweredRetried ==
    ASSUME IInv, Retried, NEW r \in Requests, Answered(r)
    PROVE  Retried'
<1>1. PICK answer \in {"repeat", "mismatch", "busy"} :
        Answer(r, answer) /\ (answer = "repeat" => Repeats(r))
  BY DEF Answered
<1>2. /\ job[r].pc = "new" /\ slot[Key(r)] # None
      /\ UNCHANGED <<slot, left, unsure, status>>
      /\ overlap' \in {overlap, overlap \cup {Key(r)}}
  BY DEF Answered, Begins, held, history
<1>3. /\ \A q \in Requests \ {r} : job'[q] = job[q]
      /\ job'[r].pc = "done" /\ job'[r].answer = answer
      /\ Key(r) \in Tokens
  BY <1>1, OwnStep DEF Answers, Pcs
<1>4. Try(r) /\ job[r].answer = "none"
  BY <1>2 DEF Retried, Try
<1>5. \A q \in Requests : Try(q)'
  BY <1>2, <1>3, <1>4 DEF Retried, Try
<1>6. \A q \in Requests : job'[q].answer = "accepted" <=> job[q].answer = "accepted"
  BY <1>3, <1>4
<1>7. Stands'
  <2>1. ASSUME NEW s \in Requests, job'[s].answer = "repeat"
        PROVE  \E q \in Requests : Message[q] = Message[s] /\ job'[q].answer = "accepted"
    <3>1. CASE s = r
      <4>1. slot[Key(r)].message = Message[r] /\ slot[Key(r)].state = "done"
        BY <1>1, <1>3, <2>1, <3>1 DEF Repeats
      <4> QED
        BY <1>2, <1>3, <1>6, <3>1, <4>1 DEF Retried, Stands
    <3>2. CASE s # r
      BY <1>3, <1>6, <2>1, <3>2 DEF Retried, Stands
    <3> QED
      BY <3>1, <3>2
  <2> QED
    BY <1>2, <1>6, <2>1 DEF Retried, Stands
<1>8. \A q \in Requests : Running(q)' => Running(q)
  BY <1>3 DEF Running
<1>9. InTurn'
  BY <1>2, <1>6, <1>8 DEF Retried, InTurn, Key
<1> QED
  BY <1>5, <1>7, <1>9 DEF Retried

\* Claiming the slot overwrites no answer unless requests overlapped.
LEMMA ClaimSlotRetried ==
    ASSUME IInv, Retried, NEW r \in Requests, ClaimSlot(r)
    PROVE  Retried'
<1>1. /\ job[r].pc = "claim" /\ Goto(r, "check") /\ "check" \in Pcs
      /\ slot' = [slot EXCEPT ![Key(r)] = [state |-> "pending", message |-> Message[r]]]
      /\ UNCHANGED <<left, unsure, status, overlap>>
  BY DEF ClaimSlot, Pcs, held, history
<1>2. /\ \A q \in Requests \ {r} : job'[q] = job[q]
      /\ job'[r].pc = "check" /\ job'[r].answer = job[r].answer
      /\ Key(r) \in Tokens
  BY <1>1, OwnStep DEF Answers
<1>3. \A q \in Requests : Try(q)'
  BY <1>1, <1>2 DEF Retried, Try
<1>4. \A q \in Requests : (Running(q)' <=> Running(q)) /\ job'[q].answer = job[q].answer
  BY <1>1, <1>2 DEF Running
<1>5. DOMAIN slot = Tokens
  BY DEF IInv, Types
<1>6. /\ slot'[Key(r)] = [state |-> "pending", message |-> Message[r]]
      /\ \A t \in Tokens \ {Key(r)} : slot'[t] = slot[t]
  BY <1>1, <1>2, <1>5
<1>7. Stands'
  BY <1>4, <1>6 DEF Retried, Stands
<1>8. InTurn'
  <2>1. Running(r)
    BY <1>1 DEF Running
  <2>2. \A q \in Requests : Key(q) \in Tokens
    BY DEF Key, Tokens, Messages
  <2> QED
    BY <1>1, <1>4, <1>6, <2>1, <2>2 DEF Retried, InTurn, Key
<1> QED
  BY <1>3, <1>7, <1>8 DEF Retried

LEMMA HoldRetried ==
    ASSUME IInv, Retried, NEW r \in Requests, Hold(r)
    PROVE  Retried'
<1>1. /\ job[r].pc = "check" /\ Goto(r, "ok") /\ "ok" \in Pcs
      /\ status' = [status EXCEPT ![r] = "pending"]
      /\ UNCHANGED <<slot, left, unsure, overlap>>
  BY DEF Hold, Pcs, history
<1>2. /\ \A q \in Requests \ {r} : job'[q] = job[q]
      /\ job'[r].pc = "ok" /\ job'[r].answer = job[r].answer
  BY <1>1, OwnStep DEF Answers
<1>3. \A q \in Requests \ {r} : status'[q] = status[q]
  BY <1>1 DEF IInv, Types
<1>4. Try(r)'
  BY <1>1, <1>2 DEF Retried, Try
<1>5. Running(r) /\ Running(r)'
  BY <1>1, <1>2 DEF Running
<1> QED
  BY <1>1, <1>2, <1>3, <1>4, <1>5, GoesOn

\* Being accepted: the answer stands in the slot, and unless requests overlapped
\* nobody else was accepted or runs.
LEMMA SucceedRetried ==
    ASSUME IInv, Retried, NEW r \in Requests, Succeed(r)
    PROVE  Retried'
<1>1. /\ job[r].pc = "ok" /\ Answer(r, "accepted")
      /\ slot' = [slot EXCEPT ![Key(r)] = [state |-> "done", message |-> Message[r]]]
      /\ UNCHANGED <<left, unsure, status, overlap>>
  BY DEF Succeed, Stored, held, history
<1>2. /\ \A q \in Requests \ {r} : job'[q] = job[q]
      /\ job'[r].pc = "done" /\ job'[r].answer = "accepted"
      /\ Key(r) \in Tokens
  BY <1>1, OwnStep DEF Answers, Pcs
<1>3. \A q \in Requests : Try(q)'
  BY <1>1, <1>2 DEF Retried, Try
<1>4. DOMAIN slot = Tokens
  BY DEF IInv, Types
<1>5. /\ slot'[Key(r)] = [state |-> "done", message |-> Message[r]]
      /\ \A t \in Tokens \ {Key(r)} : slot'[t] = slot[t]
  BY <1>1, <1>2, <1>4
<1>6. Running(r) /\ job[r].answer = "none" /\ ~Running(r)'
  BY <1>1, <1>2 DEF Running, Retried, Try
<1>7. \A q \in Requests : job[q].answer = "accepted" => job'[q].answer = "accepted"
  BY <1>2
<1>8. Stands'
  <2>1. \A t \in Tokens : slot'[t] # None /\ slot'[t].state = "done" =>
            \E q \in Requests : Message[q] = slot'[t].message /\ job'[q].answer = "accepted"
    BY <1>2, <1>5, <1>7 DEF Retried, Stands
  <2>2. \A s \in Requests : job'[s].answer = "repeat" => job[s].answer = "repeat"
    BY <1>2
  <2> QED
    BY <1>7, <2>1, <2>2 DEF Retried, Stands
<1>9. InTurn'
  <2> SUFFICES ASSUME NEW q \in Requests, NEW s \in Requests,
                      Key(q) = Key(s), Key(s) \notin overlap'
               PROVE  InTurn!(q, s)!2'
    BY DEF InTurn, Key
  <2>1. /\ Key(s) \notin overlap /\ InTurn!(q, s)!2 /\ InTurn!(s, q)!2
        /\ Key(s) = Key(r) => InTurn!(r, s)!2 /\ InTurn!(s, r)!2 /\ InTurn!(r, q)!2 /\ InTurn!(q, r)!2
    BY <1>1 DEF Retried, InTurn
  <2>2. \A u \in Requests \ {r} : Running(u)' <=> Running(u)
    BY <1>2 DEF Running
  <2>3. Key(s) \in Tokens /\ slot'[Key(r)] # None
    <3>1. Message[r] \in Messages /\ Key(s) \in Tokens
      BY DEF Key, Tokens, Messages
    <3>2. [state |-> "done", message |-> Message[r]] # None
      BY <3>1, SendingAssumption
    <3> QED
      BY <1>5, <3>1, <3>2
  <2>4. Key(s) = Key(r) => /\ q # r => ~Running(q) /\ job[q].answer # "accepted"
                           /\ s # r => ~Running(s) /\ job[s].answer # "accepted"
    BY <1>6, <2>1
  <2> QED
    BY <1>2, <1>5, <1>6, <2>1, <2>2, <2>3, <2>4 DEF Key
<1> QED
  BY <1>3, <1>8, <1>9 DEF Retried

\* A request that is refused empties the slot: nobody was accepted under it.
LEMMA FailRetried ==
    ASSUME IInv, Retried, NEW r \in Requests, Fail(r)
    PROVE  Retried'
<1>1. /\ job[r].pc = "fail" /\ Answer(r, "refused")
      /\ slot' = [slot EXCEPT ![Key(r)] = None]
      /\ UNCHANGED <<left, unsure, status, overlap>>
  BY DEF Fail, held, history
<1>2. /\ \A q \in Requests \ {r} : job'[q] = job[q]
      /\ job'[r].pc = "done" /\ job'[r].answer = "refused"
      /\ Key(r) \in Tokens
  BY <1>1, OwnStep DEF Answers, Pcs
<1>3. \A q \in Requests : Try(q)'
  BY <1>1, <1>2 DEF Retried, Try
<1>4. Running(r) /\ job[r].answer = "none" /\ ~Running(r)'
  BY <1>1, <1>2 DEF Running, Retried, Try
<1>5. /\ \A q \in Requests : Running(q)' => Running(q)
      /\ \A q \in Requests : job'[q].answer = "accepted" <=> job[q].answer = "accepted"
      /\ \A q \in Requests : job'[q].answer = "repeat" <=> job[q].answer = "repeat"
  BY <1>2, <1>4 DEF Running
<1>6. /\ slot'[Key(r)] = None /\ \A t \in Tokens \ {Key(r)} : slot'[t] = slot[t]
      /\ \A q \in Requests : Key(q) \in Tokens
  BY <1>1, <1>2 DEF IInv, Types, Key, Tokens, Messages
<1>7. Stands'
  BY <1>5, <1>6 DEF Retried, Stands
<1>8. InTurn'
  BY <1>1, <1>4, <1>5, <1>6 DEF Retried, InTurn, Key
<1> QED
  BY <1>3, <1>7, <1>8 DEF Retried

\* A pending slot that expires holds no answer.
LEMMA SlotRetried ==
    ASSUME IInv, Retried, NEW t \in Tokens, SlotExpires(t)
    PROVE  Retried'
<1>1. /\ slot[t].state = "pending" /\ slot' = [slot EXCEPT ![t] = None]
      /\ UNCHANGED <<job, left, unsure, status, overlap>>
  BY DEF SlotExpires, held, history
<1>2. slot'[t] = None /\ \A u \in Tokens \ {t} : slot'[u] = slot[u]
  BY <1>1 DEF IInv, Types
<1>3. \A q \in Requests : Try(q)'
  BY <1>1 DEF Retried, Try
<1>4. Stands'
  BY <1>1, <1>2 DEF Retried, Stands
<1>5. \A q \in Requests : Key(q) \in Tokens
  BY DEF Key, Tokens, Messages
<1>6. InTurn'
  BY <1>1, <1>2, <1>5 DEF Retried, InTurn, Running, Key
<1> QED
  BY <1>3, <1>4, <1>6 DEF Retried

\* A request whose process died was not accepted, and runs no more.
LEMMA KillRetried ==
    ASSUME IInv, Retried, NEW p \in Procs, Kill(p)
    PROVE  Retried'
<1>1. /\ Running(p) /\ Answer(p, "died")
      /\ UNCHANGED <<slot, left, unsure, status, overlap>>
  BY DEF Kill, history
<1>2. CASE p \in Requests
  <2>1. /\ \A q \in Requests \ {p} : job'[q] = job[q]
        /\ job'[p].pc = "done" /\ job'[p].answer = "died"
    BY <1>1, <1>2, OwnStep DEF Answers, Pcs
  <2>2. job[p].answer = "none" /\ ~Running(p)'
    BY <1>1, <1>2, <2>1 DEF Running, Retried, Try
  <2>3. \A q \in Requests : Try(q)'
    BY <1>1, <1>2, <2>1 DEF Retried, Try
  <2>4. /\ \A q \in Requests : Running(q)' => Running(q)
        /\ \A q \in Requests : job'[q].answer = "accepted" <=> job[q].answer = "accepted"
        /\ \A q \in Requests : job'[q].answer = "repeat" <=> job[q].answer = "repeat"
    BY <2>1, <2>2 DEF Running
  <2>5. Stands'
    BY <1>1, <2>4 DEF Retried, Stands
  <2>6. InTurn'
    BY <1>1, <2>4 DEF Retried, InTurn, Key
  <2> QED
    BY <2>3, <2>5, <2>6 DEF Retried
<1>3. CASE p \notin Requests
  <2>1. \A q \in Requests : job'[q] = job[q]
    BY <1>1, <1>3 DEF Answer, IInv, Types, Procs, Senders
  <2> QED
    BY <1>1, <2>1, Bystander
<1> QED
  BY <1>2, <1>3

\* Those who approve and reject touch no request and no slot, and a row they decide
\* on was there and stays.
LEMMA DecideRetried ==
    ASSUME IInv, Retried, NEW p \in Approvers \cup Rejecters,
           \/ p \in Approvers /\ (Send(p) \/ Commit(p) \/ \E r \in Requests : Approve(p, r))
           \/ p \in Rejecters /\ (RejectSave(p) \/ \E r \in Requests : RejectRead(p, r))
    PROVE  Retried'
<1>1. /\ p \in Procs /\ p \notin Requests /\ Requests \subseteq Procs
      /\ job \in [Procs -> Jobs]
      /\ status \in [Requests -> {"none", "pending", "sent", "failed", "rejected", "expired"}]
  BY SendingAssumption DEF IInv, Types, Procs, Senders
<1>2. CASE p \in Approvers /\ Send(p)
  <2>1. PICK j \in Jobs : Flow(p, j)
    BY <1>2, SendFlow DEF Senders
  <2> QED
    BY <1>1, <2>1, Bystander DEF Flow
<1>3. CASE p \in Approvers /\ Commit(p)
  <2>1. job[p].row \in Requests /\ status[job[p].row] = "pending"
    BY <1>3 DEF Commit, Running, IInv, LocksOK
  <2>2. \A q \in Requests : job'[q] = job[q] /\ (status'[q] = "none" <=> status[q] = "none")
    BY <1>1, <1>3, <2>1 DEF Commit, Answer
  <2> QED
    BY <1>3, <2>2, Bystander DEF Commit, history
<1>4. ASSUME NEW r \in Requests, Approve(p, r) PROVE Retried'
  <2>1. \A q \in Requests : job'[q] = job[q]
    BY <1>1, <1>4 DEF Approve, Answer
  <2> QED
    BY <1>4, <2>1, Bystander DEF Approve, history
<1>5. CASE p \in Rejecters /\ RejectSave(p)
  <2>1. job[p].row \in Requests /\ status[job[p].row] # "none"
    BY <1>5 DEF RejectSave, IInv, RejectsOK
  <2>2. \A q \in Requests : job'[q] = job[q] /\ (status'[q] = "none" <=> status[q] = "none")
    BY <1>1, <1>5, <2>1 DEF RejectSave, Answer
  <2> QED
    BY <1>5, <2>2, Bystander DEF RejectSave, history
<1>6. ASSUME NEW r \in Requests, RejectRead(p, r) PROVE Retried'
  <2>1. \A q \in Requests : job'[q] = job[q]
    BY <1>1, <1>6 DEF RejectRead, Answer
  <2> QED
    BY <1>6, <2>1, Bystander DEF RejectRead, held, history
<1> QED
  BY <1>2, <1>3, <1>4, <1>5, <1>6

LEMMA ExpireRetried ==
    ASSUME IInv, Retried, NEW r \in Requests, Expire(r)
    PROVE  Retried'
<1>1. \A q \in Requests : status'[q] = "none" <=> status[q] = "none"
  BY DEF Expire, IInv, Types
<1> QED
  BY <1>1, Bystander DEF Expire, history

\* One step per action.
LEMMA RetriedNext == IInv /\ Retried /\ [Next]_vars => Retried'
<1> SUFFICES ASSUME IInv, Retried, [Next]_vars PROVE Retried'
  OBVIOUS
<1>1. ASSUME NEW r \in Requests, Request(r) PROVE Retried'
  BY <1>1, FreshRetried, AnsweredRetried, ClaimSlotRetried, HoldRetried, SucceedRetried,
     FailRetried DEF Request
<1>2. ASSUME NEW p \in Senders, Send(p) PROVE Retried'
  BY <1>2, SendRetried, DecideRetried DEF Senders
<1>3. CASE Decide
  BY <1>3, DecideRetried, ExpireRetried DEF Decide
<1>4. CASE UNCHANGED vars
  BY <1>4, Bystander DEF vars, held, history
<1> QED
  BY <1>1, <1>2, <1>3, <1>4, SlotRetried, KillRetried DEF Next

LEMMA RetriedAlways == Spec => []Retried
BY RetriedInit, RetriedNext, Invariant, PTL DEF Spec

\* A repeated answer is the one a request with this very message was given, however
\* requests, expiries and failures interleave.
THEOREM RepeatTrueAlways == Spec => []RepeatTrue
<1>1. Retried => RepeatTrue
  BY DEF Retried, Stands, RepeatTrue
<1> QED
  BY <1>1, RetriedAlways, PTL

\* A client that waits for each answer sends its message once, for any number of
\* tries, keys and messages, unless a reply was lost or a process died.
THEOREM SequentialRetriesSafeAlways == Spec => []SequentialRetriesSafe
<1>1. ASSUME IInv, Retried PROVE SequentialRetriesSafe
  <2> SUFFICES ASSUME NEW t \in Tokens \ overlap PROVE Cardinality(Accepted(t)) <= 1
    BY DEF SequentialRetriesSafe
  <2>1. ASSUME NEW r \in Accepted(t)
        PROVE  r \in Requests /\ Key(r) = t /\ (Running(r) \/ job[r].answer = "accepted")
    <3>1. /\ r \in Requests /\ Key(r) = t /\ (r \in left \/ status[r] # "none")
          /\ job[r].answer # "died" /\ r \notin unsure
      BY <2>1 DEF Accepted, Died
    <3>2. Try(r)
      BY <3>1, <1>1 DEF Retried
    <3> QED
      BY <3>1, <3>2 DEF Try, Running
  <2>2. \A q, r \in Accepted(t) : q = r
    BY <1>1, <2>1 DEF Retried, InTurn
  <2>3. CASE Accepted(t) = {}
    BY <2>3, FS_EmptySet
  <2>4. CASE Accepted(t) # {}
    <3>1. PICK r \in Accepted(t) : Accepted(t) = {r}
      BY <2>2, <2>4
    <3> QED
      BY <3>1, FS_Singleton
  <2> QED
    BY <2>3, <2>4
<1> QED
  BY <1>1, Invariant, RetriedAlways, PTL

-----------------------------------------------------------------------------
(* The quotas: QuotaHolds and QuotaExact.                                   *)

\* What every sender would add to a counter, the senders whose amount it has, and
\* those of them whom it has room for: a send that passed the limit is not.
Weights(c) == [q \in Senders |-> IF Carries(q) \in Messages THEN Adds(q, c) ELSE 0]

InUse(c) == (left \ unsure) \cup {p \in Senders : Holding(p, c)}

Kept(c) == (left \ unsure) \cup {p \in Senders : Holding(p, c) /\ c < job[p].next}

\* A sender at the relay has all its counters, one that fails none.
Full(p) ==
    /\ job[p].pc = "relay" => job[p].next = Quotas + 1
    /\ job[p].pc = "fail" => job[p].next <= job[p].back + 1
    /\ p \in Approvers /\ p \in left => job[p].row \in Requests

\* Each counter is the sum of what its senders have and of what is lost in it, and
\* has room for those who did not pass its limit.
Counted ==
    /\ used \in [Counters -> Int] /\ leaked \in [Counters -> Nat]
    /\ \A p \in Senders : Full(p)
    /\ \A c \in Counters :
          /\ used[c] = Cardinality(Spots(Weights(c), InUse(c))) + leaked[c]
          /\ Cardinality(Spots(Weights(c), Kept(c))) <= Limit[c]

LEMMA Weighted ==
    ASSUME Types, NEW c \in Counters
    PROVE  /\ Weights(c) \in [Senders -> Nat] /\ IsFiniteSet(Senders)
           /\ InUse(c) \in SUBSET Senders /\ Kept(c) \in SUBSET InUse(c)
<1>1. IsFiniteSet(Senders)
  BY SendingAssumption, FS_Union DEF Senders
<1>2. \A q \in Senders : Carries(q) \in Messages => Adds(q, c) \in Nat
  BY SendingAssumption DEF Adds
<1>3. Weights(c) \in [Senders -> Nat]
  BY <1>2 DEF Weights
<1> QED
  BY <1>1, <1>3 DEF InUse, Kept, Types

LEMMA InitCounted == Init => Counted
<1> SUFFICES ASSUME Init PROVE Counted
  OBVIOUS
<1>1. used \in [Counters -> Int] /\ leaked \in [Counters -> Nat]
  BY DEF Init
<1>2. \A p \in Senders : job[p].pc = "new" /\ ~Running(p) /\ p \notin left
  BY DEF Init, NewJob, Procs, Running
<1>3. \A c \in Counters : InUse(c) = {} /\ Kept(c) = {}
  BY <1>2 DEF InUse, Kept, Holding, Init
<1>4. \A n : Spots(n, {}) = {}
  BY DEF Spots
<1>5. Cardinality({}) = 0
  BY FS_EmptySet
<1>6. \A c \in Counters : Cardinality(Spots(Weights(c), InUse(c))) = 0
                          /\ Cardinality(Spots(Weights(c), Kept(c))) = 0
  BY <1>3, <1>4, <1>5
<1>7. \A c \in Counters : used[c] = 0 /\ leaked[c] = 0 /\ Limit[c] \in Nat
  BY SendingAssumption DEF Init
<1>8. \A p \in Senders : Full(p)
  BY <1>2 DEF Full
<1> QED
  BY <1>1, <1>6, <1>7, <1>8 DEF Counted

\* What a counter gains or loses in a step of p is what p takes or gives back.
Settles(p, c) ==
    /\ used'[c] - leaked'[c] - (IF p \in InUse(c)' THEN Weights(c)'[p] ELSE 0)
       = used[c] - leaked[c] - (IF p \in InUse(c) THEN Weights(c)[p] ELSE 0)
    /\ p \in Kept(c)' => \/ p \in Kept(c) /\ Weights(c)'[p] = Weights(c)[p]
                         \/ used'[c] <= Limit[c]

LEMMA Moves ==
    ASSUME Types, Types', Counted, NEW p \in Procs,
           \A q \in Procs \ {p} : /\ job'[q] = job[q]
                                  /\ q \in left' <=> q \in left
                                  /\ q \in unsure' <=> q \in unsure,
           used' \in [Counters -> Int], leaked' \in [Counters -> Nat],
           p \in Senders => Full(p)',
           \A c \in Counters : Settles(p, c)
    PROVE  Counted'
<1>1. Senders \subseteq Procs
  BY DEF Procs
<1>2. \A q \in Senders : Full(q)'
  BY <1>1 DEF Counted, Full
<1>3. ASSUME NEW c \in Counters
      PROVE  /\ used'[c] = Cardinality(Spots(Weights(c)', InUse(c)')) + leaked'[c]
             /\ Cardinality(Spots(Weights(c)', Kept(c)')) <= Limit[c]
  <2>1. /\ Weights(c) \in [Senders -> Nat] /\ IsFiniteSet(Senders)
        /\ InUse(c) \in SUBSET Senders /\ Kept(c) \in SUBSET InUse(c)
    BY Weighted
  <2>2. Weights(c)' \in [Senders -> Nat] /\ InUse(c)' \in SUBSET Senders /\ Kept(c)' \in SUBSET InUse(c)'
    <3>1. IsFiniteSet(Senders)
      BY <2>1
    <3>2. \A q \in Senders : Carries(q)' \in Messages => Adds(q, c)' \in Nat
      BY SendingAssumption DEF Adds
    <3>3. Weights(c)' \in [Senders -> Nat]
      BY <3>2 DEF Weights
    <3> QED
      BY <3>1, <3>3 DEF InUse, Kept, Types
  <2>3. \A q \in Senders \ {p} : /\ Carries(q)' = Carries(q) /\ (Holding(q, c)' <=> Holding(q, c))
                                 /\ job'[q].next = job[q].next
    BY <1>1 DEF Carries, Holding, Running
  <2>4. \A q \in Senders \ {p} : Weights(c)[q] = Weights(c)'[q]
    BY <2>3 DEF Weights, Adds
  <2>5. InUse(c) \ {p} = InUse(c)' \ {p} /\ Kept(c) \ {p} = Kept(c)' \ {p}
    BY <1>1, <2>3 DEF InUse, Kept, Types
  <2> DEFINE m == Weights(c)
             n == Weights(c)'
             S == InUse(c)
             T == InUse(c)'
             K == Kept(c)
             L == Kept(c)'
  <2>6. /\ used[c] = Cardinality(Spots(m, S)) + leaked[c] /\ Cardinality(Spots(m, K)) <= Limit[c]
        /\ used[c] \in Int /\ leaked[c] \in Nat /\ used'[c] \in Int /\ leaked'[c] \in Nat
        /\ Limit[c] \in Nat
    BY SendingAssumption DEF Counted
  <2>7. /\ used'[c] - leaked'[c] - (IF p \in T THEN n[p] ELSE 0)
           = used[c] - leaked[c] - (IF p \in S THEN m[p] ELSE 0)
        /\ p \in L => (p \in K /\ n[p] = m[p]) \/ used'[c] <= Limit[c]
    BY DEF Settles
  <2>8. /\ p \in S => m[p] \in Nat
        /\ p \in T => n[p] \in Nat
    BY <2>1, <2>2
  <2>14. /\ IsFiniteSet(Senders) /\ m \in [Senders -> Nat] /\ n \in [Senders -> Nat]
         /\ S \in SUBSET Senders /\ T \in SUBSET Senders /\ K \in SUBSET Senders /\ L \in SUBSET Senders
         /\ S \ {p} = T \ {p} /\ K \ {p} = L \ {p}
         /\ (\A q \in S \ {p} : m[q] = n[q]) /\ (\A q \in K \ {p} : m[q] = n[q])
    BY <2>1, <2>2, <2>4, <2>5
  <2> HIDE DEF m, n, S, T, K, L
  <2>9. PICK rest \in Nat :
            /\ Cardinality(Spots(m, S)) = rest + (IF p \in S THEN m[p] ELSE 0)
            /\ Cardinality(Spots(n, T)) = rest + (IF p \in T THEN n[p] ELSE 0)
    BY <2>14, Weigh
  <2>10. PICK few \in Nat :
            /\ Cardinality(Spots(m, K)) = few + (IF p \in K THEN m[p] ELSE 0)
            /\ Cardinality(Spots(n, L)) = few + (IF p \in L THEN n[p] ELSE 0)
    BY <2>14, Weigh
  <2>11. /\ Cardinality(Spots(n, L)) <= Cardinality(Spots(n, T))
         /\ Cardinality(Spots(n, L)) \in Nat /\ Cardinality(Spots(n, T)) \in Nat
    BY <2>1, <2>2, Heavier DEF n, T, L
  <2>12. used'[c] = Cardinality(Spots(n, T)) + leaked'[c]
    BY <2>6, <2>7, <2>8, <2>9
  <2>13. Cardinality(Spots(n, L)) <= Limit[c]
    <3>1. CASE used'[c] <= Limit[c]
      BY <2>6, <2>9, <2>10, <2>11, <2>12, <3>1
    <3>2. CASE p \in L /\ p \in K /\ n[p] = m[p]
      <4>1. p \in S /\ m[p] \in Nat
        BY <2>1, <2>8, <3>2 DEF S, K
      <4> QED
        BY <2>6, <2>10, <3>2, <4>1
    <3>3. CASE p \notin L
      <4>1. p \in K => m[p] \in Nat
        BY <2>1, <2>8 DEF S, K
      <4> QED
        BY <2>6, <2>10, <3>3, <4>1
    <3> QED
      BY <2>7, <3>1, <3>2, <3>3
  <2> QED
    BY <2>12, <2>13 DEF m, n, S, T, K, L
<1> QED
  BY <1>2, <1>3 DEF Counted

\* What a sender has taken and not yet paid for an email, by where its call is.
LEMMA Knows ==
    ASSUME IInv, Retried, NEW p \in Senders
    PROVE  /\ p \in Procs /\ job[p] \in Jobs
           /\ job[p].pc \in {"new", "claim", "check", "take", "untake", "relay"} => p \notin left
           /\ Running(p) /\ job[p].pc # "ok" /\ p \in left => p \in unsure
           /\ Running(p) => Carries(p) \in Messages
           /\ p \in Approvers /\ Running(p) => job[p].row \in Requests
<1>1. p \in Procs /\ job[p] \in Jobs
  BY DEF IInv, Types, Procs
<1>2. CASE p \in Requests
  <2>1. Try(p) /\ p \notin Approvers
    BY <1>2, SendingAssumption DEF Retried
  <2>2. Carries(p) \in Messages
    BY <1>2 DEF Carries, Messages
  <2>3. job[p].pc \in Pcs
    BY <1>1 DEF Jobs, Pcs
  <2> QED
    BY <1>1, <2>1, <2>2, <2>3 DEF Try, Running, Pcs
<1>3. CASE p \in Approvers
  <2>1. p \notin Requests
    BY <1>3, SendingAssumption
  <2>2. Running(p) => job[p].row \in Requests
    BY <1>3 DEF IInv, LocksOK
  <2>3. Running(p) => Carries(p) \in Messages
    BY <2>1, <2>2 DEF Carries, Messages
  <2>4. job[p].pc \in Pcs
    BY <1>1 DEF Jobs, Pcs
  <2> QED
    BY <1>1, <1>3, <2>2, <2>3, <2>4 DEF IInv, EmailsOK, Running, Pcs
<1> QED
  BY <1>2, <1>3 DEF Senders

\* A step that leaves the counters alone, and those who have something in them.
LEMMA Quiet ==
    ASSUME Types, Types', Counted, NEW p \in Procs,
           \A q \in Procs \ {p} : /\ job'[q] = job[q]
                                  /\ q \in left' <=> q \in left
                                  /\ q \in unsure' <=> q \in unsure,
           used' = used, leaked' = leaked,
           p \in Senders => Full(p)',
           \A c \in Counters : /\ p \in InUse(c)' <=> p \in InUse(c)
                               /\ p \in Kept(c)' => p \in Kept(c)
                               /\ p \in InUse(c) => Weights(c)'[p] = Weights(c)[p]
    PROVE  Counted'
<1>1. used' \in [Counters -> Int] /\ leaked' \in [Counters -> Nat]
  BY DEF Counted
<1>2. \A c \in Counters : Settles(p, c)
  <2> SUFFICES ASSUME NEW c \in Counters PROVE Settles(p, c)
    OBVIOUS
  <2>1. used'[c] = used[c] /\ leaked'[c] = leaked[c]
    OBVIOUS
  <2>2. p \in InUse(c)' <=> p \in InUse(c)
    OBVIOUS
  <2>3. p \in InUse(c) => Weights(c)'[p] = Weights(c)[p]
    OBVIOUS
  <2>4. p \in Kept(c)' => p \in Kept(c)
    OBVIOUS
  <2>5. p \in Kept(c) => p \in InUse(c)
    BY DEF Kept, InUse
  <2> QED
    BY <2>1, <2>2, <2>3, <2>4, <2>5 DEF Settles
<1> QED
  BY <1>1, <1>2, Moves

\* A step of nobody who sends.
LEMMA Elsewhere ==
    ASSUME Counted, \A p \in Senders : job'[p] = job[p],
           left' = left, unsure' = unsure, used' = used, leaked' = leaked
    PROVE  Counted'
<1>1. \A p \in Senders : Full(p)'
  BY DEF Counted, Full
<1>2. ASSUME NEW c \in Counters
      PROVE  Weights(c)' = Weights(c) /\ InUse(c)' = InUse(c) /\ Kept(c)' = Kept(c)
  <2>1. \A p \in Senders : /\ Carries(p)' = Carries(p) /\ (Holding(p, c)' <=> Holding(p, c))
                           /\ job'[p].next = job[p].next
    BY DEF Carries, Holding, Running
  <2> QED
    BY <2>1 DEF Weights, Adds, InUse, Kept
<1> QED
  BY <1>1, <1>2 DEF Counted

\* Where a call has nothing in the counters, except for an email that left.
Idle == {"new", "claim", "check", "ok", "fail", "done"}

LEMMA IdleHolds ==
    ASSUME PlacesOK, NEW p \in Senders, job[p] \in Jobs, job[p].pc \in Idle, Full(p),
           NEW c \in Counters
    PROVE  ~Holding(p, c)
<1>1. job[p].next \in Nat /\ job[p].back \in Nat /\ c \in Nat /\ c >= 1
  BY SendingAssumption DEF Jobs, Counters
<1>2. /\ job[p].pc \in {"new", "claim", "check"} => job[p].next = 1
      /\ job[p].pc = "fail" => job[p].next <= job[p].back + 1
  BY DEF PlacesOK, Full
<1> QED
  BY <1>1, <1>2 DEF Holding, Running, Idle

\* A call that has nothing in the counters goes on.
LEMMA IdleStep ==
    ASSUME IInv, IInv', Counted, NEW p \in Senders, NEW j \in Jobs,
           job' = [job EXCEPT ![p] = j], job[p].pc \in Idle, j.pc \in Idle,
           p \in left => j.row = job[p].row,
           j.pc = "fail" => j.next <= j.back + 1,
           left' = left, unsure' = unsure, used' = used, leaked' = leaked
    PROVE  Counted'
<1>1. /\ p \in Procs /\ job[p] \in Jobs /\ job'[p] = j
      /\ \A q \in Procs \ {p} : job'[q] = job[q]
  BY DEF IInv, Types, Procs
<1>2. Full(p) /\ Full(p)'
  <2>1. Full(p)
    BY DEF Counted
  <2> QED
    BY <1>1, <2>1 DEF Full, Idle
<1>3. \A c \in Counters : ~Holding(p, c)
  BY <1>1, <1>2, IdleHolds DEF IInv
<1>4. \A c \in Counters : ~Holding(p, c)'
  <2> SUFFICES ASSUME NEW c \in Counters PROVE ~Holding(p, c)'
    OBVIOUS
  <2>1. j.next \in Nat /\ j.back \in Nat /\ c \in Nat /\ c >= 1
    BY SendingAssumption DEF Jobs, Counters
  <2>2. /\ j.pc \in {"new", "claim", "check"} => j.next = 1
        /\ j.pc = "fail" => j.next <= j.back + 1
    BY <1>1 DEF IInv, PlacesOK
  <2> QED
    BY <1>1, <2>1, <2>2 DEF Holding, Running, Idle
<1>5. p \in left => Carries(p)' = Carries(p)
  BY <1>1 DEF Carries
<1>6. \A c \in Counters : /\ p \in InUse(c)' <=> p \in InUse(c)
                          /\ p \in Kept(c)' => p \in Kept(c)
                          /\ p \in InUse(c) => Weights(c)'[p] = Weights(c)[p]
  <2> SUFFICES ASSUME NEW c \in Counters
               PROVE  /\ p \in InUse(c)' <=> p \in InUse(c)
                      /\ p \in Kept(c)' => p \in Kept(c)
                      /\ p \in InUse(c) => Weights(c)'[p] = Weights(c)[p]
    OBVIOUS
  <2>1. ~Holding(p, c) /\ ~Holding(p, c)'
    BY <1>3, <1>4
  <2>2. /\ p \in InUse(c) <=> p \in left \ unsure
        /\ p \in InUse(c)' <=> p \in left \ unsure
        /\ p \in Kept(c) <=> p \in left \ unsure
        /\ p \in Kept(c)' <=> p \in left \ unsure
    BY <2>1 DEF InUse, Kept
  <2>3. p \in left => Weights(c)'[p] = Weights(c)[p]
    BY <1>5 DEF Weights, Adds
  <2> QED
    BY <2>2, <2>3
<1> QED
  BY <1>1, <1>2, <1>6, Quiet DEF IInv

\* The calls of a request.
LEMMA RequestCounted ==
    ASSUME IInv, IInv', Counted, NEW r \in Requests, Request(r)
    PROVE  Counted'
<1>1. /\ Shape /\ r \in Procs /\ r \in Senders
      /\ left' = left /\ unsure' = unsure /\ used' = used /\ leaked' = leaked
  BY DEF IInv, Shape, Procs, Senders, Request, Fresh, Answered, ClaimSlot, Hold, Succeed, Fail,
         Begins, history
<1>2. \/ \E pc \in {"claim", "check", "ok"} : Goto(r, pc) /\ job[r].pc \in Idle
      \/ \E answer \in Answers : Answer(r, answer) /\ job[r].pc \in Idle
  BY DEF Request, Fresh, Answered, ClaimSlot, Hold, Succeed, Fail, Begins, Idle, Answers
<1>3. ASSUME NEW pc \in {"claim", "check", "ok"}, Goto(r, pc), job[r].pc \in Idle
      PROVE  Counted'
  <2>1. PICK j \in Jobs : /\ job' = [job EXCEPT ![r] = j]
                          /\ j.pc = pc /\ j.row = job[r].row
    BY <1>1, <1>3, GotoFacts DEF Pcs
  <2> QED
    BY <1>1, <1>3, <2>1, IdleStep DEF Idle
<1>4. ASSUME NEW answer \in Answers, Answer(r, answer), job[r].pc \in Idle
      PROVE  Counted'
  <2>1. PICK j \in Jobs : /\ job' = [job EXCEPT ![r] = j]
                          /\ j.pc = "done" /\ j.row = job[r].row
    BY <1>1, <1>4, AnswerFacts
  <2> QED
    BY <1>1, <1>4, <2>1, IdleStep DEF Idle
<1> QED
  BY <1>2, <1>3, <1>4

\* Those who approve and reject.
LEMMA DecideCounted ==
    ASSUME IInv, IInv', Retried, Counted, Decide
    PROVE  Counted'
<1>1. Shape /\ Senders \subseteq Procs
  BY DEF IInv, Shape, Procs
<1>2. ASSUME NEW a \in Approvers, Commit(a) PROVE Counted'
  <2>1. a \in Procs /\ a \in Senders /\ job[a].pc \in Idle /\ Answer(a, "decided")
    BY <1>2 DEF Procs, Senders, Commit, Idle
  <2>2. PICK j \in Jobs : /\ job' = [job EXCEPT ![a] = j]
                          /\ j.pc = "done" /\ j.row = job[a].row
    BY <1>1, <2>1, AnswerFacts DEF Answers
  <2> QED
    BY <1>2, <2>1, <2>2, IdleStep DEF Idle, Commit, history
<1>3. ASSUME NEW a \in Approvers, NEW r \in Requests, Approve(a, r) PROVE Counted'
  <2>1. a \in Procs /\ a \in Senders /\ job[a].pc = "new" /\ a \notin left /\ job[a] \in Jobs
    BY <1>3, Knows DEF Procs, Senders, Approve
  <2>2. \E j \in Jobs : job' = [job EXCEPT ![a] = j] /\ j.pc \in {"check", "done"}
    <3>1. CASE Decidable(r)
      <4> DEFINE k == [job[a] EXCEPT !.pc = "check", !.row = r]
      <4>1. k \in Jobs /\ k.pc = "check"
        BY <2>1 DEF Jobs
      <4>2. job' = [job EXCEPT ![a] = k]
        BY <1>3, <3>1 DEF Approve
      <4> QED
        BY <4>1, <4>2
    <3>2. CASE ~Decidable(r)
      BY <1>1, <1>3, <2>1, <3>2, AnswerFacts DEF Approve, Answers
    <3> QED
      BY <3>1, <3>2
  <2>3. PICK j \in Jobs : job' = [job EXCEPT ![a] = j] /\ j.pc \in {"check", "done"}
    BY <2>2
  <2> QED
    BY <1>3, <2>1, <2>3, IdleStep DEF Idle, Approve, history
<1>4. ASSUME NEW x \in Rejecters,
             RejectSave(x) \/ \E r \in Requests : RejectRead(x, r)
      PROVE  Counted'
  <2>1. x \notin Senders
    BY SendingAssumption
  <2>2. \A p \in Senders : job'[p] = job[p]
    BY <1>1, <1>4, <2>1 DEF RejectSave, RejectRead, Answer, IInv, Types
  <2> QED
    BY <1>4, <2>2, Elsewhere DEF RejectSave, RejectRead, history
<1>5. ASSUME NEW r \in Requests, Expire(r) PROVE Counted'
  BY <1>5, Elsewhere DEF Expire, history
<1> QED
  BY <1>2, <1>3, <1>4, <1>5 DEF Decide

-----------------------------------------------------------------------------

\* What all the steps of a send have in common.
LEMMA SendFacts ==
    ASSUME IInv, Retried, NEW p \in Senders, Send(p)
    PROVE  /\ p \in Procs /\ job[p] \in Jobs /\ job'[p] \in Jobs /\ job'[p].row = job[p].row
           /\ \A q \in Procs \ {p} : /\ job'[q] = job[q]
                                     /\ q \in left' <=> q \in left
                                     /\ q \in unsure' <=> q \in unsure
           /\ Carries(p) \in Messages /\ Carries(p)' = Carries(p)
           /\ p \in Approvers => job[p].row \in Requests
           /\ job[p].next \in Nat /\ job[p].next >= 1 /\ job[p].next <= Quotas + 1
           /\ job[p].back \in Nat /\ (job[p].pc # "refund" => job[p].back = 0)
           /\ job[p].pc = "refund" => job[p].back + 2 <= job[p].next
           /\ job[p].pc = "check" => job[p].next = 1
           /\ job[p].pc \in {"take", "untake"} => job[p].next <= Quotas
           /\ job[p].pc \in {"check", "take", "untake", "relay"} => p \notin left
           /\ job[p].pc \in {"check", "take", "untake", "relay", "refund"}
           /\ p \in left => p \in unsure
<1>1. p \in Procs /\ job[p] \in Jobs
  BY DEF IInv, Types, Procs
<1>2. PICK j \in Jobs : Flow(p, j)
  BY SendFlow
<1>3. job'[p] = j /\ j.row = job[p].row /\ \A q \in Procs \ {p} : job'[q] = job[q]
  BY <1>1, <1>2 DEF Flow, IInv, Types
<1>4. \A q \in Procs \ {p} : (q \in left' <=> q \in left) /\ (q \in unsure' <=> q \in unsure)
  BY <1>2 DEF Flow
<1>5. job[p].pc \in {"check", "take", "untake", "refund", "relay"}
  BY <1>2 DEF Flow
<1>6. Running(p) /\ job[p].pc # "ok"
  BY <1>5 DEF Running
<1>7. Carries(p)' = Carries(p)
  BY <1>3 DEF Carries
<1>8. /\ job[p].next \in Nat /\ job[p].next >= 1 /\ job[p].next <= Quotas + 1
      /\ job[p].back \in Nat /\ (job[p].pc # "refund" => job[p].back = 0)
      /\ job[p].pc = "refund" => job[p].back + 2 <= job[p].next
      /\ job[p].pc = "check" => job[p].next = 1
      /\ job[p].pc \in {"take", "untake"} => job[p].next <= Quotas
  BY <1>1, <1>5, SendingAssumption DEF IInv, PlacesOK, Jobs
<1> QED
  BY <1>1, <1>3, <1>4, <1>5, <1>6, <1>7, <1>8, Knows

\* A step of a send that takes nothing and gives nothing back.
LEMMA SendQuiet ==
    ASSUME IInv, IInv', Retried, Counted, NEW p \in Senders, Send(p),
           used' = used, leaked' = leaked, Full(p)',
           \A c \in Counters : /\ p \in InUse(c)' <=> p \in InUse(c)
                               /\ p \in Kept(c)' => p \in Kept(c)
    PROVE  Counted'
<1>1. \A c \in Counters : Weights(c)'[p] = Weights(c)[p]
  BY SendFacts DEF Weights, Adds
<1> QED
  BY <1>1, SendFacts, Quiet DEF IInv

\* What a send has in the counters, when its email has not left or may have.
LEMMA HasHeld ==
    ASSUME NEW p \in Senders, p \in left => p \in unsure, NEW c \in Counters
    PROVE  /\ p \in InUse(c) <=> Holding(p, c)
           /\ p \in Kept(c) <=> Holding(p, c) /\ c < job[p].next
  BY DEF InUse, Kept

\* To the counters, or to a refusal that has nothing to give back.
LEMMA CheckCounted ==
    ASSUME IInv, IInv', Retried, Counted, NEW p \in Senders,
           Allowed(p) \/ Refused(p) \/ TakeFails(p) \/ RelayFails(p)
    PROVE  Counted'
<1>1. Send(p)
  BY DEF Send
<1>2. Shape /\ p \in Procs
  BY <1>1, SendFacts DEF IInv, Shape
<1>3. /\ used' = used /\ leaked' = leaked /\ left' = left /\ unsure' = unsure
      /\ \E pc \in {"take", "fail", "refund"} :
            /\ Goto(p, pc)
            /\ job[p].pc # "refund" /\ job[p].pc # "untake"
            /\ pc = "fail" => job[p].next = 1
  BY <1>1, SendFacts DEF Allowed, Refused, TakeFails, RelayFails, history
<1>4. PICK pc \in {"take", "fail", "refund"} :
          /\ Goto(p, pc)
          /\ job[p].pc # "refund" /\ job[p].pc # "untake"
          /\ pc = "fail" => job[p].next = 1
  BY <1>3
<1>5. PICK j \in Jobs : /\ job' = [job EXCEPT ![p] = j]
                        /\ j.pc = pc /\ j.next = job[p].next /\ j.back = job[p].back
  BY <1>2, <1>4, GotoFacts DEF Pcs
<1>6. job'[p] = j
  BY <1>2, <1>5 DEF Shape, Types
<1>7. Full(p)'
  BY <1>1, <1>3, <1>4, <1>5, <1>6, SendFacts DEF Full
<1>8. job[p].pc \in {"check", "take", "relay"}
  BY <1>1, <1>4, SendFacts
<1>9. \A c \in Counters : Holding(p, c)' <=> Holding(p, c)
  BY <1>4, <1>5, <1>6, <1>8 DEF Holding, Running
<1>10. \A c \in Counters : /\ p \in InUse(c)' <=> p \in InUse(c)
                           /\ p \in Kept(c)' => p \in Kept(c)
  BY <1>3, <1>5, <1>6, <1>9 DEF InUse, Kept
<1> QED
  BY <1>1, <1>3, <1>7, <1>10, SendQuiet

\* The relay: with its reply the email is counted, without it the counters are
\* given back.
LEMMA RelayCounted ==
    ASSUME IInv, IInv', Retried, Counted, NEW p \in Senders, RelayAccepts(p) \/ ReplyLost(p)
    PROVE  Counted'
<1>1. Send(p)
  BY DEF Send
<1>2. Shape /\ p \in Procs /\ job[p].pc = "relay" /\ p \notin left /\ job[p].next = Quotas + 1
      /\ job[p].back = 0 /\ p \notin unsure
  <2>1. job[p].pc = "relay"
    BY DEF RelayAccepts, ReplyLost
  <2>2. Full(p) /\ unsure \subseteq left
    BY DEF Counted, IInv, Types
  <2> QED
    BY <1>1, <2>1, <2>2, SendFacts DEF Full, IInv, Shape
<1>3. /\ used' = used /\ leaked' = leaked /\ left' = left \cup {p}
      /\ \/ Goto(p, "ok") /\ unsure' = unsure
         \/ Goto(p, "refund") /\ unsure' = unsure \cup {p}
  BY DEF RelayAccepts, ReplyLost
<1>4. PICK j \in Jobs : /\ job' = [job EXCEPT ![p] = j]
                        /\ j.next = job[p].next /\ j.back = job[p].back
                        /\ \/ j.pc = "ok" /\ unsure' = unsure
                           \/ j.pc = "refund" /\ unsure' = unsure \cup {p}
  BY <1>2, <1>3, GotoFacts DEF Pcs
<1>5. job'[p] = j
  BY <1>2, <1>4 DEF Shape, Types
<1>6. Full(p)'
  BY <1>1, <1>4, <1>5, SendFacts DEF Full
<1>7. ASSUME NEW c \in Counters
      PROVE  /\ p \in InUse(c) /\ p \in InUse(c)'
             /\ p \in Kept(c)
  <2>1. c \in Nat /\ 0 < c /\ c < Quotas + 1
    BY SendingAssumption DEF Counters
  <2>2. Holding(p, c)
    BY <1>2, <2>1 DEF Holding, Running
  <2>3. j.pc = "refund" => Holding(p, c)'
    BY <1>2, <1>4, <1>5, <2>1 DEF Holding, Running
  <2> QED
    BY <1>2, <1>3, <1>4, <2>1, <2>2, <2>3 DEF InUse, Kept
<1> QED
  BY <1>1, <1>3, <1>6, <1>7, SendQuiet

\* An addition is in use from now on, and kept when the limit was not passed.
LEMMA TakeCounted ==
    ASSUME IInv, IInv', Retried, Counted, NEW p \in Senders, Take(p)
    PROVE  Counted'
<1> DEFINE c == job[p].next
           sum == used[c] + Adds(p, c)
<1>1. Send(p)
  BY DEF Send
<1>2. /\ p \in Procs /\ job[p] \in Jobs /\ job[p].pc = "take" /\ c \in Counters
      /\ p \notin left /\ job[p].back = 0 /\ Quotas \in Nat
      /\ left' = left /\ unsure' = unsure /\ leaked' = leaked
  BY <1>1, SendFacts, SendingAssumption DEF Take, Counters, history
<1>3. /\ used' = [used EXCEPT ![c] = sum] /\ Adds(p, c) \in Nat /\ used \in [Counters -> Int]
      /\ leaked \in [Counters -> Nat] /\ Limit[c] \in Nat
  <2>1. Adds(p, c) \in Nat
    BY <1>1, <1>2, SendFacts, SendingAssumption DEF Adds
  <2> QED
    BY <1>2, <2>1, SendingAssumption DEF Take, Counted
<1>4. /\ Over(c, sum) => job'[p].pc = "untake" /\ job'[p].next = c
      /\ ~Over(c, sum) => /\ job'[p].pc = IF c = Quotas THEN "relay" ELSE "take"
                          /\ job'[p].next = c + 1
      /\ job'[p].back = job[p].back
  <2> DEFINE to == IF Over(c, sum) THEN "untake" ELSE IF c = Quotas THEN "relay" ELSE "take"
             n == IF Over(c, sum) THEN c ELSE c + 1
  <2>1. job' = [job EXCEPT ![p] = [job[p] EXCEPT !.pc = to, !.next = n]]
    BY DEF Take
  <2> HIDE DEF to, n
  <2>2. job'[p].pc = to /\ job'[p].next = n /\ job'[p].back = job[p].back
    BY <1>2, <2>1 DEF IInv, Types, Jobs
  <2> QED
    BY <2>2 DEF to, n
<1>5. Full(p)'
  <2>1. job'[p].pc # "fail"
    BY <1>4
  <2>2. job'[p].pc = "relay" => job'[p].next = Quotas + 1
    BY <1>4
  <2> QED
    BY <1>2, <2>1, <2>2 DEF Full
<1>6. used' \in [Counters -> Int] /\ leaked' \in [Counters -> Nat]
  BY <1>2, <1>3
<1>7. c \in Nat /\ c >= 1
  BY <1>2, SendingAssumption DEF Counters
<1>8. /\ Over(c, sum) \/ ~Over(c, sum)
      /\ ~Over(c, sum) => sum <= Limit[c]
  BY <1>2, <1>3 DEF Over
<1> HIDE DEF c
<1>9. ASSUME NEW d \in Counters PROVE Settles(p, d)
  <2>1. d \in Nat /\ d >= 1
    BY SendingAssumption DEF Counters
  <2>2. Holding(p, d) <=> d < c
    BY <1>2, <2>1 DEF Holding, Running, c
  <2>3. /\ Holding(p, d)' <=> d < c \/ d = c
        /\ Holding(p, d)' /\ d < job'[p].next => d < c \/ (d = c /\ ~Over(c, sum))
    <3>1. CASE Over(c, sum)
      BY <1>2, <1>4, <1>7, <2>1, <3>1 DEF Holding, Running
    <3>2. CASE ~Over(c, sum)
      BY <1>2, <1>4, <1>7, <2>1, <3>2 DEF Holding, Running
    <3> QED
      BY <3>1, <3>2
  <2>4. /\ p \in InUse(d) <=> d < c
        /\ p \in InUse(d)' <=> d < c \/ d = c
        /\ p \in Kept(d) <=> d < c
        /\ p \in Kept(d)' => d < c \/ (d = c /\ ~Over(c, sum))
    <3>1. p \notin left'
      BY <1>2
    <3> QED
      BY <1>2, <2>2, <2>3, <3>1 DEF InUse, Kept, c
  <2>5. Weights(d)'[p] = Weights(d)[p] /\ Weights(d)[p] = Adds(p, d)
    BY <1>1, SendFacts DEF Weights, Adds
  <2>6. CASE d = c
    <3>1. Adds(p, d) = Adds(p, c)
      BY <2>6
    <3>2. used'[d] = used[d] + Adds(p, d) /\ leaked'[d] = leaked[d]
      BY <1>2, <1>3, <2>6, <3>1
    <3>3. used[d] \in Int /\ leaked[d] \in Nat /\ ~(d < c) /\ Adds(p, d) \in Nat
      BY <1>2, <1>3, <1>7, <2>6, <3>1
    <3>4. ~Over(c, sum) => used'[d] <= Limit[d]
      BY <1>3, <1>8, <2>6
    <3>5. p \notin InUse(d) /\ p \in InUse(d)' /\ p \notin Kept(d)
      BY <2>4, <2>6, <3>3
    <3>6. p \in Kept(d)' => used'[d] <= Limit[d]
      BY <2>4, <3>3, <3>4
    <3> QED
      BY <2>5, <3>2, <3>3, <3>5, <3>6 DEF Settles
  <2>7. CASE d # c
    <3>1. used'[d] = used[d] /\ leaked'[d] = leaked[d]
      BY <1>2, <1>3, <2>7
    <3> QED
      BY <2>4, <2>5, <2>7, <3>1 DEF Settles
  <2> QED
    BY <2>6, <2>7
<1> QED
  BY <1>1, <1>5, <1>6, <1>9, SendFacts, Moves DEF IInv

\* What is given back is in use no more, or lost in the counter.
LEMMA GivenBack ==
    ASSUME IInv, IInv', Retried, Counted, NEW p \in Senders, Send(p), NEW c \in Counters,
           GiveBack(p, c), left' = left, unsure' = unsure, Full(p)',
           Holding(p, c), ~Holding(p, c)',
           \A d \in Counters \ {c} : /\ Holding(p, d)' <=> Holding(p, d)
                                     /\ Holding(p, d)' /\ d < job'[p].next => d < job[p].next
    PROVE  Counted'
<1>1. /\ used \in [Counters -> Int] /\ leaked \in [Counters -> Nat] /\ Adds(p, c) \in Nat
      /\ p \in left => p \in unsure
  BY SendFacts, SendingAssumption DEF Counted, Adds
<1>2. /\ used' \in [Counters -> Int] /\ leaked' \in [Counters -> Nat]
      /\ used'[c] - leaked'[c] = used[c] - leaked[c] - Adds(p, c)
      /\ \A d \in Counters \ {c} : used'[d] = used[d] /\ leaked'[d] = leaked[d]
  <2>1. CASE used' = [used EXCEPT ![c] = used[c] - Adds(p, c)] /\ leaked' = leaked
    BY <1>1, <2>1
  <2>2. CASE leaked' = [leaked EXCEPT ![c] = leaked[c] + Adds(p, c)] /\ used' = used
    BY <1>1, <2>2
  <2> QED
    BY <2>1, <2>2 DEF GiveBack
<1>3. ASSUME NEW d \in Counters PROVE Settles(p, d)
  <2>1. Weights(d)'[p] = Weights(d)[p] /\ Weights(d)[p] = Adds(p, d)
    BY SendFacts DEF Weights, Adds
  <2>2. CASE d = c
    <3>1. p \in InUse(c) /\ p \notin InUse(c)' /\ p \notin Kept(c)'
      BY <1>1 DEF InUse, Kept
    <3>2. used[c] \in Int /\ leaked[c] \in Nat /\ used'[c] \in Int /\ leaked'[c] \in Nat
      BY <1>1, <1>2
    <3> QED
      BY <1>1, <1>2, <2>1, <2>2, <3>1, <3>2 DEF Settles
  <2>3. CASE d # c
    <3>1. /\ p \in InUse(d)' <=> p \in InUse(d)
          /\ p \in Kept(d)' => p \in Kept(d)
      BY <1>1, <2>3 DEF InUse, Kept
    <3> QED
      BY <1>2, <2>1, <2>3, <3>1 DEF Settles
  <2> QED
    BY <2>2, <2>3
<1> QED
  BY <1>2, <1>3, SendFacts, Moves DEF IInv

LEMMA UntakeCounted ==
    ASSUME IInv, IInv', Retried, Counted, NEW p \in Senders, Untake(p)
    PROVE  Counted'
<1>1. Send(p)
  BY DEF Send
<1>2. PICK c \in Counters : c = job[p].next
  BY <1>1, SendFacts, SendingAssumption DEF Untake, Counters
<1>3. /\ Shape /\ p \in Procs /\ job[p].pc = "untake" /\ job[p].back = 0
      /\ c \in Nat /\ c >= 1 /\ p \notin left
      /\ GiveBack(p, c) /\ left' = left /\ unsure' = unsure
      /\ \E pc \in {"fail", "refund"} : Goto(p, pc) /\ (pc = "fail" => c = 1)
  BY <1>1, <1>2, SendFacts, SendingAssumption DEF IInv, Shape, Untake, Counters, history
<1>4. PICK pc \in {"fail", "refund"} : Goto(p, pc) /\ (pc = "fail" => c = 1)
  BY <1>3
<1>5. PICK j \in Jobs : /\ job' = [job EXCEPT ![p] = j]
                        /\ j.pc = pc /\ j.next = job[p].next /\ j.back = job[p].back
  BY <1>3, <1>4, GotoFacts DEF Pcs
<1>6. /\ job'[p] = j /\ j.next = c /\ j.back = 0 /\ j.pc \in {"fail", "refund"}
      /\ (j.pc = "fail" => c = 1)
  BY <1>2, <1>3, <1>4, <1>5 DEF Shape, Types
<1>7. Full(p)'
  BY <1>1, <1>3, <1>6, SendFacts DEF Full
<1>8. \A d \in Counters : /\ Holding(p, d) <=> d < c \/ d = c
                          /\ Holding(p, d)' <=> d < c
  <2> SUFFICES ASSUME NEW d \in Counters
               PROVE  /\ Holding(p, d) <=> d < c \/ d = c
                      /\ Holding(p, d)' <=> d < c
    OBVIOUS
  <2>1. d \in Nat /\ d >= 1
    BY SendingAssumption DEF Counters
  <2>2. Holding(p, d) <=> d < c \/ d = c
    BY <1>2, <1>3, <2>1 DEF Holding, Running
  <2> QED
    BY <1>3, <1>6, <2>1, <2>2 DEF Holding, Running
<1>9. Holding(p, c) /\ ~Holding(p, c)'
  BY <1>3, <1>8
<1>10. \A d \in Counters \ {c} : /\ Holding(p, d)' <=> Holding(p, d)
                                 /\ Holding(p, d)' /\ d < job'[p].next => d < job[p].next
  BY <1>2, <1>6, <1>8
<1> QED
  BY <1>1, <1>3, <1>7, <1>9, <1>10, GivenBack

LEMMA RefundCounted ==
    ASSUME IInv, IInv', Retried, Counted, NEW p \in Senders, Refund(p)
    PROVE  Counted'
<1>1. Send(p)
  BY DEF Send
<1>2. PICK c \in Counters : c = job[p].back + 1
  BY <1>1, SendFacts, SendingAssumption DEF Refund, Counters
<1> DEFINE to == IF c = job[p].next - 1 THEN "fail" ELSE "refund"
<1>3. /\ p \in Procs /\ job[p] \in Jobs /\ job[p].pc = "refund"
      /\ c \in Nat /\ job[p].back \in Nat /\ job[p].next \in Nat /\ job[p].back + 2 <= job[p].next
      /\ GiveBack(p, c) /\ left' = left /\ unsure' = unsure
  BY <1>1, <1>2, SendFacts, SendingAssumption DEF Refund, Counters, history
<1>4. job' = [job EXCEPT ![p] = [job[p] EXCEPT !.pc = to, !.back = c]]
  BY <1>2 DEF Refund
<1> HIDE DEF to
<1>5. job'[p].pc = to /\ job'[p].back = c /\ job'[p].next = job[p].next
      /\ job'[p].row = job[p].row
  BY <1>3, <1>4 DEF IInv, Types, Jobs
<1>6. job'[p].pc \in {"fail", "refund"} /\ (job'[p].pc = "fail" => c = job[p].next - 1)
  BY <1>5 DEF to
<1>7. Full(p)'
  BY <1>1, <1>3, <1>5, <1>6, SendFacts DEF Full
<1>8. \A d \in Counters : /\ d \in Nat
                          /\ Holding(p, d) <=> d >= c /\ d < job[p].next
                          /\ Holding(p, d)' <=> d > c /\ d < job[p].next
  <2> SUFFICES ASSUME NEW d \in Counters
               PROVE  /\ d \in Nat
                      /\ Holding(p, d) <=> d >= c /\ d < job[p].next
                      /\ Holding(p, d)' <=> d > c /\ d < job[p].next
    OBVIOUS
  <2>1. d \in Nat
    BY SendingAssumption DEF Counters
  <2>2. Holding(p, d) <=> d >= c /\ d < job[p].next
    BY <1>2, <1>3, <2>1 DEF Holding, Running
  <2> QED
    BY <1>3, <1>5, <1>6, <2>1, <2>2 DEF Holding, Running
<1>9. Holding(p, c) /\ ~Holding(p, c)'
  <2>1. c < job[p].next
    BY <1>2, <1>3
  <2> QED
    BY <1>3, <1>8, <2>1
<1>10. \A d \in Counters \ {c} : /\ Holding(p, d)' <=> Holding(p, d)
                                 /\ Holding(p, d)' /\ d < job'[p].next => d < job[p].next
  <2> SUFFICES ASSUME NEW d \in Counters \ {c}
               PROVE  /\ Holding(p, d)' <=> Holding(p, d)
                      /\ Holding(p, d)' /\ d < job'[p].next => d < job[p].next
    OBVIOUS
  <2>1. d \in Nat /\ (d >= c <=> d > c)
    BY <1>3, <1>8
  <2> QED
    BY <1>5, <1>8, <2>1
<1> QED
  BY <1>1, <1>3, <1>7, <1>9, <1>10, GivenBack

\* What a process that dies has is lost in the counters.
LEMMA KillCounted ==
    ASSUME IInv, IInv', Retried, Counted, NEW p \in Procs, Kill(p)
    PROVE  Counted'
<1>1. /\ Shape /\ Running(p) /\ Answer(p, "died") /\ "died" \in Answers
      /\ used' = used /\ left' = left /\ unsure' = unsure
  BY DEF IInv, Shape, Kill, Answers, history
<1>2. PICK j \in Jobs : /\ job' = [job EXCEPT ![p] = j]
                        /\ j.pc = "done" /\ j.row = job[p].row /\ j.next = 1 /\ j.back = 0
  BY <1>1, AnswerFacts
<1>3. job'[p] = j /\ \A q \in Procs \ {p} : job'[q] = job[q]
  BY <1>1, <1>2 DEF Shape, Types
<1>4. /\ used \in [Counters -> Int] /\ leaked \in [Counters -> Nat]
      /\ p \in Senders => Carries(p) \in Messages /\ Carries(p)' = Carries(p)
      /\ p \in Senders /\ job[p].pc # "ok" /\ p \in left => p \in unsure
  BY <1>1, <1>2, <1>3, Knows DEF Counted, Carries
<1>5. p \in Senders => Full(p)'
  <2>1. p \in Senders => Full(p)
    BY DEF Counted
  <2> QED
    BY <1>1, <1>2, <1>3, <2>1 DEF Full
<1>6. ASSUME NEW c \in Counters
      PROVE  /\ leaked'[c] = leaked[c] + (IF p \in Senders /\ Holding(p, c) THEN Adds(p, c) ELSE 0)
             /\ p \in Senders => Adds(p, c) \in Nat
  BY <1>4, SendingAssumption DEF Kill, Adds
<1>7. leaked' \in [Counters -> Nat]
  <2>1. \A c \in Counters : leaked'[c] \in Nat
    <3> SUFFICES ASSUME NEW c \in Counters PROVE leaked'[c] \in Nat
      OBVIOUS
    <3>1. leaked[c] \in Nat
      BY <1>4
    <3> QED
      BY <1>6, <3>1
  <2>2. leaked' = [c \in Counters |->
          leaked[c] + (IF p \in Senders /\ Holding(p, c) THEN Adds(p, c) ELSE 0)]
    BY DEF Kill
  <2>3. leaked' = [c \in Counters |-> leaked'[c]]
    BY <2>2, Zenon
  <2> QED
    BY <2>1, <2>3
<1>8. ASSUME NEW c \in Counters PROVE Settles(p, c)
  <2>1. used'[c] = used[c] /\ used[c] \in Int /\ leaked[c] \in Nat
    BY <1>1, <1>4
  <2>2. CASE p \notin Senders
    <3>1. p \notin InUse(c) /\ p \notin InUse(c)' /\ p \notin Kept(c)' /\ leaked'[c] = leaked[c]
      BY <1>1, <1>6, <2>1, <2>2 DEF InUse, Kept, Shape, Types
    <3> QED
      BY <2>1, <3>1 DEF Settles
  <2>3. CASE p \in Senders
    <3>1. ~Holding(p, c)'
      BY <1>2, <1>3 DEF Holding, Running
    <3>2. Weights(c)'[p] = Weights(c)[p] /\ Weights(c)[p] = Adds(p, c) /\ Adds(p, c) \in Nat
      BY <1>4, <1>6, <2>3 DEF Weights, Adds
    <3>3. CASE Holding(p, c)
      <4>1. p \in InUse(c) /\ p \notin InUse(c)' /\ p \notin Kept(c)'
        BY <1>1, <1>4, <2>3, <3>1, <3>3 DEF InUse, Kept, Holding
      <4>2. leaked'[c] = leaked[c] + Adds(p, c)
        BY <1>6, <2>3, <3>3
      <4> QED
        BY <2>1, <3>2, <4>1, <4>2 DEF Settles
    <3>4. CASE ~Holding(p, c)
      <4>1. /\ p \in InUse(c)' <=> p \in InUse(c)
            /\ p \in Kept(c)' => p \in Kept(c)
        BY <1>1, <2>3, <3>1, <3>4 DEF InUse, Kept
      <4>2. leaked'[c] = leaked[c]
        BY <1>6, <2>1, <3>4
      <4> QED
        BY <2>1, <3>2, <4>1, <4>2 DEF Settles
    <3> QED
      BY <3>3, <3>4
  <2> QED
    BY <2>2, <2>3
<1>9. used' \in [Counters -> Int]
  BY <1>1, <1>4
<1> QED
  BY <1>1, <1>3, <1>5, <1>7, <1>8, <1>9, Moves DEF IInv

LEMMA CountedNext == IInv /\ IInv' /\ Retried /\ Counted /\ [Next]_vars => Counted'
<1> SUFFICES ASSUME IInv, IInv', Retried, Counted, [Next]_vars PROVE Counted'
  OBVIOUS
<1>1. ASSUME NEW r \in Requests, Request(r) PROVE Counted'
  BY <1>1, RequestCounted
<1>2. ASSUME NEW p \in Senders, Send(p) PROVE Counted'
  BY <1>2, CheckCounted, RelayCounted, TakeCounted, UntakeCounted, RefundCounted DEF Send
<1>3. CASE Decide
  BY <1>3, DecideCounted
<1>4. ASSUME NEW t \in Tokens, SlotExpires(t) PROVE Counted'
  BY <1>4, Elsewhere DEF SlotExpires, history
<1>5. ASSUME NEW p \in Procs, Kill(p) PROVE Counted'
  BY <1>5, KillCounted
<1>6. CASE UNCHANGED vars
  BY <1>6, Elsewhere DEF vars, history
<1> QED
  BY <1>1, <1>2, <1>3, <1>4, <1>5, <1>6 DEF Next

LEMMA CountedAlways == Spec => []Counted
BY InitCounted, CountedNext, Invariant, RetriedAlways, PTL DEF Spec

\* The sums of the properties are the places of the weights.
LEMMA SumIs ==
    ASSUME IInv, Counted, NEW c \in Counters, NEW ps \in SUBSET InUse(c)
    PROVE  Sum(ps, c) = Cardinality(Spots(Weights(c), ps))
<1>1. \A p \in ps : Carries(p) \in Messages /\ p \in Senders
  <2> SUFFICES ASSUME NEW p \in ps PROVE Carries(p) \in Messages /\ p \in Senders
    OBVIOUS
  <2>1. p \in Senders /\ (p \in left \/ Running(p))
    BY DEF InUse, Holding, IInv, Types
  <2>2. p \in Requests => Carries(p) \in Messages
    BY DEF Carries, Messages
  <2>3. p \in Approvers => job[p].row \in Requests /\ p \notin Requests
    BY <2>1, SendingAssumption DEF Counted, Full, IInv, LocksOK
  <2> QED
    BY <2>1, <2>2, <2>3 DEF Carries, Messages, Senders
<1>2. \A p \in ps : Weights(c)[p] = Adds(p, c)
  BY <1>1 DEF Weights
<1>3. Places(ps, c) = Spots(Weights(c), ps)
  BY <1>2 DEF Places, Spots
<1> QED
  BY <1>3 DEF Sum

\* The quota of a window is never passed by the emails that are known to have left,
\* whatever number of senders add and refund at the same time and whichever die.
THEOREM QuotaHoldsAlways == Spec => []QuotaHolds
<1>1. IInv /\ Counted => QuotaHolds
  <2> SUFFICES ASSUME IInv, Counted, NEW c \in Counters PROVE Sum(left \ unsure, c) <= Limit[c]
    BY DEF QuotaHolds
  <2> DEFINE out == left \ unsure
  <2>1. /\ Weights(c) \in [Senders -> Nat] /\ IsFiniteSet(Senders)
        /\ InUse(c) \in SUBSET Senders /\ Kept(c) \in SUBSET InUse(c)
    BY Weighted DEF IInv
  <2>2. out \in SUBSET InUse(c) /\ out \in SUBSET Kept(c) /\ Kept(c) \in SUBSET Senders
    BY <2>1 DEF InUse, Kept
  <2> HIDE DEF out
  <2>3. Sum(out, c) = Cardinality(Spots(Weights(c), out))
    BY <2>2, SumIs
  <2>4. /\ Cardinality(Spots(Weights(c), out)) <= Cardinality(Spots(Weights(c), Kept(c)))
        /\ Cardinality(Spots(Weights(c), out)) \in Nat
        /\ Cardinality(Spots(Weights(c), Kept(c))) \in Nat
    BY <2>1, <2>2, Heavier
  <2>5. Cardinality(Spots(Weights(c), Kept(c))) <= Limit[c] /\ Limit[c] \in Nat
    BY SendingAssumption DEF Counted
  <2> QED
    BY <2>3, <2>4, <2>5 DEF out
<1> QED
  BY <1>1, Invariant, CountedAlways, PTL

\* A counter is what left, what is in flight and what could not be given back: a
\* refund is neither repeated nor forgotten.
THEOREM QuotaExactAlways == Spec => []QuotaExact
<1>1. IInv /\ Retried /\ Counted => QuotaExact
  <2> SUFFICES ASSUME IInv, Retried, Counted, NEW c \in Counters
               PROVE  used[c] = Sum(left \ unsure, c) + Sum({p \in Senders : Holding(p, c)}, c)
                                + leaked[c]
    BY DEF QuotaExact
  <2> DEFINE out == left \ unsure
             going == {p \in Senders : Holding(p, c)}
  <2>1. Weights(c) \in [Senders -> Nat] /\ IsFiniteSet(Senders) /\ InUse(c) \in SUBSET Senders
    BY Weighted DEF IInv
  <2>2. InUse(c) = out \cup going
    BY DEF InUse
  <2>3. out \cap going = {}
    BY Knows DEF Holding
  <2> HIDE DEF out, going
  <2>4. out \in SUBSET Senders /\ going \in SUBSET Senders
    BY <2>1, <2>2
  <2>5. Cardinality(Spots(Weights(c), out \cup going))
        = Cardinality(Spots(Weights(c), out)) + Cardinality(Spots(Weights(c), going))
    BY <2>1, <2>3, <2>4, Apart
  <2>6. /\ Sum(out, c) = Cardinality(Spots(Weights(c), out))
        /\ Sum(going, c) = Cardinality(Spots(Weights(c), going))
    BY <2>2, SumIs
  <2>7. used[c] = Cardinality(Spots(Weights(c), out \cup going)) + leaked[c]
    BY <2>2 DEF Counted
  <2> QED
    BY <2>5, <2>6, <2>7 DEF out, going
<1> QED
  BY <1>1, Invariant, RetriedAlways, CountedAlways, PTL

\* No counter is ever below zero: a refund gives back what was added.
THEOREM TypeOKAlways == Spec => []TypeOK
<1>1. IInv /\ Counted => TypeOK
  <2> SUFFICES ASSUME IInv, Counted PROVE TypeOK
    OBVIOUS
  <2>1. ASSUME NEW c \in Counters PROVE used[c] \in Nat
    <3>1. /\ Weights(c) \in [Senders -> Nat] /\ IsFiniteSet(Senders) /\ InUse(c) \in SUBSET Senders
      BY Weighted DEF IInv
    <3>2. Cardinality(Spots(Weights(c), InUse(c))) \in Nat
      BY <3>1, Heavier
    <3>3. used[c] = Cardinality(Spots(Weights(c), InUse(c))) + leaked[c] /\ leaked[c] \in Nat
      BY DEF Counted
    <3> QED
      BY <3>2, <3>3
  <2> QED
    BY <2>1 DEF TypeOK, Counted, IInv
<1> QED
  BY <1>1, Invariant, CountedAlways, PTL
=============================================================================
