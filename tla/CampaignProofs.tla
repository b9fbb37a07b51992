---------------------------- MODULE CampaignProofs ----------------------------
(***************************************************************************)
(* Proofs about CampaignRunner, for any number of campaigns, recipients,    *)
(* runs and faults and every value of the limits: the claim protocol keeps  *)
(* two runs from mailing the same person without any help from the lock,    *)
(* and a run that is cut short leaves one recipient in doubt.               *)
(***************************************************************************)
EXTENDS MCCampaignLive, Sums, FiniteSetTheorems, TLAPS

\* What a process may hold after a step of its own that needs no care.
Free == {j \in Jobs : j.pc \notin {"claimed", "sending", "record"}}

LEMMA IdleType == IdleJob \in Free /\ IdleJob.pc = "idle"
BY ConstantsAssumption DEF IdleJob, Jobs, Records, Free

LEMMA InitInv == Init => IInv
<1> SUFFICES ASSUME Init PROVE IInv
  OBVIOUS
<1>1. TypeOK
  BY IdleType, ConstantsAssumption DEF Init, TypeOK, CampStatuses, RowStatuses, Final, Free
<1>2. \A p \in Runners : ~Holds(p)
  BY DEF Init, Holds, IdleJob
<1>3. ClaimsOK /\ Accounted
  BY <1>2 DEF Init, ClaimsOK, Accounted
<1>4. NoRows /\ CompletedIsDone
  BY DEF Init, NoRows, CompletedIsDone, Rows
<1> QED
  BY <1>1, <1>3, <1>4 DEF IInv

-----------------------------------------------------------------------------
(* Frames: what a step leaves alone.                                        *)

\* A step of process p that leaves the rows alone and p without a claim.
LEMMA Released ==
    ASSUME IInv, NEW p \in Runners, NEW j \in Free,
           job' = [job EXCEPT ![p] = j],
           UNCHANGED <<row, token, fresh, mails, lost>>
    PROVE  job' \in [Runners -> Jobs] /\ ClaimsOK' /\ Accounted'
<1>1. /\ job'[p] = j
      /\ \A q \in Runners \ {p} : job'[q] = job[q]
      /\ job' \in [Runners -> Jobs]
  BY DEF IInv, TypeOK, Free
<1>2. \A q \in Runners : Holds(q)' => q # p /\ Holds(q)
  BY <1>1 DEF Holds, Free
<1>3. ClaimsOK'
  BY <1>1, <1>2 DEF IInv, ClaimsOK
<1>4. Accounted'
  BY <1>1, <1>2 DEF IInv, Accounted
<1> QED
  BY <1>1, <1>3, <1>4

\* A step that leaves the rows and the runs alone.
LEMMA Untouched ==
    ASSUME IInv, UNCHANGED <<row, token, fresh, job, mails, lost>>
    PROVE  ClaimsOK' /\ Accounted'
BY DEF IInv, ClaimsOK, Accounted, Holds

\* A step that completes only campaigns with no open row and leaves rows alone.
LEMMA CampMoved ==
    ASSUME IInv, UNCHANGED row,
           \A c \in Campaigns : camp'[c] = "none" => camp[c] = "none",
           \A c \in Campaigns : camp'[c] = "completed" =>
               \/ camp[c] = "completed"
               \/ \A a \in Addresses : row[<<c, a>>] \notin {"pending", "sending"}
    PROVE  NoRows' /\ CompletedIsDone'
<1>1. NoRows'
  BY DEF IInv, NoRows, Rows
<1>2. CompletedIsDone'
  <2> SUFFICES ASSUME NEW r \in Rows, camp'[r[1]] = "completed"
               PROVE  row[r] \notin {"pending", "sending"}
    BY DEF CompletedIsDone
  <2>1. r[1] \in Campaigns /\ r[2] \in Addresses /\ r = <<r[1], r[2]>>
    BY DEF Rows
  <2> QED
    BY <2>1 DEF IInv, CompletedIsDone
<1> QED
  BY <1>1, <1>2

\* A step that moves one open row.
LEMMA RowMoved ==
    ASSUME IInv, UNCHANGED camp, NEW r \in Rows, NEW s \in RowStatuses,
           row[r] \in {"pending", "sending"},
           row' = [row EXCEPT ![r] = s]
    PROVE  row' \in [Rows -> RowStatuses] /\ NoRows' /\ CompletedIsDone'
<1>1. /\ row' \in [Rows -> RowStatuses]
      /\ \A q \in Rows \ {r} : row'[q] = row[q]
  BY DEF IInv, TypeOK
<1>2. camp[r[1]] # "none" /\ camp[r[1]] # "completed"
  BY DEF IInv, NoRows, CompletedIsDone
<1>3. NoRows'
  BY <1>1, <1>2 DEF IInv, NoRows
<1>4. CompletedIsDone'
  BY <1>1, <1>2 DEF IInv, CompletedIsDone
<1> QED
  BY <1>1, <1>3, <1>4

\* Finishing a campaign keeps the types and is a change CampMoved allows.
LEMMA FinishedType ==
    ASSUME IInv, NEW c \in Campaigns
    PROVE  /\ Finished(c) \in [Campaigns -> CampStatuses]
           /\ \A d \in Campaigns : Finished(c)[d] = "none" => camp[d] = "none"
           /\ \A d \in Campaigns : Finished(c)[d] = "completed" =>
                 \/ camp[d] = "completed"
                 \/ \A a \in Addresses : row[<<d, a>>] \notin {"pending", "sending"}
<1>1. CASE camp[c] = "sending" /\ \A a \in Addresses : row[<<c, a>>] \notin OpenStatuses
  <2>1. Finished(c) = [camp EXCEPT ![c] = "completed"]
    BY <1>1 DEF Finished
  <2>2. "completed" \in CampStatuses
    BY DEF CampStatuses
  <2> QED
    BY <1>1, <2>1, <2>2 DEF IInv, TypeOK, OpenStatuses
<1>2. CASE ~(camp[c] = "sending" /\ \A a \in Addresses : row[<<c, a>>] \notin OpenStatuses)
  <2>1. Finished(c) = camp
    BY <1>2 DEF Finished
  <2> QED
    BY <2>1 DEF IInv, TypeOK
<1> QED
  BY <1>1, <1>2

-----------------------------------------------------------------------------
(* People.                                                                  *)

LEMMA CreateInv ==
    ASSUME IInv, NEW c \in Campaigns, NEW status \in {"early", "sending"}, Create(c, status)
    PROVE  IInv'
<1>1. /\ camp[c] = "none" /\ camp' = [camp EXCEPT ![c] = status]
      /\ row' = [r \in Rows |-> IF r[1] # c THEN row[r]
                                ELSE IF r[2] \in declined THEN "skipped" ELSE "pending"]
      /\ UNCHANGED <<token, fresh, declined, blocked, stamp, lock, job, mails, lost,
                     refusals, faults>>
  BY DEF Create, claims, lists, history
<1>2. camp' \in [Campaigns -> CampStatuses] /\ row' \in [Rows -> RowStatuses]
  <2>1. status \in CampStatuses /\ {"skipped", "pending"} \subseteq RowStatuses
    BY DEF CampStatuses, RowStatuses, Scheduled, Final
  <2> QED
    BY <1>1, <2>1 DEF IInv, TypeOK
<1>3. TypeOK'
  BY <1>1, <1>2 DEF IInv, TypeOK
<1>4. \A r \in Rows : r[1] = c => row[r] = "none"
  BY <1>1 DEF IInv, NoRows
<1>5. ClaimsOK'
  <2> SUFFICES ASSUME NEW p \in Runners, Holds(p)
               PROVE  ClaimsOK!(p)!2'
    BY <1>1 DEF ClaimsOK, Holds
  <2>1. job[p].cur \in Rows /\ row[job[p].cur] = "sending"
    BY DEF IInv, ClaimsOK
  <2>2. row'[job[p].cur] = "sending"
    BY <1>1, <1>4, <2>1
  <2> QED
    BY <1>1, <2>2 DEF IInv, ClaimsOK
<1>6. Accounted'
  <2>1. \A r \in Rows : row'[r] = row[r] \/ (row[r] = "none" /\ row'[r] \in {"skipped", "pending"})
    BY <1>1, <1>4
  <2>2. \A p \in Runners : Holds(p)' <=> Holds(p)
    BY <1>1 DEF Holds
  <2> QED
    BY <1>1, <2>1, <2>2 DEF IInv, Accounted
<1>7. NoRows' /\ CompletedIsDone'
  <2>1. \A r \in Rows : r[1] = c => camp'[r[1]] = status
    BY <1>1 DEF IInv, TypeOK
  <2>2. \A r \in Rows : r[1] # c => camp'[r[1]] = camp[r[1]] /\ row'[r] = row[r]
    BY <1>1 DEF IInv, TypeOK, Rows
  <2> QED
    BY <2>1, <2>2 DEF IInv, NoRows, CompletedIsDone
<1> QED
  BY <1>3, <1>5, <1>6, <1>7 DEF IInv

LEMMA MoveInv ==
    ASSUME IInv, NEW c \in Campaigns,
           NEW to \in CampStatuses \ {"none", "completed"}, NEW from,
           Move(c, from, to),
           refusals' \in [Campaigns -> Nat]
    PROVE  IInv'
<1>1. /\ camp' = [camp EXCEPT ![c] = to]
      /\ UNCHANGED <<row, token, fresh, declined, blocked, stamp, lock, job, mails, lost, faults>>
  BY DEF Move, claims, lists
<1>2. TypeOK'
  BY <1>1 DEF IInv, TypeOK
<1>3. ClaimsOK' /\ Accounted'
  BY <1>1, Untouched
<1>4. NoRows' /\ CompletedIsDone'
  BY <1>1, CampMoved DEF IInv, TypeOK
<1> QED
  BY <1>2, <1>3, <1>4 DEF IInv

LEMMA PeopleInv ==
    ASSUME IInv, NEW c \in Campaigns, People(c)
    PROVE  IInv'
<1>1. ASSUME UNCHANGED refusals PROVE refusals' \in [Campaigns -> Nat]
  BY <1>1 DEF IInv, TypeOK
<1>2. CASE \E status \in {"early", "sending"} : Create(c, status)
  BY <1>2, CreateInv
<1>3. CASE Resume(c)
  <2>1. refusals' \in [Campaigns -> Nat] /\ Move(c, {"paused"}, "sending")
    BY <1>3 DEF Resume, IInv, TypeOK
  <2> QED
    BY <2>1, MoveInv DEF CampStatuses
<1>4. CASE Pause(c)
  BY <1>1, <1>4, MoveInv DEF Pause, CampStatuses
<1>5. CASE Cancel(c)
  BY <1>1, <1>5, MoveInv DEF Cancel, CampStatuses
<1>6. CASE StartNow(c)
  BY <1>1, <1>6, MoveInv DEF StartNow, CampStatuses
<1>7. CASE Reschedule(c)
  BY <1>1, <1>7, MoveInv DEF Reschedule, CampStatuses, Scheduled
<1>8. CASE Elapse(c)
  BY <1>1, <1>8, MoveInv DEF Elapse, CampStatuses, Scheduled
<1>9. CASE Block(c)
  <2>1. /\ blocked' \in SUBSET Campaigns
        /\ UNCHANGED <<camp, row, token, fresh, declined, stamp, lock, job, mails, lost,
                       refusals, faults>>
    BY <1>9 DEF Block, claims, history, IInv, TypeOK
  <2>2. TypeOK'
    BY <2>1 DEF IInv, TypeOK
  <2>3. ClaimsOK' /\ Accounted' /\ NoRows' /\ CompletedIsDone'
    BY <2>1, Untouched, CampMoved
  <2> QED
    BY <2>2, <2>3 DEF IInv
<1> QED
  BY <1>2, <1>3, <1>4, <1>5, <1>6, <1>7, <1>8, <1>9 DEF People

LEMMA OptOutInv ==
    ASSUME IInv, NEW a \in Addresses, OptOut(a)
    PROVE  IInv'
<1>1. /\ declined' \in SUBSET Addresses
      /\ UNCHANGED <<camp, row, token, fresh, blocked, stamp, lock, job, mails, lost,
                     refusals, faults>>
  BY DEF OptOut, claims, history, IInv, TypeOK
<1>2. TypeOK'
  BY <1>1 DEF IInv, TypeOK
<1>3. ClaimsOK' /\ Accounted' /\ NoRows' /\ CompletedIsDone'
  BY <1>1, Untouched, CampMoved
<1> QED
  BY <1>2, <1>3 DEF IInv

LEMMA SmallTypes ==
    ASSUME NEW j \in Jobs, j.pc # "record"
    PROVE  /\ [j EXCEPT !.pc = "closing"] \in Free
           /\ [j EXCEPT !.pc = "plan"] \in Free
           /\ j.pc = "pick" => [j EXCEPT !.pass = j.runnable] \in Free
           /\ j.pc = "batch" => [j EXCEPT !.deaf = TRUE] \in Free
<1>1. [j EXCEPT !.pc = "closing"] \in Free
  BY DEF Jobs, Records, Free
<1>2. [j EXCEPT !.pc = "plan"] \in Free
  BY DEF Jobs, Records, Free
<1>3. j.pc = "pick" => [j EXCEPT !.pass = j.runnable] \in Free
  BY DEF Jobs, Records, Free
<1>4. j.pc = "batch" => [j EXCEPT !.deaf = TRUE] \in Free
  BY DEF Jobs, Records, Free
<1> QED
  BY <1>1, <1>2, <1>3, <1>4

-----------------------------------------------------------------------------
(* A run between its beginning and its end.                                 *)

\* Claims given up are stale, and no live run holds a stale claim.
LEMMA NotStale ==
    ASSUME IInv, NEW p \in Runners, Holds(p)
    PROVE  ~Stale(job[p].cur)
<1>1. fresh[job[p].cur] + job[p].age >= StaleTicks /\ job[p].cur \in Rows
  BY DEF IInv, ClaimsOK
<1>2. job[p].age \in 0 .. HardTicks
  BY DEF IInv, TypeOK, Jobs, Records
<1>3. fresh[job[p].cur] # 0
  BY <1>1, <1>2, ConstantsAssumption DEF IInv, TypeOK
<1> QED
  BY <1>3 DEF Stale

LEMMA BeginInv ==
    ASSUME IInv, NEW p \in Runners, Begin(p)
    PROVE  IInv'
<1>1. /\ job[p].pc = "idle" /\ lock' = LockTicks
      /\ row' = [r \in Rows |-> IF Stale(r) THEN "interrupted" ELSE row[r]]
      /\ token' = [r \in Rows |-> IF Stale(r) THEN None ELSE token[r]]
      /\ camp' = [c \in Campaigns |-> IF camp[c] = "late" THEN "paused"
                                      ELSE IF camp[c] = "due" THEN "sending" ELSE camp[c]]
      /\ job' = [job EXCEPT ![p] = [job[p] EXCEPT !.pc = "plan"]]
      /\ UNCHANGED <<fresh, declined, blocked, stamp, mails, lost, refusals, faults>>
  BY DEF Begin, lists, history, IInv, TypeOK
<1>2. [job[p] EXCEPT !.pc = "plan"] \in Free /\ ~Holds(p)
  BY <1>1, SmallTypes DEF IInv, TypeOK, Holds
<1>3. /\ job' \in [Runners -> Jobs]
      /\ \A q \in Runners : Holds(q)' => Holds(q) /\ job'[q] = job[q]
  BY <1>1, <1>2 DEF IInv, TypeOK, Free, Holds
<1>4. TypeOK'
  <2>1. row' \in [Rows -> RowStatuses]
    <3>1. "interrupted" \in RowStatuses
      BY DEF RowStatuses, Final
    <3> QED
      BY <1>1, <3>1 DEF IInv, TypeOK
  <2>2. camp' \in [Campaigns -> CampStatuses]
    <3>1. "paused" \in CampStatuses /\ "sending" \in CampStatuses
      BY DEF CampStatuses
    <3> QED
      BY <1>1, <3>1 DEF IInv, TypeOK
  <2>3. token' \in [Rows -> Runners \cup {None}]
    BY <1>1 DEF IInv, TypeOK
  <2>4. lock' \in 0 .. LockTicks
    BY <1>1, ConstantsAssumption
  <2> QED
    BY <1>1, <1>3, <2>1, <2>2, <2>3, <2>4 DEF IInv, TypeOK
<1>5. ClaimsOK'
  <2> SUFFICES ASSUME NEW q \in Runners, Holds(q)'
               PROVE  ClaimsOK!(q)!2'
    BY DEF ClaimsOK
  <2>1. Holds(q) /\ job'[q] = job[q] /\ job[q].cur \in Rows
    BY <1>3 DEF IInv, ClaimsOK
  <2>2. row'[job[q].cur] = row[job[q].cur] /\ token'[job[q].cur] = token[job[q].cur]
    BY <1>1, <2>1, NotStale
  <2> QED
    BY <1>1, <2>1, <2>2 DEF IInv, ClaimsOK
<1>6. Accounted'
  <2>1. \A r \in Rows : row'[r] = row[r] \/ row'[r] = "interrupted"
    BY <1>1
  <2> QED
    BY <1>1, <1>3, <2>1 DEF IInv, Accounted
<1>7. NoRows' /\ CompletedIsDone'
  <2>1. \A r \in Rows : row[r] = "none" => row'[r] = "none"
    BY <1>1 DEF Stale
  <2>2. \A r \in Rows : row'[r] \in {"pending", "sending"} => row[r] \in {"pending", "sending"}
    BY <1>1
  <2>3. \A r \in Rows : /\ camp'[r[1]] = "none" => camp[r[1]] = "none"
                        /\ camp'[r[1]] = "completed" => camp[r[1]] = "completed"
    BY <1>1 DEF Rows
  <2> QED
    BY <2>1, <2>2, <2>3 DEF IInv, NoRows, CompletedIsDone
<1> QED
  BY <1>4, <1>5, <1>6, <1>7 DEF IInv

\* The records of the steps without a claim.
LEMMA PlannedType ==
    ASSUME NEW j \in Jobs, j.pc # "record", NEW runnable \in SUBSET Campaigns, NEW budget \in Int, NEW share \in Int
    PROVE  [j EXCEPT !.pc = "pick", !.runnable = runnable, !.pass = runnable,
                     !.budget = budget, !.share = share] \in Free
BY DEF Jobs, Records, Free

LEMMA PickedType ==
    ASSUME NEW j \in Jobs, j.pc # "record", NEW c \in Campaigns, NEW todo \in SUBSET Addresses,
           NEW refused \in SUBSET Addresses
    PROVE  /\ [j EXCEPT !.pc = "batch", !.camp = c, !.todo = todo, !.refused = refused,
                        !.pass = @ \ {c}] \in Free
           /\ j.pc = "pick" => [j EXCEPT !.pass = @ \ {c}, !.runnable = @ \ {c}] \in Free
BY DEF Jobs, Records, Free

LEMMA BatchEndedType ==
    ASSUME NEW j \in Jobs, j.pc # "record", NEW runnable \in SUBSET Campaigns
    PROVE  [j EXCEPT !.pc = "pick", !.camp = None, !.refused = {}, !.streak = 0,
                     !.stop = FALSE, !.runnable = runnable] \in Free
BY DEF Jobs, Records, Free

LEMMA ClosingType ==
    ASSUME NEW j \in Jobs
    PROVE  [IdleJob EXCEPT !.pc = "closing", !.age = j.age] \in Free
<1>1. j.age \in 0 .. HardTicks
  BY DEF Jobs, Records
<1>2. IdleJob \in Records
  BY IdleType DEF Free, Jobs
<1>3. [IdleJob EXCEPT !.pc = "closing", !.age = j.age] \in Records
  BY <1>1, <1>2 DEF Records
<1>4. /\ [IdleJob EXCEPT !.pc = "closing", !.age = j.age].pc = "closing"
      /\ [IdleJob EXCEPT !.pc = "closing", !.age = j.age].result = "none"
  BY <1>2 DEF IdleJob
<1> QED
  BY <1>3, <1>4 DEF Free, Jobs

LEMMA BudgetType == ASSUME IInv PROVE Budget \in Int
<1>1. IsFiniteSet(Rows)
  BY ConstantsAssumption, FS_Product DEF Rows
<1>2. Cardinality(SentToday) \in Nat /\ Cardinality(SentThisMinute) \in Nat
  BY <1>1, FS_Subset, FS_CardinalityType DEF SentToday, SentThisMinute
<1> QED
  BY <1>2, ConstantsAssumption DEF Budget

LEMMA PlanInv ==
    ASSUME IInv, NEW p \in Runners, Plan(p)
    PROVE  IInv'
<1> DEFINE active == {c \in Campaigns : camp[c] = "sending"}
           runnable == active \ blocked
           n == Cardinality(runnable)
<1>1. /\ camp' = [c \in Campaigns |-> IF c \in active \cap blocked THEN "paused" ELSE camp[c]]
      /\ job[p].pc = "plan"
      /\ UNCHANGED <<row, token, fresh, declined, blocked, stamp, lock, mails, lost, refusals>>
  BY DEF Plan, claims, lists, history
<1>2. faults' \in 0 .. MaxFaults
  <2>1. faults \in 0 .. MaxFaults /\ (faults' = faults \/ (faults < MaxFaults /\ faults' = faults + 1))
    BY DEF Plan, IInv, TypeOK
  <2> QED
    BY <2>1, ConstantsAssumption
<1>3. PICK j \in Free : job' = [job EXCEPT ![p] = j]
  <2>1. job[p] \in Jobs /\ job[p].pc # "record" /\ job \in [Runners -> Jobs]
    BY <1>1 DEF IInv, TypeOK
  <2>2. CASE job' = [job EXCEPT ![p].pc = "closing"]
    <3>1. [job[p] EXCEPT !.pc = "closing"] \in Free
      BY <2>1, SmallTypes
    <3> QED
      BY <2>1, <2>2, <3>1
  <2>3. CASE /\ runnable # {}
             /\ job' = [job EXCEPT ![p].pc = "pick", ![p].runnable = runnable,
                                   ![p].pass = runnable, ![p].budget = Budget,
                                   ![p].share = (Budget + n - 1) \div n]
    <3>1. n \in Nat /\ n # 0
      <4>1. IsFiniteSet(runnable)
        BY ConstantsAssumption, FS_Subset
      <4> QED
        BY <2>3, <4>1, FS_CardinalityType, FS_EmptySet
    <3>2. (Budget + n - 1) \div n \in Int
      BY <3>1, BudgetType
    <3> HIDE DEF runnable, n
    <3>3. runnable \in SUBSET Campaigns
      BY DEF runnable
    <3>4. [job[p] EXCEPT !.pc = "pick", !.runnable = runnable, !.pass = runnable,
                         !.budget = Budget, !.share = (Budget + n - 1) \div n] \in Free
      BY <2>1, <3>2, <3>3, BudgetType, PlannedType
    <3> QED
      BY <2>1, <2>3, <3>4
  <2> QED
    BY <2>2, <2>3 DEF Plan
<1>4. job' \in [Runners -> Jobs] /\ ClaimsOK' /\ Accounted'
  BY <1>1, <1>3, Released
<1>5. camp' \in [Campaigns -> CampStatuses]
  <2>1. "paused" \in CampStatuses
    BY DEF CampStatuses
  <2> QED
    BY <1>1, <2>1 DEF IInv, TypeOK
<1>6. TypeOK'
  BY <1>1, <1>2, <1>4, <1>5 DEF IInv, TypeOK
<1>7. NoRows' /\ CompletedIsDone'
  BY <1>1, CampMoved
<1> QED
  BY <1>4, <1>6, <1>7 DEF IInv

\* A step of a run that may only pause or finish a campaign.
LEMMA RunMoved ==
    ASSUME IInv, NEW p \in Runners, NEW j \in Free, job' = [job EXCEPT ![p] = j],
           UNCHANGED <<row, token, fresh, declined, blocked, stamp, mails, lost, refusals>>,
           lock' \in 0 .. LockTicks, faults' \in 0 .. MaxFaults,
           \/ camp' = camp
           \/ \E c \in Campaigns : camp' = Finished(c) \/ camp' = [camp EXCEPT ![c] = "paused"]
    PROVE  IInv'
<1>1. job' \in [Runners -> Jobs] /\ ClaimsOK' /\ Accounted'
  BY Released
<1>2. /\ camp' \in [Campaigns -> CampStatuses]
      /\ \A c \in Campaigns : camp'[c] = "none" => camp[c] = "none"
      /\ \A c \in Campaigns : camp'[c] = "completed" =>
               \/ camp[c] = "completed"
               \/ \A a \in Addresses : row[<<c, a>>] \notin {"pending", "sending"}
  <2>1. CASE camp' = camp
    BY <2>1 DEF IInv, TypeOK
  <2>2. CASE \E c \in Campaigns : camp' = Finished(c)
    BY <2>2, FinishedType
  <2>3. ASSUME NEW c \in Campaigns, camp' = [camp EXCEPT ![c] = "paused"]
        PROVE  <1>2
    <3>1. "paused" \in CampStatuses
      BY DEF CampStatuses
    <3> QED
      BY <2>3, <3>1 DEF IInv, TypeOK
  <2> QED
    BY <2>1, <2>2, <2>3
<1>3. NoRows' /\ CompletedIsDone'
  BY <1>2, CampMoved
<1>4. TypeOK'
  BY <1>1, <1>2 DEF IInv, TypeOK
<1> QED
  BY <1>1, <1>3, <1>4 DEF IInv

LEMMA PickInv ==
    ASSUME IInv, NEW p \in Runners, NEW c \in Campaigns, Pick(p, c)
    PROVE  IInv'
<1> DEFINE rows == Lowest(Pending(c), Take(p))
<1>1. /\ job[p].pc = "pick"
      /\ UNCHANGED <<row, token, fresh, declined, blocked, stamp, lock, mails, lost, refusals, faults>>
  BY DEF Pick, claims, lists, history
<1>2. job[p] \in Jobs /\ job \in [Runners -> Jobs] /\ rows \in SUBSET Addresses
  BY DEF IInv, TypeOK, Lowest, Pending
<1>3. CASE rows = {}
  <2>1. camp' = Finished(c) /\ job' = [job EXCEPT ![p].pass = @ \ {c}, ![p].runnable = @ \ {c}]
    BY <1>3 DEF Pick
  <2>2. job' = [job EXCEPT ![p] = [job[p] EXCEPT !.pass = @ \ {c}, !.runnable = @ \ {c}]]
    BY <1>2, <2>1
  <2>3. [job[p] EXCEPT !.pass = @ \ {c}, !.runnable = @ \ {c}] \in Free
    BY <1>1, <1>2, PickedType
  <2> QED
    BY <1>1, <2>1, <2>2, <2>3, RunMoved DEF IInv, TypeOK
<1>4. CASE rows # {}
  <2> DEFINE next == [job[p] EXCEPT !.pc = "batch", !.camp = c, !.todo = rows,
                                    !.refused = rows \cap declined, !.pass = @ \ {c}]
  <2>1. camp' = camp /\ job' = [job EXCEPT ![p].pc = "batch", ![p].camp = c, ![p].todo = rows,
                                           ![p].refused = rows \cap declined, ![p].pass = @ \ {c}]
    BY <1>4 DEF Pick
  <2>2. job' = [job EXCEPT ![p] = next]
    BY <1>2, <2>1
  <2>3. next \in Free
    <3> HIDE DEF rows
    <3> QED
      BY <1>1, <1>2, PickedType
  <2> HIDE DEF next
  <2> QED
    BY <1>1, <2>1, <2>2, <2>3, RunMoved DEF IInv, TypeOK
<1> QED
  BY <1>3, <1>4

LEMMA NextPassInv ==
    ASSUME IInv, NEW p \in Runners, NextPass(p)
    PROVE  IInv'
<1>1. /\ job[p].pc = "pick"
      /\ UNCHANGED <<camp, row, token, fresh, declined, blocked, stamp, lock, mails, lost,
                     refusals, faults>>
  BY DEF NextPass, claims, lists, history
<1>2. job[p] \in Jobs /\ job \in [Runners -> Jobs] /\ job[p].runnable \in SUBSET Campaigns
  BY DEF IInv, TypeOK, Jobs, Records
<1>3. PICK j \in Free : job' = [job EXCEPT ![p] = j]
  <2>1. CASE job' = [job EXCEPT ![p].pass = job[p].runnable]
    <3>1. [job[p] EXCEPT !.pass = job[p].runnable] \in Free
      BY <1>1, <1>2, SmallTypes
    <3> QED
      BY <1>2, <2>1, <3>1
  <2>2. CASE job' = [job EXCEPT ![p].pc = "closing"]
    <3>1. [job[p] EXCEPT !.pc = "closing"] \in Free
      BY <1>1, <1>2, SmallTypes
    <3> QED
      BY <1>2, <2>2, <3>1
  <2> QED
    BY <2>1, <2>2 DEF NextPass
<1> QED
  BY <1>1, <1>3, RunMoved DEF IInv, TypeOK

LEMMA BatchEndInv ==
    ASSUME IInv, NEW p \in Runners, BatchEnd(p)
    PROVE  IInv'
<1> DEFINE c == job[p].camp
           more == ~job[p].stop /\ ~Tripped(p)
           runnable == IF more THEN job[p].runnable ELSE job[p].runnable \ {c}
           next == [job[p] EXCEPT !.pc = "pick", !.camp = None, !.refused = {}, !.streak = 0,
                                  !.stop = FALSE, !.runnable = runnable]
<1>1. /\ c \in Campaigns /\ job[p].pc # "record"
      /\ UNCHANGED <<row, token, fresh, declined, blocked, stamp, lock, mails, lost, refusals, faults>>
      /\ \/ camp' = camp
         \/ camp' = Finished(c)
         \/ camp' = [camp EXCEPT ![c] = "paused"]
  BY DEF BatchEnd, claims, lists, history, IInv, TypeOK, Jobs
<1>2. job[p] \in Jobs /\ job \in [Runners -> Jobs] /\ runnable \in SUBSET Campaigns
  BY DEF IInv, TypeOK, Jobs, Records
<1>3. job' = [job EXCEPT ![p] = next]
  BY <1>2 DEF BatchEnd
<1>4. next \in Free
  <2> HIDE DEF runnable
  <2> QED
    BY <1>1, <1>2, BatchEndedType
<1> HIDE DEF next
<1> QED
  BY <1>1, <1>3, <1>4, RunMoved DEF IInv, TypeOK

LEMMA SoftLimitInv ==
    ASSUME IInv, NEW p \in Runners, SoftLimit(p)
    PROVE  IInv'
<1> DEFINE next == [IdleJob EXCEPT !.pc = "closing", !.age = job[p].age]
<1>1. /\ job' = [job EXCEPT ![p] = next]
      /\ UNCHANGED <<camp, row, token, fresh, declined, blocked, stamp, lock, mails, lost, refusals>>
      /\ faults' = faults + 1 /\ faults < MaxFaults
  BY DEF SoftLimit, Close, claims, lists, history
<1>2. next \in Free
  BY ClosingType DEF IInv, TypeOK
<1>3. faults' \in 0 .. MaxFaults /\ lock' \in 0 .. LockTicks
  BY <1>1, ConstantsAssumption DEF IInv, TypeOK
<1> HIDE DEF next
<1> QED
  BY <1>1, <1>2, <1>3, RunMoved

LEMMA SoftLimitSwallowedInv ==
    ASSUME IInv, NEW p \in Runners, SoftLimitSwallowed(p)
    PROVE  IInv'
<1>1. /\ job[p].pc = "batch"
      /\ job' = [job EXCEPT ![p].deaf = TRUE]
      /\ UNCHANGED <<camp, row, token, fresh, declined, blocked, stamp, lock, mails, lost,
                     refusals, faults>>
  BY DEF SoftLimitSwallowed, claims, lists, history
<1>2. job' = [job EXCEPT ![p] = [job[p] EXCEPT !.deaf = TRUE]]
  BY <1>1 DEF IInv, TypeOK
<1>3. [job[p] EXCEPT !.deaf = TRUE] \in Free
  BY <1>1, SmallTypes DEF IInv, TypeOK
<1> QED
  BY <1>1, <1>2, <1>3, RunMoved DEF IInv, TypeOK

LEMMA EndInv ==
    ASSUME IInv, NEW p \in Runners, End(p) \/ Kill(p)
    PROVE  IInv'
<1>1. /\ job' = [job EXCEPT ![p] = IdleJob]
      /\ UNCHANGED <<camp, row, token, fresh, declined, blocked, stamp, mails, lost, refusals>>
      /\ lock' \in {0, lock}
  BY DEF End, Kill, claims, lists, history
<1>2. faults' \in 0 .. MaxFaults /\ lock' \in 0 .. LockTicks
  BY <1>1, ConstantsAssumption DEF IInv, TypeOK, End, Kill
<1> QED
  BY <1>1, <1>2, IdleType, RunMoved

-----------------------------------------------------------------------------
(* One recipient: the steps of a claim.                                     *)

LEMMA ClaimedTypes ==
    ASSUME NEW j \in Jobs, j.pc = "batch", NEW a \in Addresses, NEW r \in Rows
    PROVE  /\ [j EXCEPT !.todo = @ \ {a}] \in Free
           /\ [j EXCEPT !.todo = @ \ {a}, !.cur = r, !.pc = "claimed"] \in Jobs
<1>1. [j EXCEPT !.todo = @ \ {a}] \in Free
  BY DEF Jobs, Records, Free
<1>2. [j EXCEPT !.todo = @ \ {a}, !.cur = r, !.pc = "claimed"] \in Jobs
  BY DEF Jobs, Records
<1> QED
  BY <1>1, <1>2

LEMMA ComposedTypes ==
    ASSUME NEW j \in Jobs, j.pc = "claimed"
    PROVE  /\ [j EXCEPT !.pc = "sending", !.budget = @ - 1] \in Jobs
           /\ [j EXCEPT !.pc = "batch", !.cur = None] \in Free
<1>1. [j EXCEPT !.pc = "sending", !.budget = @ - 1] \in Jobs
  <2>1. j.budget - 1 \in Int
    BY DEF Jobs, Records
  <2> QED
    BY <2>1 DEF Jobs, Records
<1>2. [j EXCEPT !.pc = "batch", !.cur = None] \in Free
  BY DEF Jobs, Records, Free
<1> QED
  BY <1>1, <1>2

LEMMA AnsweredType ==
    ASSUME NEW j \in Jobs, j.pc = "sending", NEW result \in Results
    PROVE  [j EXCEPT !.pc = "record", !.result = result] \in Jobs
BY ConstantsAssumption DEF Jobs, Records

LEMMA RecordedTypes ==
    ASSUME NEW j \in Jobs, j.pc = "record", NEW streak \in Nat, NEW todo \in SUBSET Addresses
    PROVE  /\ [j EXCEPT !.pc = "batch", !.cur = None, !.result = "none", !.streak = streak,
                        !.todo = todo] \in Free
           /\ [j EXCEPT !.pc = "batch", !.cur = None, !.result = "none", !.todo = {},
                        !.stop = TRUE, !.budget = @ + 1] \in Free
<1>1. [j EXCEPT !.pc = "batch", !.cur = None, !.result = "none", !.streak = streak,
                !.todo = todo] \in Free
  BY DEF Jobs, Records, Free
<1>2. [j EXCEPT !.pc = "batch", !.cur = None, !.result = "none", !.todo = {},
                !.stop = TRUE, !.budget = @ + 1] \in Free
  <2>1. j.budget + 1 \in Int
    BY DEF Jobs, Records
  <2> QED
    BY <2>1 DEF Jobs, Records, Free
<1> QED
  BY <1>1, <1>2

\* What the claim protocol is for: no other run holds a row that is pending, or
\* a row that this run holds.
LEMMA Others ==
    ASSUME IInv, NEW p \in Runners, NEW r \in Rows,
           row[r] = "pending" \/ (Holds(p) /\ job[p].cur = r),
           NEW q \in Runners \ {p}, Holds(q)
    PROVE  job[q].cur # r /\ job[q].cur \in Rows
BY DEF IInv, ClaimsOK

\* Process p is done with row r: nobody else is touched.
LEMMA Done ==
    ASSUME IInv, NEW p \in Runners, NEW r \in Rows, Holds(p), job[p].cur = r,
           NEW j \in Free, job' = [job EXCEPT ![p] = j],
           NEW s \in RowStatuses, s \in {"pending", "sent", "refused", "missing", "skipped"},
           row' = [row EXCEPT ![r] = s],
           token' = [token EXCEPT ![r] = None], fresh' = [fresh EXCEPT ![r] = 0],
           (s = "sent") <=> (job[p].result = "accepted"),
           UNCHANGED <<camp, mails, lost>>
    PROVE  /\ job' \in [Runners -> Jobs] /\ row' \in [Rows -> RowStatuses]
           /\ token' \in [Rows -> Runners \cup {None}] /\ fresh' \in [Rows -> 0 .. StaleTicks]
           /\ ClaimsOK' /\ Accounted' /\ NoRows' /\ CompletedIsDone'
<1>1. /\ job'[p] = j /\ job' \in [Runners -> Jobs]
      /\ \A q \in Runners \ {p} : job'[q] = job[q]
  BY DEF IInv, TypeOK, Free
<1>2. \A q \in Runners : Holds(q)' => q # p /\ Holds(q)
  BY <1>1 DEF Holds, Free
<1>3. \A x \in Rows \ {r} : row'[x] = row[x] /\ token'[x] = token[x] /\ fresh'[x] = fresh[x]
  BY DEF IInv, TypeOK
<1>4. row'[r] = s
  BY DEF IInv, TypeOK
<1>5. ClaimsOK'
  <2> SUFFICES ASSUME NEW q \in Runners, Holds(q)'
               PROVE  ClaimsOK!(q)!2'
    BY DEF ClaimsOK
  <2>1. q # p /\ Holds(q) /\ job'[q] = job[q]
    BY <1>1, <1>2
  <2>2. job[q].cur \in Rows \ {r}
    BY <2>1, Others
  <2> QED
    BY <1>3, <2>1, <2>2 DEF IInv, ClaimsOK
<1>6. Accounted'
  <2>1. mails[r] = lost[r] + (IF s = "sent" THEN 1 ELSE 0)
    BY DEF IInv, Accounted
  <2>2. \A q \in Runners : Holds(q)' =>
           mails[job'[q].cur] = lost[job'[q].cur] + (IF job'[q].result = "accepted" THEN 1 ELSE 0)
    BY <1>1, <1>2 DEF IInv, Accounted
  <2>3. \A x \in Rows : row'[x] \in {"none", "pending", "refused", "missing", "skipped"}
                        => mails[x] = lost[x]
    BY <1>3, <1>4, <2>1 DEF IInv, Accounted, TypeOK
  <2>4. \A x \in Rows : row'[x] = "sent" => mails[x] = lost[x] + 1
    BY <1>3, <1>4, <2>1 DEF IInv, Accounted
  <2> QED
    BY <2>2, <2>3, <2>4 DEF IInv, Accounted
<1>7. row' \in [Rows -> RowStatuses] /\ NoRows' /\ CompletedIsDone'
  <2>1. row[r] = "sending"
    BY DEF IInv, ClaimsOK
  <2> QED
    BY <2>1, RowMoved
<1>8. token' \in [Rows -> Runners \cup {None}] /\ fresh' \in [Rows -> 0 .. StaleTicks]
  <2>1. 0 \in 0 .. StaleTicks
    BY ConstantsAssumption
  <2> QED
    BY <2>1 DEF IInv, TypeOK
<1> QED
  BY <1>1, <1>5, <1>6, <1>7, <1>8

LEMMA ClaimInv ==
    ASSUME IInv, NEW p \in Runners, NEW a \in Addresses, Claim(p, a)
    PROVE  IInv'
<1> DEFINE r == <<job[p].camp, a>>
<1>1. /\ job[p].pc = "batch"
      /\ UNCHANGED <<camp, declined, blocked, stamp, lock, mails, lost, refusals, faults>>
  BY DEF Claim, lists, history
<1>2. /\ job[p] \in Jobs /\ job \in [Runners -> Jobs]
      /\ job[p].camp \in Campaigns /\ job[p].result = "none"
      /\ job[p].age \in 0 .. HardTicks
  BY <1>1 DEF IInv, TypeOK, Jobs, Records
<1>3. r \in Rows
  BY <1>2 DEF Rows
<1> HIDE DEF r
<1>4. CASE row[r] # "pending"
  <2>1. /\ job' = [job EXCEPT ![p].todo = @ \ {a}]
        /\ UNCHANGED <<row, token, fresh>>
    BY <1>4 DEF Claim, Claimable, claims, r
  <2>2. job' = [job EXCEPT ![p] = [job[p] EXCEPT !.todo = @ \ {a}]]
    BY <1>2, <2>1
  <2>3. [job[p] EXCEPT !.todo = @ \ {a}] \in Free
    BY <1>1, <1>2, <1>3, ClaimedTypes
  <2> QED
    BY <1>1, <2>1, <2>2, <2>3, RunMoved DEF IInv, TypeOK
<1>5. CASE row[r] = "pending"
  <2> DEFINE next == [job[p] EXCEPT !.todo = @ \ {a}, !.cur = r, !.pc = "claimed"]
  <2>1. /\ row' = [row EXCEPT ![r] = "sending"] /\ token' = [token EXCEPT ![r] = p]
        /\ fresh' = [fresh EXCEPT ![r] = StaleTicks]
        /\ job' = [job EXCEPT ![p] = next]
    BY <1>2, <1>5 DEF Claim, Claimable, r
  <2>9. next \in Jobs
    BY <1>1, <1>2, <1>3, ClaimedTypes
  <2>2. /\ next \in Jobs /\ next.cur = r /\ next.age = job[p].age /\ next.pc = "claimed"
        /\ next.result = "none"
    BY <1>2, <2>9 DEF Jobs, Records
  <2> HIDE DEF next
  <2>3. /\ job' \in [Runners -> Jobs] /\ job'[p] = next
        /\ \A q \in Runners \ {p} : job'[q] = job[q]
    BY <2>1, <2>2 DEF IInv, TypeOK
  <2>4. "sending" \in RowStatuses
    BY DEF RowStatuses
  <2>5. row' \in [Rows -> RowStatuses] /\ NoRows' /\ CompletedIsDone'
    BY <1>1, <1>3, <1>5, <2>1, <2>4, RowMoved
  <2>6. TypeOK'
    <3>1. StaleTicks \in 0 .. StaleTicks
      BY ConstantsAssumption
    <3> QED
      BY <1>1, <2>1, <2>3, <2>5, <3>1 DEF IInv, TypeOK
  <2>7. ClaimsOK'
    <3> SUFFICES ASSUME NEW q \in Runners, Holds(q)'
                 PROVE  ClaimsOK!(q)!2'
      BY DEF ClaimsOK
    <3>1. CASE q = p
      <4>1. row'[r] = "sending" /\ token'[r] = p /\ fresh'[r] = StaleTicks
        BY <1>3, <2>1 DEF IInv, TypeOK
      <4>2. fresh'[r] + job'[p].age >= StaleTicks
        BY <1>2, <2>2, <2>3, <4>1, ConstantsAssumption
      <4> QED
        BY <1>3, <2>2, <2>3, <3>1, <4>1, <4>2
    <3>2. CASE q # p
      <4>1. Holds(q) /\ job'[q] = job[q]
        BY <2>3, <3>2 DEF Holds
      <4>2. job[q].cur \in Rows \ {r}
        BY <1>3, <1>5, <3>2, <4>1, Others
      <4> QED
        BY <2>1, <4>1, <4>2 DEF IInv, ClaimsOK, TypeOK
    <3> QED
      BY <3>1, <3>2
  <2>8. Accounted'
    <3>1. \A x \in Rows \ {r} : row'[x] = row[x]
      BY <2>1 DEF IInv, TypeOK
    <3>2. row'[r] = "sending"
      BY <1>3, <2>1 DEF IInv, TypeOK
    <3>3. \A x \in Rows : row'[x] \in {"none", "pending", "refused", "missing", "skipped"}
                          => mails[x] = lost[x]
      BY <3>1, <3>2 DEF IInv, Accounted
    <3>4. \A x \in Rows : row'[x] = "sent" => mails[x] = lost[x] + 1
      BY <3>1, <3>2 DEF IInv, Accounted
    <3>5. ASSUME NEW q \in Runners, Holds(q)'
          PROVE  mails[job'[q].cur] = lost[job'[q].cur]
                                      + (IF job'[q].result = "accepted" THEN 1 ELSE 0)
      <4>1. CASE q = p
        <5>1. mails[r] = lost[r] /\ lost[r] \in Nat
          BY <1>3, <1>5 DEF IInv, Accounted, TypeOK
        <5> QED
          BY <2>2, <2>3, <4>1, <5>1
      <4>2. CASE q # p
        <5>1. Holds(q) /\ job'[q] = job[q]
          BY <2>3, <3>5, <4>2 DEF Holds
        <5> QED
          BY <5>1 DEF IInv, Accounted
      <4> QED
        BY <4>1, <4>2
    <3> QED
      BY <1>1, <3>3, <3>4, <3>5 DEF IInv, Accounted
  <2> QED
    BY <2>5, <2>6, <2>7, <2>8 DEF IInv
<1> QED
  BY <1>4, <1>5

LEMMA ComposeInv ==
    ASSUME IInv, NEW p \in Runners, Compose(p)
    PROVE  IInv'
<1> DEFINE r == job[p].cur
           mark == IF r[2] \in job[p].refused THEN "skipped"
                   ELSE IF r \in Unfilled THEN "missing" ELSE "sending"
<1>1. /\ job[p].pc = "claimed" /\ Holds(p) /\ row' = [row EXCEPT ![r] = mark]
      /\ UNCHANGED <<camp, declined, blocked, stamp, lock, mails, lost, refusals, faults>>
  BY DEF Compose, lists, history, Holds
<1>2. /\ job[p] \in Jobs /\ job \in [Runners -> Jobs] /\ job[p].result = "none"
      /\ r \in Rows /\ row[r] = "sending"
  BY <1>1 DEF IInv, TypeOK, Jobs, Records, ClaimsOK
<1>3. CASE mark = "sending"
  <2> DEFINE next == [job[p] EXCEPT !.pc = "sending", !.budget = @ - 1]
  <2>1. job' = [job EXCEPT ![p] = next] /\ UNCHANGED <<token, fresh>>
    BY <1>2, <1>3 DEF Compose, claims
  <2>2. next \in Jobs
    BY <1>1, <1>2, ComposedTypes
  <2>3. /\ next.cur = job[p].cur /\ next.age = job[p].age /\ next.result = job[p].result
        /\ next.pc = "sending"
    BY <1>2 DEF Jobs, Records
  <2> HIDE DEF next
  <2>4. /\ job' \in [Runners -> Jobs] /\ job'[p] = next
        /\ \A q \in Runners \ {p} : job'[q] = job[q]
    BY <2>1, <2>2 DEF IInv, TypeOK
  <2>5. row' = row
    BY <1>1, <1>2, <1>3 DEF IInv, TypeOK
  <2>6. \A q \in Runners : /\ Holds(q)' => Holds(q)
                           /\ job'[q].cur = job[q].cur /\ job'[q].age = job[q].age
                           /\ job'[q].result = job[q].result
    BY <1>1, <2>3, <2>4 DEF Holds
  <2>7. ClaimsOK'
    BY <2>1, <2>5, <2>6 DEF IInv, ClaimsOK
  <2>8. Accounted'
    BY <1>1, <2>5, <2>6 DEF IInv, Accounted
  <2>9. NoRows' /\ CompletedIsDone' /\ TypeOK'
    BY <1>1, <2>1, <2>4, <2>5 DEF IInv, TypeOK, NoRows, CompletedIsDone
  <2> QED
    BY <2>7, <2>8, <2>9 DEF IInv
<1>4. CASE mark # "sending"
  <2> DEFINE next == [job[p] EXCEPT !.pc = "batch", !.cur = None]
  <2>1. /\ job' = [job EXCEPT ![p] = next]
        /\ token' = [token EXCEPT ![r] = None] /\ fresh' = [fresh EXCEPT ![r] = 0]
    BY <1>2, <1>4 DEF Compose, Unclaim
  <2>2. next \in Free
    BY <1>1, <1>2, ComposedTypes
  <2>3. mark \in RowStatuses /\ mark \in {"pending", "sent", "refused", "missing", "skipped"}
        /\ mark # "sent"
    BY <1>4 DEF RowStatuses, Final
  <2> HIDE DEF next, mark
  <2>4. /\ job' \in [Runners -> Jobs] /\ row' \in [Rows -> RowStatuses]
        /\ token' \in [Rows -> Runners \cup {None}] /\ fresh' \in [Rows -> 0 .. StaleTicks]
        /\ ClaimsOK' /\ Accounted' /\ NoRows' /\ CompletedIsDone'
    BY <1>1, <1>2, <2>1, <2>2, <2>3, Done
  <2>5. TypeOK'
    BY <1>1, <2>4 DEF IInv, TypeOK
  <2> QED
    BY <2>4, <2>5 DEF IInv
<1> QED
  BY <1>3, <1>4

LEMMA RecordAnswerInv ==
    ASSUME IInv, NEW p \in Runners, RecordAnswer(p)
    PROVE  IInv'
<1> DEFINE r == job[p].cur
           ok == job[p].result = "accepted"
           streak == IF ok THEN 0 ELSE job[p].streak + 1
           todo == IF streak >= Streak THEN {} ELSE job[p].todo
           next == [job[p] EXCEPT !.pc = "batch", !.cur = None, !.result = "none",
                                  !.streak = streak, !.todo = todo]
           s == Mark(job[p].result)
<1>1. /\ job[p].pc = "record" /\ Holds(p) /\ row' = [row EXCEPT ![r] = s]
      /\ token' = [token EXCEPT ![r] = None] /\ fresh' = [fresh EXCEPT ![r] = 0]
      /\ stamp' = [stamp EXCEPT ![r] = "minute"]
      /\ UNCHANGED <<camp, declined, blocked, lock, mails, lost, faults>>
  BY DEF RecordAnswer, Unclaim, lists, Holds
<1>2. /\ job[p] \in Jobs /\ job \in [Runners -> Jobs]
      /\ job[p].streak \in Nat /\ job[p].todo \in SUBSET Addresses
      /\ r \in Rows /\ row[r] = "sending"
  BY <1>1 DEF IInv, TypeOK, Jobs, Records, ClaimsOK
<1>3. job' = [job EXCEPT ![p] = next]
  BY <1>2 DEF RecordAnswer
<1>4. next \in Free
  <2>1. streak \in Nat /\ todo \in SUBSET Addresses
    BY <1>2
  <2> HIDE DEF streak, todo
  <2> QED
    BY <1>1, <1>2, <2>1, RecordedTypes
<1>5. s \in RowStatuses /\ s \in {"pending", "sent", "refused", "missing", "skipped"}
      /\ (s = "sent" <=> ok)
  BY DEF Mark, RowStatuses, Final
<1>6. refusals' \in [Campaigns -> Nat]
  <2>1. refusals' = [refusals EXCEPT ![r[1]] = IF ok THEN 0 ELSE @ + 1] /\ r[1] \in Campaigns
    BY <1>2 DEF RecordAnswer, Rows
  <2> HIDE DEF ok, r
  <2> QED
    BY <2>1 DEF IInv, TypeOK
<1> HIDE DEF next, s
<1>7. /\ job' \in [Runners -> Jobs] /\ row' \in [Rows -> RowStatuses]
      /\ token' \in [Rows -> Runners \cup {None}] /\ fresh' \in [Rows -> 0 .. StaleTicks]
      /\ ClaimsOK' /\ Accounted' /\ NoRows' /\ CompletedIsDone'
  BY <1>1, <1>2, <1>3, <1>4, <1>5, Done
<1>8. TypeOK'
  <2>1. stamp' \in [Rows -> {"minute", "day", "old"}]
    BY <1>1 DEF IInv, TypeOK
  <2> QED
    BY <1>1, <1>6, <1>7, <2>1 DEF IInv, TypeOK
<1> QED
  BY <1>7, <1>8 DEF IInv

LEMMA RecordFailureInv ==
    ASSUME IInv, NEW p \in Runners, RecordFailure(p)
    PROVE  IInv'
<1> DEFINE r == job[p].cur
           next == [job[p] EXCEPT !.pc = "batch", !.cur = None, !.result = "none", !.todo = {},
                                  !.stop = TRUE, !.budget = @ + 1]
<1>1. /\ job[p].pc = "record" /\ Holds(p) /\ job[p].result # "accepted"
      /\ UNCHANGED <<camp, declined, blocked, stamp, lock, mails, lost, refusals, faults>>
  BY DEF RecordFailure, lists, history, Holds
<1>2. /\ job[p] \in Jobs /\ job \in [Runners -> Jobs]
      /\ r \in Rows /\ row[r] = "sending" /\ token[r] = p
  BY <1>1 DEF IInv, TypeOK, ClaimsOK
<1>3. /\ row' = [row EXCEPT ![r] = "pending"]
      /\ token' = [token EXCEPT ![r] = None] /\ fresh' = [fresh EXCEPT ![r] = 0]
      /\ job' = [job EXCEPT ![p] = next]
  BY <1>2 DEF RecordFailure, Unclaim
<1>4. next \in Free
  BY <1>1, <1>2, RecordedTypes, 0 \in Nat, {} \in SUBSET Addresses
<1>5. "pending" \in RowStatuses
  BY DEF RowStatuses
<1> HIDE DEF next
<1>6. /\ job' \in [Runners -> Jobs] /\ row' \in [Rows -> RowStatuses]
      /\ token' \in [Rows -> Runners \cup {None}] /\ fresh' \in [Rows -> 0 .. StaleTicks]
      /\ ClaimsOK' /\ Accounted' /\ NoRows' /\ CompletedIsDone'
  BY <1>1, <1>2, <1>3, <1>4, <1>5, Done
<1>7. TypeOK'
  BY <1>1, <1>6 DEF IInv, TypeOK
<1> QED
  BY <1>6, <1>7 DEF IInv

LEMMA RelayInv ==
    ASSUME IInv, NEW p \in Runners, NEW result \in Results, Relay(p, result)
    PROVE  IInv'
<1> DEFINE r == job[p].cur
           next == [job[p] EXCEPT !.pc = "record", !.result = result]
           m == IF result \in {"accepted", "lost"} THEN 1 ELSE 0
           l == IF result = "lost" THEN 1 ELSE 0
<1>1. /\ job[p].pc = "sending" /\ Holds(p)
      /\ mails' = [mails EXCEPT ![r] = @ + m] /\ lost' = [lost EXCEPT ![r] = @ + l]
      /\ UNCHANGED <<camp, row, token, fresh, declined, blocked, stamp, lock, refusals>>
  BY DEF Relay, claims, lists, Holds
<1>2. /\ job[p] \in Jobs /\ job \in [Runners -> Jobs] /\ job[p].result = "none"
      /\ r \in Rows /\ row[r] = "sending"
  BY <1>1 DEF IInv, TypeOK, Jobs, Records, ClaimsOK
<1>3. job' = [job EXCEPT ![p] = next]
  BY <1>2 DEF Relay
<1>4. next \in Jobs
  BY <1>1, <1>2, AnsweredType
<1>5. next.cur = r /\ next.age = job[p].age /\ next.result = result
  BY <1>2 DEF Jobs, Records
<1> HIDE DEF next
<1>6. /\ job' \in [Runners -> Jobs] /\ job'[p] = next
      /\ \A q \in Runners \ {p} : job'[q] = job[q]
  BY <1>3, <1>4 DEF IInv, TypeOK
<1>7. \A q \in Runners : /\ Holds(q)' => Holds(q)
                         /\ job'[q].cur = job[q].cur /\ job'[q].age = job[q].age
  BY <1>1, <1>5, <1>6 DEF Holds
<1>8. ClaimsOK'
  BY <1>1, <1>7 DEF IInv, ClaimsOK
<1>9. mails[r] = lost[r] /\ mails[r] \in Nat /\ lost[r] \in Nat
  BY <1>1, <1>2 DEF IInv, Accounted, TypeOK
<1>10. /\ mails'[r] = mails[r] + m /\ lost'[r] = lost[r] + l
       /\ \A x \in Rows \ {r} : mails'[x] = mails[x] /\ lost'[x] = lost[x]
  BY <1>1, <1>2 DEF IInv, TypeOK
<1>11. Accounted'
  <2>1. mails'[r] = lost'[r] + (IF result = "accepted" THEN 1 ELSE 0)
    BY <1>9, <1>10
  <2>2. ASSUME NEW q \in Runners, Holds(q)'
        PROVE  mails'[job'[q].cur] = lost'[job'[q].cur]
                                     + (IF job'[q].result = "accepted" THEN 1 ELSE 0)
    <3>1. CASE q = p
      BY <1>5, <1>6, <2>1, <3>1
    <3>2. CASE q # p
      <4>1. Holds(q) /\ job'[q] = job[q]
        BY <1>6, <1>7, <2>2, <3>2
      <4>2. job[q].cur \in Rows \ {r}
        BY <1>1, <1>2, <3>2, <4>1, Others
      <4> QED
        BY <1>10, <4>1, <4>2 DEF IInv, Accounted
    <3> QED
      BY <3>1, <3>2
  <2>3. \A x \in Rows : mails'[x] \in {lost'[x], lost'[x] + 1}
    <3>1. \A x \in Rows \ {r} : mails'[x] \in {lost'[x], lost'[x] + 1}
      BY <1>10 DEF IInv, Accounted
    <3>2. mails'[r] \in {lost'[r], lost'[r] + 1}
      BY <1>9, <1>10, <2>1
    <3> QED
      BY <3>1, <3>2
  <2>4. \A x \in Rows : row[x] \in {"none", "pending", "refused", "missing", "skipped"}
                        => mails'[x] = lost'[x]
    BY <1>2, <1>10 DEF IInv, Accounted
  <2>5. \A x \in Rows : row[x] = "sent" => mails'[x] = lost'[x] + 1
    BY <1>2, <1>10 DEF IInv, Accounted
  <2> QED
    BY <1>1, <2>2, <2>3, <2>4, <2>5 DEF Accounted
<1>12. TypeOK'
  <2>1. mails' \in [Rows -> Nat] /\ lost' \in [Rows -> Nat]
    <3>1. mails[r] + m \in Nat /\ lost[r] + l \in Nat
      BY <1>9
    <3>2. /\ mails' = [mails EXCEPT ![r] = mails[r] + m]
          /\ lost' = [lost EXCEPT ![r] = lost[r] + l]
      BY <1>1
    <3> HIDE DEF m, l, r
    <3> QED
      BY <1>2, <3>1, <3>2 DEF IInv, TypeOK
  <2>2. faults' \in 0 .. MaxFaults
    <3>1. faults' = faults \/ (faults < MaxFaults /\ faults' = faults + 1)
      BY DEF Relay, IInv, TypeOK
    <3> QED
      BY <3>1, ConstantsAssumption DEF IInv, TypeOK
  <2> QED
    BY <1>1, <1>6, <2>1, <2>2 DEF IInv, TypeOK
<1>13. NoRows' /\ CompletedIsDone'
  BY <1>1 DEF IInv, NoRows, CompletedIsDone
<1> QED
  BY <1>8, <1>11, <1>12, <1>13 DEF IInv

-----------------------------------------------------------------------------
(* Time.                                                                    *)

LEMMA AgedType ==
    ASSUME NEW j \in Jobs, j.age < HardTicks
    PROVE  [j EXCEPT !.age = @ + 1] \in Jobs
<1>1. j.age + 1 \in 0 .. HardTicks
  BY ConstantsAssumption DEF Jobs, Records
<1> QED
  BY <1>1 DEF Jobs, Records

LEMMA TickInv ==
    ASSUME IInv, Tick
    PROVE  IInv'
<1>1. /\ \A p \in Runners : job[p].pc # "idle" => job[p].age < HardTicks
      /\ lock' = Down(lock) /\ fresh' = [r \in Rows |-> Down(fresh[r])]
      /\ job' = [p \in Runners |-> IF job[p].pc = "idle" THEN job[p]
                                   ELSE [job[p] EXCEPT !.age = @ + 1]]
      /\ UNCHANGED <<camp, row, token, declined, blocked, stamp, mails, lost, refusals, faults>>
  BY DEF Tick, lists, history
<1>0. ASSUME NEW n \in Nat, NEW i \in 0 .. n PROVE Down(i) \in 0 .. n
  BY <1>0 DEF Down
<1>2. \A p \in Runners : job[p] \in Jobs /\ job'[p] \in Jobs
  BY <1>1, AgedType DEF IInv, TypeOK
<1>3. \A p \in Runners : /\ job'[p].pc = job[p].pc /\ job'[p].cur = job[p].cur
                         /\ job'[p].result = job[p].result
                         /\ Holds(p) => job'[p].age = job[p].age + 1
  <2> SUFFICES ASSUME NEW p \in Runners
               PROVE  /\ job'[p].pc = job[p].pc /\ job'[p].cur = job[p].cur
                      /\ job'[p].result = job[p].result
                      /\ Holds(p) => job'[p].age = job[p].age + 1
    OBVIOUS
  <2>1. CASE job[p].pc = "idle"
    BY <1>1, <2>1 DEF Holds
  <2>2. CASE job[p].pc # "idle"
    <3>1. job'[p] = [job[p] EXCEPT !.age = @ + 1]
      BY <1>1, <2>2
    <3> QED
      BY <1>2, <3>1 DEF Jobs, Records
  <2> QED
    BY <2>1, <2>2
<1>4. TypeOK'
  <2>1. job' \in [Runners -> Jobs]
    BY <1>1, <1>2
  <2>2. fresh' \in [Rows -> 0 .. StaleTicks]
    BY <1>1, <1>0, ConstantsAssumption DEF IInv, TypeOK
  <2>3. lock' \in 0 .. LockTicks
    BY <1>1, <1>0, ConstantsAssumption DEF IInv, TypeOK
  <2> QED
    BY <1>1, <2>1, <2>2, <2>3 DEF IInv, TypeOK
<1>5. ClaimsOK'
  <2> SUFFICES ASSUME NEW p \in Runners, Holds(p)
               PROVE  ClaimsOK!(p)!2'
    BY <1>3 DEF ClaimsOK, Holds
  <2>1. job[p].cur \in Rows /\ fresh[job[p].cur] + job[p].age >= StaleTicks
    BY DEF IInv, ClaimsOK
  <2>2. fresh[job[p].cur] \in Nat /\ job[p].age \in Nat
    BY <1>2, <2>1 DEF IInv, TypeOK, Jobs, Records
  <2>3. fresh'[job[p].cur] >= fresh[job[p].cur] - 1
    BY <1>1, <2>1, <2>2 DEF Down
  <2>4. fresh'[job[p].cur] \in Nat
    BY <1>4, <2>1 DEF TypeOK
  <2>5. fresh'[job[p].cur] + job'[p].age >= StaleTicks
    BY <1>3, <2>1, <2>2, <2>3, <2>4, ConstantsAssumption
  <2> QED
    BY <1>1, <1>3, <2>5 DEF IInv, ClaimsOK
<1>6. Accounted'
  BY <1>1, <1>3 DEF IInv, Accounted, Holds
<1>7. NoRows' /\ CompletedIsDone'
  BY <1>1, CampMoved
<1> QED
  BY <1>4, <1>5, <1>6, <1>7 DEF IInv

LEMMA ClockInv ==
    ASSUME IInv, NewMinute \/ NewDay
    PROVE  IInv'
<1>1. /\ stamp' \in [Rows -> {"minute", "day", "old"}]
      /\ UNCHANGED <<camp, row, token, fresh, declined, blocked, lock, job, mails, lost,
                     refusals, faults>>
  BY DEF NewMinute, NewDay, claims, lists, history, IInv, TypeOK
<1>2. TypeOK'
  BY <1>1 DEF IInv, TypeOK
<1>3. ClaimsOK' /\ Accounted' /\ NoRows' /\ CompletedIsDone'
  BY <1>1, Untouched, CampMoved
<1> QED
  BY <1>2, <1>3 DEF IInv

-----------------------------------------------------------------------------
(* The invariant, and what follows from it.                                 *)

LEMMA StutterInv ==
    ASSUME IInv, UNCHANGED vars
    PROVE  IInv'
BY DEF vars, IInv, TypeOK, ClaimsOK, Accounted, NoRows, CompletedIsDone, Holds

LEMMA NextInv ==
    ASSUME IInv, [Next]_vars
    PROVE  IInv'
<1>1. ASSUME NEW p \in Runners, Run(p)
      PROVE  IInv'
  BY <1>1, BeginInv, PlanInv, PickInv, NextPassInv, ClaimInv, ComposeInv, RelayInv,
     RecordAnswerInv, RecordFailureInv, BatchEndInv, EndInv DEF Run, Sending
<1>2. ASSUME NEW p \in Runners, CutShort(p)
      PROVE  IInv'
  BY <1>2, SoftLimitInv, SoftLimitSwallowedInv, EndInv DEF CutShort
<1> QED
  BY <1>1, <1>2, PeopleInv, OptOutInv, TickInv, ClockInv, StutterInv DEF Next

\* The inductive invariant: types, the claims of the runs in progress, what the
\* rows say of the emails, and the rows of campaigns that are over or not there.
THEOREM Invariant == Spec => []IInv
BY InitInv, NextInv, PTL DEF Spec

\* Two runs that overlap never mail the same person, and nobody is mailed twice
\* unless the relay's answer was lost: _claim needs no help from the lock.
THEOREM MailedOnceAlways == Spec => []MailedOnce
<1>1. IInv => MailedOnce
  <2> SUFFICES ASSUME IInv PROVE MailedOnce
    OBVIOUS
  <2>1. \A r \in Rows : mails[r] <= 1 + lost[r]
    BY DEF IInv, Accounted, TypeOK
  <2>2. \A p, q \in Runners : Holds(p) /\ Holds(q) /\ job[p].cur = job[q].cur => p = q
    BY DEF IInv, ClaimsOK
  <2> QED
    BY <2>1, <2>2 DEF MailedOnce
<1> QED
  BY <1>1, Invariant, PTL

\* A campaign that is over has nobody left to mail.
THEOREM CompletedStaysDone == Spec => []CompletedIsDone
<1>1. IInv => CompletedIsDone
  BY DEF IInv
<1> QED
  BY <1>1, Invariant, PTL

-----------------------------------------------------------------------------
(* The runner implements its contract.                                      *)

LEMMA Stutter ==
    ASSUME UNCHANGED <<row, mails, lost>>
    PROVE  [Contract!Next]_(<<row, mails, lost>>)
OBVIOUS

LEMMA CreateRefines ==
    ASSUME IInv, NEW c \in Campaigns, NEW status, Create(c, status)
    PROVE  Contract!Next
<1> DEFINE rows == {r \in Rows : r[1] = c}
<1>1. /\ camp[c] = "none"
      /\ row' = [r \in Rows |-> IF r[1] # c THEN row[r]
                                ELSE IF r[2] \in declined THEN "skipped" ELSE "pending"]
      /\ UNCHANGED <<mails, lost>>
  BY DEF Create, history
<1>2. \A r \in rows : row[r] = "none" /\ row'[r] \in {"pending", "skipped"}
  BY <1>1 DEF IInv, NoRows
<1>3. \A r \in Rows \ rows : row'[r] = row[r]
  BY <1>1
<1>4. row' \in [Rows -> RowStatuses]
  <2>1. {"skipped", "pending"} \subseteq RowStatuses
    BY DEF RowStatuses, Final
  <2> QED
    BY <1>1, <2>1 DEF IInv, TypeOK
<1>5. Contract!Create(rows)
  BY <1>1, <1>2, <1>3, <1>4 DEF Contract!Create, RowStatuses, Final
<1> QED
  BY <1>5 DEF Contract!Next

LEMMA BeginRefines ==
    ASSUME IInv, NEW p \in Runners, Begin(p)
    PROVE  Contract!Next
<1> DEFINE rows == {r \in Rows : Stale(r)}
<1>1. /\ row' = [r \in Rows |-> IF Stale(r) THEN "interrupted" ELSE row[r]]
      /\ UNCHANGED <<mails, lost>>
  BY DEF Begin, history
<1>2. \A r \in rows : row[r] = "sending"
  BY DEF Stale
<1>3. row' = [r \in Rows |-> IF r \in rows THEN "interrupted" ELSE row[r]]
  BY <1>1
<1>4. Contract!Interrupt(rows)
  BY <1>1, <1>2, <1>3 DEF Contract!Interrupt
<1> QED
  BY <1>4 DEF Contract!Next

LEMMA ClaimRefines ==
    ASSUME IInv, NEW p \in Runners, NEW a \in Addresses, Claim(p, a)
    PROVE  [Contract!Next]_(<<row, mails, lost>>)
<1> DEFINE r == <<job[p].camp, a>>
<1>1. job[p].pc = "batch" /\ UNCHANGED <<mails, lost>>
  BY DEF Claim, history
<1>2. r \in Rows
  BY <1>1 DEF IInv, TypeOK, Jobs, Rows
<1>3. CASE row[r] = "pending"
  <2>1. Contract!Claim(r)
    BY <1>1, <1>3 DEF Claim, Claimable, Contract!Claim
  <2> QED
    BY <1>2, <2>1 DEF Contract!Next
<1>4. CASE row[r] # "pending"
  BY <1>1, <1>4 DEF Claim, Claimable
<1> QED
  BY <1>3, <1>4

LEMMA ComposeRefines ==
    ASSUME IInv, NEW p \in Runners, Compose(p)
    PROVE  [Contract!Next]_(<<row, mails, lost>>)
<1> DEFINE r == job[p].cur
           mark == IF r[2] \in job[p].refused THEN "skipped"
                   ELSE IF r \in Unfilled THEN "missing" ELSE "sending"
<1>1. /\ job[p].pc = "claimed" /\ Holds(p) /\ row' = [row EXCEPT ![r] = mark]
      /\ UNCHANGED <<mails, lost>>
  BY DEF Compose, history, Holds
<1>2. r \in Rows /\ row[r] = "sending" /\ job[p].result = "none"
  BY <1>1 DEF IInv, TypeOK, ClaimsOK, Jobs
<1>3. mails[r] = lost[r]
  BY <1>1, <1>2 DEF IInv, Accounted, TypeOK
<1>4. CASE mark = "sending"
  BY <1>1, <1>2, <1>4 DEF IInv, TypeOK
<1>5. CASE mark \in {"skipped", "missing"}
  <2> HIDE DEF mark
  <2>1. Contract!Settle(r)
    BY <1>1, <1>2, <1>3, <1>5 DEF Contract!Settle
  <2> QED
    BY <1>2, <2>1 DEF Contract!Next
<1> QED
  BY <1>4, <1>5

LEMMA RelayRefines ==
    ASSUME IInv, NEW p \in Runners, NEW result \in Results, Relay(p, result)
    PROVE  [Contract!Next]_(<<row, mails, lost>>)
<1> DEFINE r == job[p].cur
<1>1. job[p].pc = "sending" /\ Holds(p) /\ UNCHANGED row
  BY DEF Relay, Holds
<1>2. r \in Rows /\ row[r] = "sending" /\ job[p].result = "none"
  BY <1>1 DEF IInv, TypeOK, ClaimsOK, Jobs
<1>3. mails[r] = lost[r]
  BY <1>1, <1>2 DEF IInv, Accounted, TypeOK
<1>4. CASE result \in {"accepted", "lost"}
  <2>1. mails' = [mails EXCEPT ![r] = @ + 1]
    BY <1>4 DEF Relay
  <2>2. lost' \in {lost, [lost EXCEPT ![r] = @ + 1]}
    <3>1. CASE result = "lost"
      BY <3>1 DEF Relay
    <3>2. CASE result # "lost"
      BY <1>2, <3>2 DEF Relay, IInv, TypeOK
    <3> QED
      BY <3>1, <3>2
  <2>3. Contract!Accept(r)
    BY <1>1, <1>2, <1>3, <2>1, <2>2 DEF Contract!Accept
  <2> QED
    BY <1>2, <2>3 DEF Contract!Next
<1>5. CASE result \notin {"accepted", "lost"}
  <2>1. mails' = mails /\ lost' = lost
    BY <1>2, <1>5 DEF Relay, IInv, TypeOK
  <2> QED
    BY <1>1, <2>1
<1> QED
  BY <1>4, <1>5

LEMMA RecordRefines ==
    ASSUME IInv, NEW p \in Runners, RecordAnswer(p) \/ RecordFailure(p)
    PROVE  [Contract!Next]_(<<row, mails, lost>>)
<1> DEFINE r == job[p].cur
<1>1. job[p].pc = "record" /\ Holds(p) /\ UNCHANGED <<mails, lost>>
  BY DEF RecordAnswer, RecordFailure, history, Holds
<1>2. r \in Rows /\ row[r] = "sending" /\ token[r] = p
  BY <1>1 DEF IInv, ClaimsOK
<1>3. mails[r] = lost[r] + (IF job[p].result = "accepted" THEN 1 ELSE 0)
  BY <1>1 DEF IInv, Accounted
<1>4. CASE RecordAnswer(p)
  <2>1. row' = [row EXCEPT ![r] = Mark(job[p].result)]
    BY <1>4 DEF RecordAnswer
  <2>2. Contract!Settle(r)
    <3>1. CASE job[p].result = "accepted"
      BY <1>1, <1>2, <1>3, <2>1, <3>1 DEF Contract!Settle, Mark
    <3>2. CASE job[p].result # "accepted"
      <4>1. mails[r] = lost[r]
        BY <1>2, <1>3, <3>2 DEF IInv, TypeOK
      <4> QED
        BY <1>1, <1>2, <2>1, <3>2, <4>1 DEF Contract!Settle, Mark
    <3> QED
      BY <3>1, <3>2
  <2> QED
    BY <1>2, <2>2 DEF Contract!Next
<1>5. CASE RecordFailure(p)
  <2>1. row' = [row EXCEPT ![r] = "pending"] /\ job[p].result # "accepted"
    BY <1>2, <1>5 DEF RecordFailure
  <2>2. mails[r] = lost[r]
    BY <1>2, <1>3, <2>1 DEF IInv, TypeOK
  <2>3. Contract!Return(r)
    BY <1>1, <1>2, <2>1, <2>2 DEF Contract!Return
  <2> QED
    BY <1>2, <2>3 DEF Contract!Next
<1> QED
  BY <1>4, <1>5

LEMMA ContractNext ==
    ASSUME IInv, [Next]_vars
    PROVE  [Contract!Next]_(<<row, mails, lost>>)
<1>1. ASSUME NEW c \in Campaigns, People(c)
      PROVE  [Contract!Next]_(<<row, mails, lost>>)
  <2>1. CASE \E status \in {"early", "sending"} : Create(c, status)
    BY <2>1, CreateRefines
  <2>2. CASE Pause(c) \/ Resume(c) \/ Cancel(c) \/ StartNow(c) \/ Reschedule(c) \/ Elapse(c)
             \/ Block(c)
    BY <2>2 DEF Pause, Resume, Cancel, StartNow, Reschedule, Elapse, Block, Move, history
  <2> QED
    BY <1>1, <2>1, <2>2 DEF People
<1>2. ASSUME NEW p \in Runners, Run(p)
      PROVE  [Contract!Next]_(<<row, mails, lost>>)
  <2>1. CASE (\E c \in Campaigns : Pick(p, c)) \/ NextPass(p) \/ BatchEnd(p) \/ Plan(p) \/ End(p)
    BY <2>1 DEF Pick, NextPass, BatchEnd, Plan, End, history
  <2>2. CASE ~((\E c \in Campaigns : Pick(p, c)) \/ NextPass(p) \/ BatchEnd(p) \/ Plan(p) \/ End(p))
    BY <1>2, <2>2, BeginRefines, ClaimRefines, ComposeRefines, RelayRefines, RecordRefines
       DEF Run, Sending
  <2> QED
    BY <2>1, <2>2
<1>3. ASSUME NEW p \in Runners, CutShort(p)
      PROVE  [Contract!Next]_(<<row, mails, lost>>)
  BY <1>3 DEF CutShort, SoftLimit, SoftLimitSwallowed, Kill, history
<1>4. CASE (\E a \in Addresses : OptOut(a)) \/ Tick \/ NewMinute \/ NewDay \/ UNCHANGED vars
  BY <1>4 DEF OptOut, Tick, NewMinute, NewDay, vars, history
<1> QED
  BY <1>1, <1>2, <1>3, <1>4 DEF Next

\* The runner implements its contract: a recipient has one outcome, which says
\* what happened to the email, and is mailed once for each claim at most.
THEOREM ContractImplemented == Spec => ImplementsContract
<1>1. Init => Contract!Init
  BY DEF Init, Contract!Init
<1>2. IInv /\ [Next]_vars => [Contract!Next]_(<<row, mails, lost>>)
  BY ContractNext
<1> QED
  BY <1>1, <1>2, Invariant, PTL DEF Spec, ImplementsContract, Contract!Spec

-----------------------------------------------------------------------------
(* InDoubt.                                                                *)

\* A row nobody knows the end of: given up, or in flight with no run that has it.
Doubt(r) ==
    \/ row[r] = "interrupted"
    \/ row[r] = "sending" /\ ~\E p \in Runners : Holds(p) /\ job[p].cur = r

Doubtful == {r \in Rows : Doubt(r)}

LEMMA DoubtCount ==
    ASSUME IInv
    PROVE  /\ IsFiniteSet(Doubtful) /\ Cardinality(Doubtful) \in Nat
           /\ InDoubt <=> Cardinality(Doubtful) <= faults
<1>1. IsFiniteSet(Rows)
  BY ConstantsAssumption, FS_Product DEF Rows
<1>2. IsFiniteSet(Doubtful)
  BY <1>1, FS_Subset DEF Doubtful
<1>3. Cardinality(Doubtful) \in Nat
  BY <1>2, FS_CardinalityType
<1>4. InDoubt <=> Cardinality(Doubtful) <= faults
  BY DEF InDoubt, Doubtful, Doubt
<1> QED
  BY <1>2, <1>3, <1>4

\* A step after which no row is newly in doubt.
LEMMA NoneMore ==
    ASSUME IInv, InDoubt, faults' \in Nat, faults' >= faults,
           \A r \in Rows : Doubt(r)' => Doubt(r)
    PROVE  InDoubt'
<1>1. Doubtful' \in SUBSET Doubtful
  BY DEF Doubtful
<1>2. Cardinality(Doubtful') <= Cardinality(Doubtful) /\ Cardinality(Doubtful') \in Nat
  BY <1>1, DoubtCount, FS_Subset, FS_CardinalityType
<1>3. Cardinality(Doubtful') <= faults'
  BY <1>2, DoubtCount, ConstantsAssumption DEF IInv, TypeOK
<1> QED
  BY <1>3 DEF InDoubt, Doubtful, Doubt

\* A failure after which one row is.
LEMMA OneMore ==
    ASSUME IInv, InDoubt, faults' = faults + 1, NEW x,
           \A r \in Rows : Doubt(r)' => Doubt(r) \/ r = x
    PROVE  InDoubt'
<1>1. Doubtful' \in SUBSET (Doubtful \cup {x})
  BY DEF Doubtful
<1>2. /\ IsFiniteSet(Doubtful \cup {x})
      /\ Cardinality(Doubtful \cup {x}) <= Cardinality(Doubtful) + 1
      /\ Cardinality(Doubtful \cup {x}) \in Nat
  <2>1. IsFiniteSet(Doubtful) /\ Cardinality(Doubtful) \in Nat
    BY DoubtCount
  <2>2. /\ IsFiniteSet(Doubtful \cup {x})
        /\ Cardinality(Doubtful \cup {x}) =
              IF x \in Doubtful THEN Cardinality(Doubtful) ELSE Cardinality(Doubtful) + 1
    BY <2>1, FS_AddElement
  <2> QED
    BY <2>1, <2>2
<1>3. Cardinality(Doubtful') <= Cardinality(Doubtful \cup {x}) /\ Cardinality(Doubtful') \in Nat
  BY <1>1, <1>2, FS_Subset, FS_CardinalityType
<1>4. Cardinality(Doubtful') <= faults'
  BY <1>2, <1>3, DoubtCount, ConstantsAssumption DEF IInv, TypeOK
<1> QED
  BY <1>4 DEF InDoubt, Doubtful, Doubt

\* What a run has is its own, and not in doubt.
LEMMA HeldRow ==
    ASSUME IInv, NEW p \in Runners, Holds(p)
    PROVE  /\ job[p].cur \in Rows /\ row[job[p].cur] = "sending" /\ ~Doubt(job[p].cur)
           /\ token[job[p].cur] = p
           /\ \A q \in Runners \ {p} : Holds(q) => job[q].cur # job[p].cur
BY DEF IInv, ClaimsOK, Doubt

\* A step of a run that neither takes nor loses a recipient.
LEMMA SameHold ==
    ASSUME IInv, InDoubt, faults' \in Nat, faults' >= faults, row' = row,
           \A q \in Runners : Holds(q) => Holds(q)' /\ job'[q].cur = job[q].cur
    PROVE  InDoubt'
<1>1. \A r \in Rows : Doubt(r)' => Doubt(r)
  BY DEF Doubt
<1> QED
  BY <1>1, NoneMore

\* A step in which a run ends what it has: the row is not in flight after it.
LEMMA EndsHold ==
    ASSUME IInv, InDoubt, faults' = faults, NEW p \in Runners, Holds(p),
           NEW s \in {"pending", "skipped", "missing", "sent", "refused"},
           row' = [row EXCEPT ![job[p].cur] = s],
           \A q \in Runners \ {p} : job'[q] = job[q]
    PROVE  InDoubt'
<1>1. row'[job[p].cur] = s /\ \A r \in Rows \ {job[p].cur} : row'[r] = row[r]
  BY HeldRow DEF IInv, TypeOK
<1>2. ASSUME NEW r \in Rows, Doubt(r)' PROVE Doubt(r)
  <2>1. r # job[p].cur
    BY <1>1, <1>2 DEF Doubt
  <2> QED
    BY <1>1, <1>2, <2>1 DEF Doubt, Holds
<1> QED
  BY <1>2, NoneMore, ConstantsAssumption DEF IInv, TypeOK

\* Giving up stale claims gives up nothing that a run still has.
LEMMA BeginDoubt ==
    ASSUME IInv, InDoubt, NEW p \in Runners, Begin(p)
    PROVE  InDoubt'
<1>1. /\ row' = [r \in Rows |-> IF Stale(r) THEN "interrupted" ELSE row[r]]
      /\ faults' = faults /\ job[p].pc = "idle"
      /\ job' = [job EXCEPT ![p].pc = "plan"]
  BY DEF Begin, history
<1>2. \A q \in Runners : (Holds(q)' <=> Holds(q)) /\ job'[q].cur = job[q].cur
  BY <1>1 DEF IInv, TypeOK, Jobs, Records, Holds
<1>3. ASSUME NEW r \in Rows, Doubt(r)' PROVE Doubt(r)
  <2>1. CASE Stale(r)
    BY <2>1, NotStale DEF Doubt, Stale
  <2>2. CASE ~Stale(r)
    BY <1>1, <1>2, <1>3, <2>2 DEF Doubt
  <2> QED
    BY <2>1, <2>2
<1> QED
  BY <1>1, <1>3, NoneMore, ConstantsAssumption DEF IInv, TypeOK

\* A recipient that is claimed is in flight with its run.
LEMMA ClaimDoubt ==
    ASSUME IInv, InDoubt, NEW p \in Runners, NEW a \in Addresses, Claim(p, a)
    PROVE  InDoubt'
<1> DEFINE c == <<job[p].camp, a>>
<1>1. /\ faults' = faults /\ faults \in Nat /\ job[p].pc = "batch" /\ job \in [Runners -> Jobs]
      /\ row \in [Rows -> RowStatuses]
      /\ \A q \in Runners \ {p} : job'[q] = job[q]
  BY ConstantsAssumption DEF Claim, history, IInv, TypeOK
<1>2. ~Holds(p) /\ c \in Rows
  BY <1>1 DEF Holds, Jobs, Rows
<1>3. CASE Claimable(c)
  <2>1. row' = [row EXCEPT ![c] = "sending"] /\ job'[p].cur = c /\ job'[p].pc = "claimed"
    BY <1>1, <1>3 DEF Claim, Jobs, Records
  <2>2. ASSUME NEW r \in Rows, Doubt(r)' PROVE Doubt(r)
    <3>1. r # c
      BY <1>1, <1>2, <2>1, <2>2 DEF Doubt, Holds
    <3> QED
      BY <1>1, <1>2, <2>1, <2>2, <3>1 DEF Doubt, Holds
  <2> QED
    BY <1>1, <2>2, NoneMore
<1>4. CASE ~Claimable(c)
  <2>1. row' = row
    BY <1>4 DEF Claim
  <2> QED
    BY <1>1, <1>2, <2>1, SameHold DEF Holds
<1> QED
  BY <1>3, <1>4

\* Skipping, failing or recording ends a claim.
LEMMA EndingDoubt ==
    ASSUME IInv, InDoubt, NEW p \in Runners, Compose(p) \/ RecordAnswer(p) \/ RecordFailure(p)
    PROVE  InDoubt'
<1>1. /\ faults' = faults /\ faults \in Nat /\ job \in [Runners -> Jobs]
      /\ Holds(p) /\ \A q \in Runners \ {p} : job'[q] = job[q]
  BY ConstantsAssumption DEF Compose, RecordAnswer, RecordFailure, history, Holds, IInv, TypeOK
<1>2. CASE RecordAnswer(p)
  BY <1>1, <1>2, EndsHold DEF RecordAnswer, Mark
<1>3. CASE RecordFailure(p)
  BY <1>1, <1>3, HeldRow, EndsHold DEF RecordFailure
<1>4. CASE Compose(p)
  <2>1. CASE row'[job[p].cur] = "sending"
    <3>1. row' = row
      BY <1>1, <1>4, <2>1, HeldRow DEF Compose, IInv, TypeOK
    <3>2. job'[p].pc = "sending" /\ job'[p].cur = job[p].cur
      BY <1>1, <1>4, <2>1, HeldRow DEF Compose, IInv, TypeOK, Jobs, Records
    <3> QED
      BY <1>1, <3>1, <3>2, SameHold DEF Holds
  <2>2. CASE row'[job[p].cur] # "sending"
    <3>1. \E s \in {"skipped", "missing"} : row' = [row EXCEPT ![job[p].cur] = s]
      BY <1>1, <1>4, <2>2, HeldRow DEF Compose, IInv, TypeOK
    <3> QED
      BY <1>1, <3>1, EndsHold
  <2> QED
    BY <2>1, <2>2
<1> QED
  BY <1>2, <1>3, <1>4

\* A run that is cut short leaves its one recipient in doubt.
LEMMA CutDoubt ==
    ASSUME IInv, InDoubt, NEW p \in Runners, SoftLimit(p) \/ Kill(p)
    PROVE  InDoubt'
<1>1. /\ faults' = faults + 1 /\ row' = row /\ \A q \in Runners \ {p} : job'[q] = job[q]
  BY DEF SoftLimit, Kill, Close, IInv, TypeOK
<1>2. \A r \in Rows : Doubt(r)' => Doubt(r) \/ r = job[p].cur
  BY <1>1 DEF Doubt, Holds
<1> QED
  BY <1>1, <1>2, OneMore

\* The other steps of a run keep what it has, or have nothing.
LEMMA OtherDoubt ==
    ASSUME IInv, InDoubt, NEW p \in Runners,
           \/ Plan(p) \/ (\E c \in Campaigns : Pick(p, c)) \/ NextPass(p)
           \/ BatchEnd(p) \/ End(p) \/ SoftLimitSwallowed(p)
           \/ \E result \in Results : Relay(p, result)
    PROVE  InDoubt'
<1>1. /\ row' = row /\ job \in [Runners -> Jobs] /\ faults \in Nat
      /\ faults' = faults \/ faults' = faults + 1
  <2>1. faults \in Nat /\ job \in [Runners -> Jobs]
    BY ConstantsAssumption DEF IInv, TypeOK
  <2>2. CASE \E result \in Results : Relay(p, result)
    <3>1. PICK result \in Results :
            /\ faults' = faults + (IF result \in {"failed", "lost"} THEN 1 ELSE 0)
            /\ row' = row
      BY <2>2 DEF Relay
    <3>2. faults + 0 = faults
      BY <2>1
    <3> QED
      BY <2>1, <3>1, <3>2
  <2> QED
    BY <2>1, <2>2 DEF Plan, Pick, NextPass, BatchEnd, End, SoftLimitSwallowed, claims, history
<1>2. \A q \in Runners \ {p} : job'[q] = job[q]
  BY <1>1 DEF Plan, Pick, NextPass, BatchEnd, End, SoftLimitSwallowed, Relay
<1>3. Holds(p) => Holds(p)' /\ job'[p].cur = job[p].cur
  <2>1. CASE \E result \in Results : Relay(p, result)
    <3>1. PICK result \in Results :
            /\ job' = [job EXCEPT ![p].pc = "record", ![p].result = result]
            /\ job[p].pc = "sending"
      BY <2>1 DEF Relay
    <3>2. job[p] \in Records
      BY <1>1 DEF Jobs
    <3> QED
      BY <1>1, <3>1, <3>2 DEF Holds, Records
  <2> QED
    BY <2>1 DEF Plan, Pick, NextPass, BatchEnd, End, SoftLimitSwallowed, Holds
<1> QED
  BY <1>1, <1>2, <1>3, SameHold DEF Holds

\* People, lists and the clocks leave what is in flight alone; a campaign begins
\* with rows that are not.
LEMMA AroundDoubt ==
    ASSUME IInv, InDoubt,
           \/ \E c \in Campaigns : People(c)
           \/ \E a \in Addresses : OptOut(a)
           \/ Tick \/ NewMinute \/ NewDay \/ UNCHANGED vars
    PROVE  InDoubt'
<1>1. faults' = faults /\ faults \in Nat
  BY ConstantsAssumption DEF People, Create, Pause, Resume, Cancel, StartNow, Reschedule, Elapse, Block, Move,
         OptOut, Tick, NewMinute, NewDay, vars, IInv, TypeOK
<1>2. job \in [Runners -> Jobs]
  BY DEF IInv, TypeOK
<1>3. \A q \in Runners : job'[q].pc = job[q].pc /\ job'[q].cur = job[q].cur
  <2>1. CASE Tick
    BY <1>2, <2>1 DEF Tick, Jobs, Records
  <2>2. CASE ~Tick
    <3>1. job' = job
      BY <2>2 DEF People, Create, Pause, Resume, Cancel, StartNow, Reschedule, Elapse, Block, Move,
             OptOut, NewMinute, NewDay, vars
    <3> QED
      BY <3>1
  <2> QED
    BY <2>1, <2>2
<1>4. CASE \E c \in Campaigns, status \in {"early", "sending"} : Create(c, status)
  <2>1. PICK c \in Campaigns :
          row' = [r \in Rows |-> IF r[1] # c THEN row[r]
                                 ELSE IF r[2] \in declined THEN "skipped" ELSE "pending"]
    BY <1>4 DEF Create
  <2>2. \A r \in Rows : row'[r] \in {row[r], "skipped", "pending"}
    BY <2>1
  <2>3. \A r \in Rows : Doubt(r)' => Doubt(r)
    BY <1>3, <2>2 DEF Doubt, Holds
  <2> QED
    BY <1>1, <2>3, NoneMore
<1>5. CASE ~\E c \in Campaigns, status \in {"early", "sending"} : Create(c, status)
  <2>1. row' = row
    BY <1>5 DEF People, Pause, Resume, Cancel, StartNow, Reschedule, Elapse, Block, Move,
         OptOut, Tick, NewMinute, NewDay, vars
  <2> QED
    BY <1>1, <1>3, <2>1, SameHold DEF Holds
<1> QED
  BY <1>4, <1>5

\* Every run that is cut short leaves one recipient at most of whom nobody knows
\* whether he was mailed, for any number of runs, recipients and failures.
THEOREM InDoubtAlways == Spec => []InDoubt
<1>1. Init => InDoubt
  <2> SUFFICES ASSUME Init PROVE InDoubt
    OBVIOUS
  <2>1. Doubtful = {} /\ faults = 0
    BY DEF Init, Doubtful, Doubt
  <2>2. Cardinality(Doubtful) = 0
    BY <2>1, FS_EmptySet
  <2> QED
    BY <2>1, <2>2 DEF InDoubt, Doubtful, Doubt
<1>2. IInv /\ InDoubt /\ [Next]_vars => InDoubt'
  <2> SUFFICES ASSUME IInv, InDoubt, [Next]_vars PROVE InDoubt'
    OBVIOUS
  <2>1. ASSUME NEW p \in Runners, Run(p) PROVE InDoubt'
    BY <2>1, BeginDoubt, ClaimDoubt, EndingDoubt, OtherDoubt DEF Run, Sending
  <2>2. ASSUME NEW p \in Runners, CutShort(p) PROVE InDoubt'
    BY <2>2, CutDoubt, OtherDoubt DEF CutShort
  <2> QED
    BY <2>1, <2>2, AroundDoubt DEF Next
<1> QED
  BY <1>1, <1>2, Invariant, PTL DEF Spec

-----------------------------------------------------------------------------
(* What the steps of a run do to what it holds.                             *)

LEMMA BeginFields ==
    ASSUME IInv, NEW p \in Runners, Begin(p)
    PROVE  /\ \A q \in Runners \ {p} : job'[q] = job[q]
           /\ job[p].pc = "idle" /\ job'[p].pc = "plan"
           /\ job'[p].budget = job[p].budget /\ job'[p].runnable = job[p].runnable
           /\ job'[p].pass = job[p].pass /\ job'[p].camp = job[p].camp
           /\ job'[p].todo = job[p].todo /\ job'[p].cur = job[p].cur
           /\ job'[p].result = job[p].result /\ job'[p].streak = job[p].streak
           /\ job'[p].stop = job[p].stop
BY DEF Begin, IInv, TypeOK, Jobs, Records

LEMMA NextPassFields ==
    ASSUME IInv, NEW p \in Runners, NextPass(p)
    PROVE  /\ \A q \in Runners \ {p} : job'[q] = job[q]
           /\ job[p].pc = "pick"
           /\ \/ job'[p].pc = "pick" /\ job'[p].pass = job[p].runnable
              \/ job'[p].pc = "closing" /\ job'[p].pass = job[p].pass
           /\ job'[p].budget = job[p].budget /\ job'[p].runnable = job[p].runnable
           /\ job'[p].camp = job[p].camp /\ job'[p].todo = job[p].todo
           /\ job'[p].cur = job[p].cur /\ job'[p].result = job[p].result
           /\ job'[p].streak = job[p].streak /\ job'[p].stop = job[p].stop
BY DEF NextPass, IInv, TypeOK, Jobs, Records

LEMMA ClaimFields ==
    ASSUME IInv, NEW p \in Runners, NEW a \in Addresses, Claim(p, a)
    PROVE  /\ \A q \in Runners \ {p} : job'[q] = job[q]
           /\ job[p].pc = "batch" /\ a \in job[p].todo /\ (\A b \in job[p].todo : a <= b)
           /\ job'[p].todo = job[p].todo \ {a}
           /\ \/ /\ Claimable(<<job[p].camp, a>>)
                 /\ job'[p].pc = "claimed" /\ job'[p].cur = <<job[p].camp, a>>
              \/ /\ ~Claimable(<<job[p].camp, a>>)
                 /\ job'[p].pc = "batch" /\ job'[p].cur = job[p].cur
           /\ job'[p].budget = job[p].budget /\ job'[p].runnable = job[p].runnable
           /\ job'[p].pass = job[p].pass /\ job'[p].camp = job[p].camp
           /\ job'[p].result = job[p].result /\ job'[p].streak = job[p].streak
           /\ job'[p].stop = job[p].stop
BY DEF Claim, IInv, TypeOK, Jobs, Records

LEMMA ComposeFields ==
    ASSUME IInv, NEW p \in Runners, Compose(p)
    PROVE  /\ \A q \in Runners \ {p} : job'[q] = job[q]
           /\ job[p].pc = "claimed"
           /\ \/ /\ job'[p].pc = "sending" /\ row' = row
                 /\ job'[p].budget = job[p].budget - 1 /\ job'[p].cur = job[p].cur
              \/ /\ job'[p].pc = "batch"
                 /\ row'[job[p].cur] \in {"skipped", "missing"}
                 /\ \A r \in Rows \ {job[p].cur} : row'[r] = row[r]
                 /\ job'[p].budget = job[p].budget
           /\ job'[p].runnable = job[p].runnable /\ job'[p].pass = job[p].pass
           /\ job'[p].camp = job[p].camp /\ job'[p].todo = job[p].todo
           /\ job'[p].result = job[p].result /\ job'[p].streak = job[p].streak
           /\ job'[p].stop = job[p].stop
BY DEF Compose, ClaimsOK, Holds, IInv, TypeOK, Jobs, Records

LEMMA RelayFields ==
    ASSUME IInv, NEW p \in Runners, NEW result \in Results, Relay(p, result)
    PROVE  /\ \A q \in Runners \ {p} : job'[q] = job[q]
           /\ job[p].pc = "sending" /\ job'[p].pc = "record" /\ job'[p].result = result
           /\ job'[p].budget = job[p].budget /\ job'[p].runnable = job[p].runnable
           /\ job'[p].pass = job[p].pass /\ job'[p].camp = job[p].camp
           /\ job'[p].todo = job[p].todo /\ job'[p].cur = job[p].cur
           /\ job'[p].streak = job[p].streak /\ job'[p].stop = job[p].stop
BY DEF Relay, IInv, TypeOK, Jobs, Records

LEMMA RecordAnswerFields ==
    ASSUME IInv, NEW p \in Runners, RecordAnswer(p)
    PROVE  /\ \A q \in Runners \ {p} : job'[q] = job[q]
           /\ job[p].pc = "record" /\ job'[p].pc = "batch" /\ job'[p].result = "none"
           /\ job'[p].streak = IF job[p].result = "accepted" THEN 0 ELSE job[p].streak + 1
           /\ job'[p].todo \subseteq job[p].todo
           /\ job'[p].streak >= Streak => job'[p].todo = {}
           /\ job'[p].budget = job[p].budget /\ job'[p].runnable = job[p].runnable
           /\ job'[p].pass = job[p].pass /\ job'[p].camp = job[p].camp
           /\ job'[p].stop = job[p].stop
BY DEF RecordAnswer, IInv, TypeOK, Jobs, Records

LEMMA RecordFailureFields ==
    ASSUME IInv, NEW p \in Runners, RecordFailure(p)
    PROVE  /\ \A q \in Runners \ {p} : job'[q] = job[q]
           /\ job[p].pc = "record" /\ job'[p].pc = "batch" /\ job'[p].result = "none"
           /\ job[p].result \in {"failed", "lost"}
           /\ job'[p].todo = {} /\ job'[p].stop /\ job'[p].budget = job[p].budget + 1
           /\ job'[p].runnable = job[p].runnable /\ job'[p].pass = job[p].pass
           /\ job'[p].camp = job[p].camp /\ job'[p].streak = job[p].streak
BY DEF RecordFailure, IInv, TypeOK, Jobs, Records

LEMMA BatchEndFields ==
    ASSUME IInv, NEW p \in Runners, BatchEnd(p)
    PROVE  /\ \A q \in Runners \ {p} : job'[q] = job[q]
           /\ job[p].pc = "batch" /\ job[p].todo = {} /\ job'[p].pc = "pick"
           /\ job'[p].camp = None /\ job'[p].streak = 0 /\ ~job'[p].stop
           /\ job'[p].runnable = IF ~job[p].stop /\ ~Tripped(p) THEN job[p].runnable
                                 ELSE job[p].runnable \ {job[p].camp}
           /\ job'[p].budget = job[p].budget /\ job'[p].pass = job[p].pass
           /\ job'[p].todo = job[p].todo /\ job'[p].cur = job[p].cur
           /\ job'[p].result = job[p].result
BY DEF BatchEnd, IInv, TypeOK, Jobs, Records

LEMMA SwallowedFields ==
    ASSUME IInv, NEW p \in Runners, SoftLimitSwallowed(p)
    PROVE  /\ \A q \in Runners \ {p} : job'[q] = job[q]
           /\ job[p].pc = "batch"
           /\ job'[p].pc = job[p].pc /\ job'[p].budget = job[p].budget
           /\ job'[p].runnable = job[p].runnable /\ job'[p].pass = job[p].pass
           /\ job'[p].camp = job[p].camp /\ job'[p].todo = job[p].todo
           /\ job'[p].cur = job[p].cur /\ job'[p].result = job[p].result
           /\ job'[p].streak = job[p].streak /\ job'[p].stop = job[p].stop
BY DEF SoftLimitSwallowed, IInv, TypeOK, Jobs, Records

LEMMA PickFields ==
    ASSUME IInv, NEW p \in Runners, NEW c \in Campaigns, Pick(p, c)
    PROVE  /\ \A q \in Runners \ {p} : job'[q] = job[q]
           /\ job[p].pc = "pick" /\ job[p].budget > 0 /\ c \in job[p].pass
           /\ job'[p].pass = job[p].pass \ {c}
           /\ \/ /\ job'[p].pc = "pick" /\ job'[p].runnable = job[p].runnable \ {c}
                 /\ job'[p].camp = job[p].camp /\ job'[p].todo = job[p].todo
              \/ /\ job'[p].pc = "batch" /\ job'[p].runnable = job[p].runnable
                 /\ job'[p].camp = c /\ job'[p].todo # {} /\ camp' = camp
                 /\ job'[p].todo = Lowest(Pending(c), Take(p))
           /\ job'[p].budget = job[p].budget /\ job'[p].cur = job[p].cur
           /\ job'[p].result = job[p].result /\ job'[p].streak = job[p].streak
           /\ job'[p].stop = job[p].stop
<1> DEFINE rows == Lowest(Pending(c), Take(p))
<1>1. job[p] \in Jobs /\ job \in [Runners -> Jobs]
  BY DEF IInv, TypeOK
<1>2. /\ job[p].pc = "pick" /\ job[p].budget > 0 /\ c \in job[p].pass
      /\ rows = {} => job' = [job EXCEPT ![p].pass = @ \ {c}, ![p].runnable = @ \ {c}]
      /\ rows # {} => /\ job' = [job EXCEPT ![p].pc = "batch", ![p].camp = c, ![p].todo = rows,
                                      ![p].refused = rows \cap declined, ![p].pass = @ \ {c}]
                      /\ camp' = camp
  BY DEF Pick
<1> HIDE DEF rows
<1>3. CASE rows = {}
  BY <1>1, <1>2, <1>3 DEF Jobs, Records
<1>4. CASE rows # {}
  <2>1. job'[p].todo = rows
    BY <1>1, <1>2, <1>4 DEF Jobs, Records
  <2>2. job'[p].todo = Lowest(Pending(c), Take(p))
    BY <2>1 DEF rows
  <2> QED
    BY <1>1, <1>2, <1>4, <2>1, <2>2 DEF Jobs, Records
<1> QED
  BY <1>3, <1>4

LEMMA PlanFields ==
    ASSUME IInv, NEW p \in Runners, Plan(p)
    PROVE  /\ \A q \in Runners \ {p} : job'[q] = job[q]
           /\ job[p].pc = "plan"
           /\ \/ /\ job'[p].pc = "pick" /\ Budget > 0 /\ job'[p].budget = Budget
                 /\ job'[p].runnable = {c \in Campaigns : camp[c] = "sending"} \ blocked
                 /\ job'[p].pass = job'[p].runnable
              \/ /\ job'[p].pc = "closing" /\ job'[p].budget = job[p].budget
                 /\ job'[p].runnable = job[p].runnable /\ job'[p].pass = job[p].pass
           /\ job'[p].camp = job[p].camp /\ job'[p].todo = job[p].todo
           /\ job'[p].cur = job[p].cur /\ job'[p].result = job[p].result
           /\ job'[p].streak = job[p].streak /\ job'[p].stop = job[p].stop
<1> DEFINE runnable == {c \in Campaigns : camp[c] = "sending"} \ blocked
           share == (Budget + Cardinality(runnable) - 1) \div Cardinality(runnable)
<1>1. job[p] \in Jobs /\ job \in [Runners -> Jobs]
  BY DEF IInv, TypeOK
<1>2. /\ job[p].pc = "plan"
      /\ \/ /\ job' = [job EXCEPT ![p].pc = "pick", ![p].runnable = runnable,
                                  ![p].pass = runnable, ![p].budget = Budget,
                                  ![p].share = share]
            /\ Budget > 0
         \/ job' = [job EXCEPT ![p].pc = "closing"]
  BY DEF Plan
<1> HIDE DEF runnable, share
<1>3. CASE /\ job' = [job EXCEPT ![p].pc = "pick", ![p].runnable = runnable,
                                  ![p].pass = runnable, ![p].budget = Budget,
                                  ![p].share = share]
           /\ Budget > 0
  <2>1. job'[p].runnable = runnable /\ job'[p].pass = runnable
    BY <1>1, <1>3 DEF Jobs, Records
  <2>2. job'[p].runnable = {c \in Campaigns : camp[c] = "sending"} \ blocked
    BY <2>1 DEF runnable
  <2> QED
    BY <1>1, <1>2, <1>3, <2>1, <2>2 DEF Jobs, Records
<1>4. CASE job' = [job EXCEPT ![p].pc = "closing"]
  BY <1>1, <1>2, <1>4 DEF Jobs, Records
<1> QED
  BY <1>2, <1>3, <1>4

\* A run that is over, or told to stop.
LEMMA GoneFields ==
    ASSUME IInv, NEW p \in Runners, End(p) \/ Kill(p) \/ SoftLimit(p)
    PROVE  /\ \A q \in Runners \ {p} : job'[q] = job[q]
           /\ job'[p].pc \in {"idle", "closing"} /\ job'[p].budget = 0
           /\ job'[p].runnable = {} /\ job'[p].pass = {} /\ job'[p].camp = None
           /\ job'[p].todo = {} /\ job'[p].cur = None /\ job'[p].result = "none"
           /\ job'[p].streak = 0 /\ ~job'[p].stop
<1>1. job \in [Runners -> Jobs]
  BY DEF IInv, TypeOK
<1>2. CASE job' = [job EXCEPT ![p] = IdleJob]
  BY <1>1, <1>2 DEF IdleJob
<1>3. CASE job' = [job EXCEPT ![p] = [IdleJob EXCEPT !.pc = "closing", !.age = job[p].age]]
  BY <1>1, <1>3 DEF IdleJob
<1> QED
  BY <1>2, <1>3 DEF End, Kill, SoftLimit, Close

LEMMA TickFields ==
    ASSUME IInv, Tick, NEW p \in Runners
    PROVE  /\ job'[p].pc = job[p].pc
           /\ job'[p].budget = job[p].budget /\ job'[p].runnable = job[p].runnable
           /\ job'[p].pass = job[p].pass /\ job'[p].camp = job[p].camp
           /\ job'[p].todo = job[p].todo /\ job'[p].cur = job[p].cur
           /\ job'[p].result = job[p].result /\ job'[p].streak = job[p].streak
           /\ job'[p].stop = job[p].stop
BY DEF Tick, IInv, TypeOK, Jobs, Records

-----------------------------------------------------------------------------
(* The budgets: BudgetsHold.                                                *)

\* The first n of a set of numbers are n at most.
LEMMA LowestCount ==
    ASSUME NEW S \in SUBSET Int, IsFiniteSet(S), NEW n \in Int
    PROVE  /\ IsFiniteSet(Lowest(S, n))
           /\ Lowest(S, n) # {} => Cardinality(Lowest(S, n)) <= n
<1> DEFINE L == Lowest(S, n)
<1>1. L \subseteq S /\ IsFiniteSet(L)
  BY FS_Subset DEF Lowest
<1>2. ASSUME L # {} PROVE Cardinality(L) <= n
  <2>1. PICK a \in L : \A b \in L : b <= a
    BY <1>1, <1>2, Greatest
  <2> DEFINE below == {b \in S : b < a}
  <2>2. IsFiniteSet(below) /\ Cardinality(below) \in Nat
    <3>1. below \subseteq S
      OBVIOUS
    <3> HIDE DEF below
    <3> QED
      BY <3>1, FS_Subset, FS_CardinalityType
  <2>3. Cardinality(below) < n
    BY DEF Lowest
  <2> HIDE DEF L
  <2>4. a \notin below /\ L \subseteq below \cup {a}
    <3>1. a \in S /\ a \in Int
      BY <1>1
    <3>2. ASSUME NEW b \in L PROVE b \in S /\ (b < a \/ b = a)
      <4>1. b \in S /\ b \in Int /\ b <= a
        BY <1>1, <2>1
      <4> QED
        BY <3>1, <4>1
    <3> QED
      BY <3>1, <3>2
  <2> HIDE DEF below
  <2>5. IsFiniteSet(below \cup {a}) /\ Cardinality(below \cup {a}) = Cardinality(below) + 1
    BY <2>2, <2>4, FS_AddElement
  <2>6. Cardinality(L) <= Cardinality(below \cup {a}) /\ Cardinality(L) \in Nat
    BY <1>1, <2>4, <2>5, FS_Subset, FS_CardinalityType
  <2> QED
    BY <2>2, <2>3, <2>5, <2>6
<1> QED
  BY <1>1, <1>2

\* What a run may still send, the email in flight included.
Spends(j) == j.budget + (IF j.pc \in {"sending", "record"} THEN 1 ELSE 0)

Spending == [p \in Runners |-> Spends(job[p])]

\* A run has its recipients' emails in its budget.
InHand(j) == j.pc \in {"batch", "claimed", "sending", "record"}

Paced(j) ==
    /\ j.budget \in Nat
    /\ Spends(j) <= Pace
    /\ InHand(j) => Cardinality(j.todo) + (IF j.pc = "claimed" THEN 1 ELSE 0) <= j.budget

\* What was sent and what the runs may still send, together.
Budgeted ==
    /\ \A p \in Runners : Paced(job[p])
    /\ Cardinality(SentThisMinute) + Cardinality(Spots(Spending, Runners))
       <= Cardinality(Runners) * Pace
    /\ Cardinality(SentToday) + Cardinality(Spots(Spending, Runners))
       <= Ceiling + (Cardinality(Runners) - 1) * Pace

LEMMA SpendingType ==
    ASSUME \A p \in Runners : Paced(job[p])
    PROVE  /\ Spending \in [Runners -> Nat]
           /\ IsFiniteSet(Spots(Spending, Runners))
           /\ Cardinality(Spots(Spending, Runners)) \in Nat
<1>1. Spending \in [Runners -> Nat]
  BY DEF Spending, Spends, Paced
<1> QED
  BY <1>1, SpotsFinite, ConstantsAssumption

LEMMA SentTypes ==
    /\ IsFiniteSet(Rows)
    /\ IsFiniteSet(SentThisMinute) /\ Cardinality(SentThisMinute) \in Nat
    /\ IsFiniteSet(SentToday) /\ Cardinality(SentToday) \in Nat
<1>1. IsFiniteSet(Rows)
  BY ConstantsAssumption, FS_Product DEF Rows
<1> QED
  BY <1>1, FS_Subset, FS_CardinalityType DEF SentThisMinute, SentToday

LEMMA TodoTypes ==
    ASSUME IInv, NEW p \in Runners
    PROVE  /\ job[p] \in Jobs /\ job[p].todo \in SUBSET Addresses
           /\ IsFiniteSet(job[p].todo) /\ Cardinality(job[p].todo) \in Nat
           /\ job[p].budget \in Int
<1>1. job[p] \in Jobs /\ job[p].todo \in SUBSET Addresses /\ job[p].budget \in Int
  BY DEF IInv, TypeOK, Jobs, Records
<1> QED
  BY <1>1, ConstantsAssumption, FS_Subset, FS_CardinalityType

\* Budget is only spent, one of it for each email, and given back after a failure.
LEMMA PacedStep ==
    ASSUME IInv, NEW p \in Runners, Paced(job[p]),
           \/ Begin(p) \/ (\E c \in Campaigns : Pick(p, c)) \/ NextPass(p)
           \/ (\E a \in Addresses : Claim(p, a)) \/ Compose(p)
           \/ (\E result \in Results : Relay(p, result)) \/ RecordFailure(p) \/ BatchEnd(p)
           \/ End(p) \/ CutShort(p)
    PROVE  /\ \A q \in Runners \ {p} : job'[q] = job[q]
           /\ Paced(job'[p]) /\ Spends(job'[p]) <= Spends(job[p])
<1> DEFINE Goal == /\ \A q \in Runners \ {p} : job'[q] = job[q]
                   /\ Paced(job'[p]) /\ Spends(job'[p]) <= Spends(job[p])
<1>1. /\ job[p].budget \in Nat /\ Pace \in Nat /\ Cardinality(job[p].todo) \in Nat
      /\ IsFiniteSet(job[p].todo) /\ job[p].todo \in SUBSET Addresses
      /\ Cardinality({}) = 0
  BY TodoTypes, ConstantsAssumption, FS_EmptySet DEF Paced
<1>2. CASE Begin(p)
  BY <1>1, <1>2, BeginFields DEF Paced, Spends, InHand
<1>3. ASSUME NEW c \in Campaigns, Pick(p, c) PROVE Goal
  <2>1. CASE job'[p].pc = "pick"
    BY <1>1, <1>3, <2>1, PickFields DEF Paced, Spends, InHand
  <2>2. CASE job'[p].pc = "batch"
    <3>1. /\ job'[p].todo = Lowest(Pending(c), Take(p)) /\ job'[p].todo # {}
          /\ job[p].pc = "pick" /\ job'[p].budget = job[p].budget
      BY <1>3, <2>2, PickFields
    <3>2. Pending(c) \in SUBSET Int /\ IsFiniteSet(Pending(c))
      <4>1. Pending(c) \subseteq Addresses
        BY DEF Pending
      <4>2. IsFiniteSet(Pending(c))
        BY <4>1, ConstantsAssumption, FS_Subset
      <4>3. Addresses \subseteq Nat
        BY ConstantsAssumption, Zenon
      <4>4. ASSUME NEW a \in Pending(c) PROVE a \in Int
        <5>1. a \in Nat
          BY <4>1, <4>3
        <5> QED
          BY <5>1
      <4> QED
        BY <4>2, <4>4
    <3>3. Take(p) \in Int /\ Take(p) <= job[p].budget
      BY TodoTypes DEF Take, Jobs, Records
    <3>4. /\ IsFiniteSet(job'[p].todo) /\ Cardinality(job'[p].todo) <= Take(p)
      BY <3>1, <3>2, <3>3, LowestCount
    <3>5. Cardinality(job'[p].todo) \in Nat
      BY <3>4, FS_CardinalityType
    <3>6. Cardinality(job'[p].todo) <= job'[p].budget
      BY <1>1, <3>1, <3>3, <3>4, <3>5
    <3> QED
      BY <1>1, <1>3, <2>2, <3>1, <3>5, <3>6, PickFields DEF Paced, Spends, InHand
  <2> QED
    BY <1>3, <2>1, <2>2, PickFields
<1>4. CASE NextPass(p)
  BY <1>1, <1>4, NextPassFields DEF Paced, Spends, InHand
<1>5. ASSUME NEW a \in Addresses, Claim(p, a) PROVE Goal
  <2>1. /\ a \in job[p].todo /\ job'[p].todo = job[p].todo \ {a} /\ job[p].pc = "batch"
    BY <1>5, ClaimFields
  <2>2. Cardinality(job[p].todo \ {a}) = Cardinality(job[p].todo) - 1
    BY <1>1, <2>1, FS_RemoveElement
  <2>3. Cardinality(job'[p].todo) = Cardinality(job[p].todo) - 1
    BY <2>1, <2>2, Zenon
  <2>4. Cardinality(job[p].todo) <= job[p].budget
    BY <1>1, <2>1 DEF Paced, InHand
  <2>5. /\ job'[p].pc \in {"claimed", "batch"} /\ job'[p].budget = job[p].budget
        /\ \A q \in Runners \ {p} : job'[q] = job[q]
    BY <1>5, ClaimFields
  <2>6. Cardinality(job'[p].todo) + (IF job'[p].pc = "claimed" THEN 1 ELSE 0) <= job'[p].budget
    BY <1>1, <2>3, <2>4, <2>5
  <2> QED
    BY <1>1, <2>1, <2>5, <2>6 DEF Paced, Spends, InHand
<1>6. CASE Compose(p)
  BY <1>1, <1>6, ComposeFields DEF Paced, Spends, InHand
<1>7. ASSUME NEW result \in Results, Relay(p, result) PROVE Goal
  <2>1. /\ \A q \in Runners \ {p} : job'[q] = job[q]
        /\ job[p].pc = "sending" /\ job'[p].pc = "record"
        /\ job'[p].budget = job[p].budget /\ job'[p].todo = job[p].todo
    BY <1>7, RelayFields
  <2> QED
    BY <1>1, <2>1 DEF Paced, Spends, InHand
<1>8. CASE RecordFailure(p)
  <2>1. /\ \A q \in Runners \ {p} : job'[q] = job[q]
        /\ job[p].pc = "record" /\ job'[p].pc = "batch"
        /\ job'[p].todo = {} /\ job'[p].budget = job[p].budget + 1
    BY <1>8, RecordFailureFields
  <2>2. Cardinality(job'[p].todo) = 0
    BY <1>1, <2>1, Zenon
  <2> QED
    BY <1>1, <2>1, <2>2 DEF Paced, Spends, InHand
<1>9. CASE BatchEnd(p)
  <2>1. /\ \A q \in Runners \ {p} : job'[q] = job[q]
        /\ job[p].pc = "batch" /\ job'[p].pc = "pick" /\ job'[p].budget = job[p].budget
    BY <1>9, BatchEndFields, Zenon
  <2> QED
    BY <1>1, <2>1 DEF Paced, Spends, InHand
<1>10. CASE End(p) \/ Kill(p) \/ SoftLimit(p)
  BY <1>1, <1>10, GoneFields DEF Paced, Spends, InHand
<1>11. CASE SoftLimitSwallowed(p)
  BY <1>1, <1>11, SwallowedFields DEF Paced, Spends, InHand
<1> QED
  BY <1>2, <1>3, <1>4, <1>5, <1>6, <1>7, <1>8, <1>9, <1>10, <1>11 DEF CutShort

LEMMA AnswerPaced ==
    ASSUME IInv, NEW p \in Runners, Paced(job[p]), RecordAnswer(p)
    PROVE  /\ \A q \in Runners \ {p} : job'[q] = job[q]
           /\ Paced(job'[p]) /\ Spends(job'[p]) + 1 = Spends(job[p])
<1>1. /\ job[p].budget \in Nat /\ Pace \in Nat /\ Cardinality(job[p].todo) \in Nat
      /\ IsFiniteSet(job[p].todo)
  BY TodoTypes, ConstantsAssumption DEF Paced
<1>2. job'[p].todo \subseteq job[p].todo
  BY RecordAnswerFields
<1>3. Cardinality(job'[p].todo) <= Cardinality(job[p].todo) /\ Cardinality(job'[p].todo) \in Nat
  BY <1>1, <1>2, FS_Subset, FS_CardinalityType
<1> QED
  BY <1>1, <1>3, RecordAnswerFields DEF Paced, Spends, InHand

\* A step that spends nothing new.
LEMMA Thrift ==
    ASSUME Budgeted,
           \A p \in Runners : Paced(job'[p]) /\ Spends(job'[p]) <= Spends(job[p]),
           SentThisMinute' \subseteq SentThisMinute, SentToday' \subseteq SentToday
    PROVE  Budgeted'
<1>1. /\ \A p \in Runners : Paced(job[p])
      /\ Cardinality(SentThisMinute) + Cardinality(Spots(Spending, Runners))
         <= Cardinality(Runners) * Pace
      /\ Cardinality(SentToday) + Cardinality(Spots(Spending, Runners))
         <= Ceiling + (Cardinality(Runners) - 1) * Pace
  BY DEF Budgeted
<1>2. Spending \in [Runners -> Nat] /\ IsFiniteSet(Spots(Spending, Runners))
      /\ Cardinality(Spots(Spending, Runners)) \in Nat
  BY <1>1, SpendingType
<1>3. \A p \in Runners : Spends(job'[p]) \in Nat /\ Spends(job[p]) \in Nat
  BY <1>1 DEF Paced, Spends
<1>4. \A p \in Runners : Spending'[p] \in Nat /\ Spending'[p] <= Spending[p]
  BY <1>3 DEF Spending
<1>5. Spots(Spending', Runners) \subseteq Spots(Spending, Runners)
  BY <1>2, <1>4 DEF Spots
<1>6. /\ Cardinality(Spots(Spending', Runners)) <= Cardinality(Spots(Spending, Runners))
      /\ Cardinality(Spots(Spending', Runners)) \in Nat
  BY <1>2, <1>5, FS_Subset, FS_CardinalityType
<1>7. /\ Cardinality(SentThisMinute') <= Cardinality(SentThisMinute)
      /\ Cardinality(SentToday') <= Cardinality(SentToday)
      /\ Cardinality(SentThisMinute) \in Nat /\ Cardinality(SentThisMinute') \in Nat
      /\ Cardinality(SentToday) \in Nat /\ Cardinality(SentToday') \in Nat
  BY SentTypes, FS_Subset, FS_CardinalityType
<1>8. Cardinality(Runners) \in Nat /\ Pace \in Nat /\ Ceiling \in Nat
  BY ConstantsAssumption, FS_CardinalityType
<1> DEFINE most == Cardinality(Runners) * Pace
           day == Ceiling + (Cardinality(Runners) - 1) * Pace
<1>9. most \in Int /\ day \in Int
  BY <1>8
<1> HIDE DEF most, day
<1>10. /\ Cardinality(SentThisMinute') + Cardinality(Spots(Spending', Runners)) <= most
       /\ Cardinality(SentToday') + Cardinality(Spots(Spending', Runners)) <= day
  <2>1. /\ Cardinality(SentThisMinute) + Cardinality(Spots(Spending, Runners)) <= most
        /\ Cardinality(SentToday) + Cardinality(Spots(Spending, Runners)) <= day
    BY <1>1 DEF most, day
  <2> QED
    BY <1>2, <1>6, <1>7, <1>9, <2>1
<1> QED
  BY <1>10 DEF Budgeted, most, day

\* Nothing but an answer of the relay makes a row one that was sent.
LEMMA SentKept ==
    ASSUME IInv, [Next]_vars, \A p \in Runners : ~RecordAnswer(p)
    PROVE  SentThisMinute' \subseteq SentThisMinute /\ SentToday' \subseteq SentToday
<1> SUFFICES /\ \A r \in Rows : row'[r] = "sent" => row[r] = "sent"
             /\ \A r \in Rows : \/ stamp'[r] = stamp[r]
                                \/ stamp'[r] = "old"
                                \/ stamp[r] = "minute" /\ stamp'[r] = "day"
  BY DEF SentThisMinute, SentToday
<1>1. row \in [Rows -> RowStatuses] /\ stamp \in [Rows -> {"minute", "day", "old"}]
  BY DEF IInv, TypeOK
<1>2. \A r \in Rows : \/ stamp'[r] = stamp[r]
                      \/ stamp'[r] = "old"
                      \/ stamp[r] = "minute" /\ stamp'[r] = "day"
  <2>1. CASE NewMinute
    BY <1>1, <2>1 DEF NewMinute
  <2>2. CASE NewDay
    BY <1>1, <2>2 DEF NewDay
  <2>3. CASE ~NewMinute /\ ~NewDay
    <3>1. ASSUME NEW p \in Runners, Run(p) \/ CutShort(p) PROVE stamp' = stamp
      <4>1. ~RecordAnswer(p)
        OBVIOUS
      <4> QED
        BY <3>1, <4>1 DEF Run, CutShort, Sending, Begin, Plan, Pick, NextPass, Claim, Compose,
         Relay, RecordFailure, BatchEnd, End, SoftLimit, SoftLimitSwallowed, Kill
    <3>2. CASE ~\E p \in Runners : Run(p) \/ CutShort(p)
      BY <2>3, <3>2 DEF Next, vars, People, Create, Pause, Resume, Cancel, StartNow, Reschedule,
         Elapse, Move, Block, OptOut, Tick
    <3> QED
      BY <3>1, <3>2
  <2> QED
    BY <2>1, <2>2, <2>3
<1>3. \A r \in Rows : row'[r] = "sent" => row[r] = "sent"
  <2>1. CASE \E p \in Runners : Run(p)
    <3>1. PICK p \in Runners : Run(p)
      BY <2>1
    <3>2. CASE Begin(p)
      BY <1>1, <3>2 DEF Begin
    <3>3. ASSUME NEW a \in Addresses, Claim(p, a) PROVE <1>3
      BY <1>1, <3>3 DEF Claim
    <3>4. CASE Compose(p)
      BY <1>1, <3>4, ComposeFields
    <3>5. CASE RecordFailure(p)
      BY <1>1, <3>5 DEF RecordFailure
    <3> QED
      BY <3>1, <3>2, <3>3, <3>4, <3>5 DEF Run, Sending, Plan, Pick, NextPass, Relay, BatchEnd, End
  <2>2. CASE \E c \in Campaigns : People(c)
    BY <1>1, <2>2 DEF People, Create, Pause, Resume, Cancel, StartNow, Reschedule, Elapse, Move, Block
  <2>3. CASE ~(\E p \in Runners : Run(p)) /\ ~(\E c \in Campaigns : People(c))
    BY <2>3 DEF Next, vars, OptOut, CutShort, SoftLimit, SoftLimitSwallowed, Kill, Tick, NewMinute, NewDay
  <2> QED
    BY <2>1, <2>2, <2>3
<1> QED
  BY <1>2, <1>3

\* A new budget leaves room for what the other runs may still send.
LEMMA PlanBudgeted ==
    ASSUME IInv, Budgeted, NEW p \in Runners, Plan(p)
    PROVE  Budgeted'
<1> DEFINE minute == Cardinality(SentThisMinute)
           today == Cardinality(SentToday)
           n == Cardinality(Runners)
<1>1. /\ SentThisMinute' = SentThisMinute /\ SentToday' = SentToday
  BY DEF Plan, SentThisMinute, SentToday
<1>2. minute \in Nat /\ today \in Nat
  BY SentTypes
<1>3. n \in Nat /\ Pace \in Nat /\ Ceiling \in Nat /\ IsFiniteSet(Runners)
  BY ConstantsAssumption, FS_CardinalityType
<1>4. \A q \in Runners : Paced(job[q])
  BY DEF Budgeted
<1>5. \A q \in Runners \ {p} : job'[q] = job[q]
  BY PlanFields
<1>6. CASE job'[p].pc = "closing"
  <2>1. job'[p].budget = job[p].budget /\ job[p].pc = "plan"
    BY <1>6, PlanFields
  <2>2. Paced(job'[p]) /\ Spends(job'[p]) <= Spends(job[p])
    BY <1>3, <1>4, <1>6, <2>1 DEF Paced, Spends, InHand
  <2>3. \A q \in Runners : Paced(job'[q]) /\ Spends(job'[q]) <= Spends(job[q])
    <3>1. \A q \in Runners : Spends(job[q]) \in Nat
      BY <1>4 DEF Paced, Spends
    <3> QED
      BY <1>4, <1>5, <2>2, <3>1
  <2> QED
    BY <1>1, <2>3, Thrift
<1>7. CASE job'[p].pc = "pick"
  <2>1. Budget > 0 /\ job'[p].budget = Budget
    BY <1>7, PlanFields
  <2> DEFINE own == job'[p].budget
             others == Cardinality(Spots(Spending', Runners \ {p}))
  <2>2. own \in Nat /\ own <= Pace - minute /\ own <= Ceiling - today
    BY <1>2, <1>3, <2>1 DEF Budget
  <2>3. Spends(job'[p]) = own
    BY <1>7, <2>2 DEF Spends
  <2>4. Paced(job'[p])
    BY <1>2, <1>3, <1>7, <2>2, <2>3 DEF Paced, InHand
  <2>5. \A q \in Runners : Paced(job'[q])
    BY <1>4, <1>5, <2>4
  <2>6. \A q \in Runners : Spending'[q] = Spends(job'[q]) /\ Spending'[q] \in Nat /\ Spending'[q] <= Pace
    BY <2>5 DEF Spending, Spends, Paced
  <2>7. Spending' \in [Runners -> Nat]
    BY <2>6 DEF Spending
  <2>8. /\ Cardinality(Spots(Spending', Runners)) = others + Spending'[p]
        /\ Cardinality(Spots(Spending', Runners)) \in Nat /\ others \in Nat
    BY <1>3, <2>7, Without
  <2>9. IsFiniteSet(Runners \ {p}) /\ Cardinality(Runners \ {p}) = n - 1
    BY <1>3, FS_RemoveElement
  <2>10. others <= Cardinality(Runners \ {p}) * Pace
    BY <1>3, <2>6, <2>9, Bounded
  <2>11. others <= (n - 1) * Pace
    BY <2>9, <2>10
  <2>12. Cardinality(Spots(Spending', Runners)) = others + own
    BY <2>3, <2>6, <2>8
  <2> HIDE DEF minute, today, n, own, others
  <2>13. (n - 1) * Pace + Pace = n * Pace /\ (n - 1) * Pace \in Int
    BY <1>3
  <2>14. /\ minute + (others + own) <= n * Pace
         /\ today + (others + own) <= Ceiling + (n - 1) * Pace
    <3> DEFINE rest == (n - 1) * Pace
               most == n * Pace
    <3>1. rest + Pace = most /\ rest \in Int /\ others <= rest
      BY <2>11, <2>13
    <3>2. others \in Nat
      BY <2>8
    <3> HIDE DEF rest, most
    <3>3. minute + (others + own) <= most /\ today + (others + own) <= Ceiling + rest
      BY <1>2, <1>3, <2>2, <3>1, <3>2
    <3> QED
      BY <3>3 DEF rest, most
  <2> QED
    BY <1>1, <2>5, <2>12, <2>14 DEF Budgeted, minute, today, n
<1> QED
  BY <1>6, <1>7, PlanFields

\* An email that was accepted has been in the run's budget.
LEMMA AnswerBudgeted ==
    ASSUME IInv, Budgeted, NEW p \in Runners, RecordAnswer(p)
    PROVE  Budgeted'
<1> DEFINE r == job[p].cur
           most == Cardinality(Runners) * Pace
           day == Ceiling + (Cardinality(Runners) - 1) * Pace
<1>1. \A q \in Runners : Paced(job[q])
  BY DEF Budgeted
<1>2. /\ \A q \in Runners \ {p} : job'[q] = job[q]
      /\ Paced(job'[p]) /\ Spends(job'[p]) + 1 = Spends(job[p])
  BY <1>1, AnswerPaced
<1>3. \A q \in Runners : Paced(job'[q])
  BY <1>1, <1>2
<1>4. Spending \in [Runners -> Nat] /\ Spending' \in [Runners -> Nat]
  BY <1>1, <1>3 DEF Spending, Spends, Paced
<1>5. \A q \in Runners \ {p} : Spending[q] = Spending'[q]
  BY <1>2 DEF Spending
<1>6. Spending'[p] + 1 = Spending[p]
  BY <1>2 DEF Spending
<1>7. PICK rest \in Nat :
        /\ Cardinality(Spots(Spending, Runners)) = rest + (IF p \in Runners THEN Spending[p] ELSE 0)
        /\ Cardinality(Spots(Spending', Runners)) = rest + (IF p \in Runners THEN Spending'[p] ELSE 0)
  BY <1>4, <1>5, ConstantsAssumption, Weigh
<1>8. Cardinality(Spots(Spending', Runners)) + 1 = Cardinality(Spots(Spending, Runners))
  BY <1>4, <1>6, <1>7
<1>9. SentThisMinute' \subseteq SentThisMinute \cup {r} /\ SentToday' \subseteq SentToday \cup {r}
  BY DEF RecordAnswer, SentThisMinute, SentToday, IInv, TypeOK
<1>10. \A S, T : /\ IsFiniteSet(S) /\ T \subseteq S \cup {r}
                 => Cardinality(T) <= Cardinality(S) + 1 /\ Cardinality(T) \in Nat
  <2> SUFFICES ASSUME NEW S, NEW T, IsFiniteSet(S), T \subseteq S \cup {r}
               PROVE  Cardinality(T) <= Cardinality(S) + 1 /\ Cardinality(T) \in Nat
    OBVIOUS
  <2>1. IsFiniteSet(S \cup {r}) /\ Cardinality(S) \in Nat
        /\ Cardinality(S \cup {r}) = IF r \in S THEN Cardinality(S) ELSE Cardinality(S) + 1
    BY FS_AddElement, FS_CardinalityType
  <2>2. Cardinality(T) <= Cardinality(S \cup {r}) /\ Cardinality(T) \in Nat
    BY <2>1, FS_Subset, FS_CardinalityType
  <2> QED
    BY <2>1, <2>2
<1>11. /\ IsFiniteSet(SentThisMinute) /\ IsFiniteSet(SentToday)
       /\ Cardinality(SentThisMinute) \in Nat /\ Cardinality(SentToday) \in Nat
  BY SentTypes
<1>12. /\ Cardinality(SentThisMinute') <= Cardinality(SentThisMinute) + 1
       /\ Cardinality(SentToday') <= Cardinality(SentToday) + 1
  BY <1>9, <1>10, <1>11
<1>13. Cardinality(SentThisMinute') \in Nat /\ Cardinality(SentToday') \in Nat
  BY <1>9, <1>10, <1>11
<1>14. most \in Int /\ day \in Int
  BY ConstantsAssumption, FS_CardinalityType
<1>15. /\ Cardinality(SentThisMinute) + Cardinality(Spots(Spending, Runners)) <= most
       /\ Cardinality(SentToday) + Cardinality(Spots(Spending, Runners)) <= day
  BY DEF Budgeted
<1>16. Cardinality(Spots(Spending', Runners)) \in Nat
  BY <1>4, <1>7
<1> HIDE DEF most, day
<1>17. /\ Cardinality(SentThisMinute') + Cardinality(Spots(Spending', Runners)) <= most
       /\ Cardinality(SentToday') + Cardinality(Spots(Spending', Runners)) <= day
  BY <1>8, <1>11, <1>12, <1>13, <1>14, <1>15, <1>16
<1> QED
  BY <1>3, <1>17 DEF Budgeted, most, day

LEMMA BudgetedInit == Init => Budgeted
<1> SUFFICES ASSUME Init PROVE Budgeted
  OBVIOUS
<1>1. \A p \in Runners : job[p] = IdleJob
  BY DEF Init
<1>2. \A p \in Runners : Paced(job[p]) /\ Spends(job[p]) = 0
  BY <1>1, ConstantsAssumption DEF IdleJob, Paced, Spends, InHand
<1>3. SentThisMinute = {} /\ SentToday = {}
  BY DEF Init, SentThisMinute, SentToday
<1>4. Spots(Spending, Runners) = {}
  BY <1>2 DEF Spots, Spending
<1>5. /\ Cardinality(SentThisMinute) = 0 /\ Cardinality(SentToday) = 0
      /\ Cardinality(Spots(Spending, Runners)) = 0
  BY <1>3, <1>4, FS_EmptySet, Zenon
<1>6. Cardinality(Runners) \in Nat /\ Cardinality(Runners) > 0 /\ Pace \in Nat /\ Ceiling \in Nat
  BY ConstantsAssumption, FS_CardinalityType, FS_EmptySet
<1>7. 0 <= Cardinality(Runners) * Pace /\ 0 <= Ceiling + (Cardinality(Runners) - 1) * Pace
  <2>1. Cardinality(Runners) - 1 \in Nat
    BY <1>6
  <2>2. Cardinality(Runners) * Pace \in Nat /\ (Cardinality(Runners) - 1) * Pace \in Nat
    BY <1>6, <2>1
  <2> QED
    BY <1>6, <2>2
<1> QED
  BY <1>2, <1>5, <1>7 DEF Budgeted

LEMMA BudgetedNext == IInv /\ Budgeted /\ [Next]_vars => Budgeted'
<1> SUFFICES ASSUME IInv, Budgeted, [Next]_vars PROVE Budgeted'
  OBVIOUS
<1>1. \A p \in Runners : Paced(job[p]) /\ Spends(job[p]) \in Nat
  BY DEF Budgeted, Paced, Spends
<1>2. ASSUME NEW p \in Runners, Run(p) \/ CutShort(p), ~Plan(p), \A q \in Runners : ~RecordAnswer(q)
      PROVE  Budgeted'
  <2>1. /\ \A q \in Runners \ {p} : job'[q] = job[q]
        /\ Paced(job'[p]) /\ Spends(job'[p]) <= Spends(job[p])
    BY <1>1, <1>2, PacedStep DEF Run, Sending
  <2>2. \A q \in Runners : Paced(job'[q]) /\ Spends(job'[q]) <= Spends(job[q])
    BY <1>1, <2>1
  <2> QED
    BY <1>2, <2>2, SentKept, Thrift
<1>3. ASSUME ~\E p \in Runners : Run(p) \/ CutShort(p)
      PROVE  Budgeted'
  <2>1. \A p \in Runners : ~RecordAnswer(p)
    BY <1>3 DEF Run, Sending
  <2>2. \A p \in Runners : /\ job'[p].pc = job[p].pc /\ job'[p].budget = job[p].budget
                           /\ job'[p].todo = job[p].todo
    <3>1. CASE Tick
      BY <3>1, TickFields
    <3>2. CASE ~Tick
      <4>1. job' = job
        BY <1>3, <3>2 DEF Next, vars, People, Create, Pause, Resume, Cancel, StartNow, Reschedule,
           Elapse, Move, Block, OptOut, NewMinute, NewDay
      <4> QED
        BY <4>1
    <3> QED
      BY <3>1, <3>2
  <2>3. \A q \in Runners : Paced(job'[q]) /\ Spends(job'[q]) <= Spends(job[q])
    BY <1>1, <2>2 DEF Paced, Spends, InHand
  <2> QED
    BY <2>1, <2>3, SentKept, Thrift
<1>4. CASE \E p \in Runners : RecordAnswer(p)
  BY <1>4, AnswerBudgeted
<1>5. CASE \E p \in Runners : Plan(p)
  BY <1>5, PlanBudgeted
<1> QED
  BY <1>2, <1>3, <1>4, <1>5

\* The minute's pace and the day's ceiling, for any number of runs that overlap in
\* any way, of campaigns and of recipients.
THEOREM BudgetsHoldAlways == Spec => []BudgetsHold
<1>1. Budgeted => BudgetsHold
  <2> SUFFICES ASSUME Budgeted PROVE BudgetsHold
    OBVIOUS
  <2> DEFINE most == Cardinality(Runners) * Pace
             day == Ceiling + (Cardinality(Runners) - 1) * Pace
             spots == Cardinality(Spots(Spending, Runners))
  <2>1. spots \in Nat /\ Cardinality(SentThisMinute) \in Nat /\ Cardinality(SentToday) \in Nat
    BY SpendingType, SentTypes DEF Budgeted
  <2>2. most \in Int /\ day \in Int
    BY ConstantsAssumption, FS_CardinalityType
  <2>3. Cardinality(SentThisMinute) + spots <= most /\ Cardinality(SentToday) + spots <= day
    BY DEF Budgeted
  <2> HIDE DEF most, day, spots
  <2>4. Cardinality(SentThisMinute) <= most /\ Cardinality(SentToday) <= day
    BY <2>1, <2>2, <2>3
  <2> QED
    BY <2>4 DEF most, day, BudgetsHold
<1> QED
  BY <1>1, BudgetedInit, BudgetedNext, Invariant, PTL DEF Spec

-----------------------------------------------------------------------------
(* What is sent after a pause: StopsSoon.                                   *)

\* A campaign a run has given up, its batch broken off by a failure.
Given(j, c) == InHand(j) /\ j.camp = c /\ (j.stop \/ j.result \in {"failed", "lost"})

\* The emails of campaign c a run may still have accepted.
Left(j, c) ==
    IF c \in j.runnable /\ ~Given(j, c)
    THEN j.budget + (IF j.pc = "sending" \/ (j.pc = "record" /\ j.camp # c) THEN 1 ELSE 0)
    ELSE 0

AllLeft(c) == [p \in Runners |-> Left(job[p], c)]

\* The campaigns of a run: the one in hand is still to be sent, and not again in
\* this pass.
Passing(j) ==
    /\ j.pass \subseteq j.runnable
    /\ InHand(j) => j.camp \in j.runnable \ j.pass
    /\ ~InHand(j) => j.camp = None
    /\ j.stop => j.pc = "batch" /\ j.todo = {}
    /\ j.pc \in {"claimed", "sending", "record"} => j.cur[1] = j.camp

\* What was sent since the campaign stopped, and what the runs may still send.
Soon ==
    /\ \A p \in Runners : Passing(job[p])
    /\ \A c \in Campaigns :
          /\ after[c] \in Nat
          /\ after[c] + Cardinality(Spots(AllLeft(c), Runners)) <= Cardinality(Runners) * Pace

LEMMA PassingStep ==
    ASSUME IInv, NEW p \in Runners, Passing(job[p]), Run(p) \/ CutShort(p)
    PROVE  Passing(job'[p]) /\ \A q \in Runners \ {p} : job'[q] = job[q]
<1> DEFINE Goal == Passing(job'[p]) /\ \A q \in Runners \ {p} : job'[q] = job[q]
<1>1. CASE Begin(p)
  BY <1>1, BeginFields DEF Passing, InHand
<1>2. CASE Plan(p)
  BY <1>2, PlanFields DEF Passing, InHand
<1>3. ASSUME NEW c \in Campaigns, Pick(p, c) PROVE Goal
  BY <1>3, PickFields DEF Passing, InHand
<1>4. CASE NextPass(p)
  BY <1>4, NextPassFields DEF Passing, InHand
<1>5. ASSUME NEW a \in Addresses, Claim(p, a) PROVE Goal
  <2>1. /\ \A q \in Runners \ {p} : job'[q] = job[q]
        /\ job[p].pc = "batch" /\ a \in job[p].todo
        /\ job'[p].runnable = job[p].runnable /\ job'[p].pass = job[p].pass
        /\ job'[p].camp = job[p].camp /\ job'[p].stop = job[p].stop
        /\ \/ job'[p].pc = "claimed" /\ job'[p].cur = <<job[p].camp, a>>
           \/ job'[p].pc = "batch"
    BY <1>5, ClaimFields
  <2> QED
    BY <2>1 DEF Passing, InHand
<1>6. CASE Compose(p)
  BY <1>6, ComposeFields DEF Passing, InHand
<1>7. ASSUME NEW result \in Results, Relay(p, result) PROVE Goal
  BY <1>7, RelayFields DEF Passing, InHand
<1>8. CASE RecordAnswer(p)
  BY <1>8, RecordAnswerFields DEF Passing, InHand
<1>9. CASE RecordFailure(p)
  BY <1>9, RecordFailureFields DEF Passing, InHand
<1>10. CASE BatchEnd(p)
  <2>1. /\ \A q \in Runners \ {p} : job'[q] = job[q]
        /\ job[p].pc = "batch" /\ job'[p].pc = "pick"
        /\ job'[p].camp = None /\ ~job'[p].stop /\ job'[p].pass = job[p].pass
        /\ \/ job'[p].runnable = job[p].runnable
           \/ job'[p].runnable = job[p].runnable \ {job[p].camp}
    BY <1>10, BatchEndFields
  <2> QED
    BY <2>1 DEF Passing, InHand
<1>11. CASE End(p) \/ Kill(p) \/ SoftLimit(p)
  BY <1>11, GoneFields DEF Passing, InHand
<1>12. CASE SoftLimitSwallowed(p)
  BY <1>12, SwallowedFields DEF Passing, InHand
<1> QED
  BY <1>1, <1>2, <1>3, <1>4, <1>5, <1>6, <1>7, <1>8, <1>9, <1>10, <1>11, <1>12
     DEF Run, CutShort, Sending

LEMMA LeftType ==
    ASSUME NEW j, Paced(j), NEW c
    PROVE  Left(j, c) \in Nat /\ Left(j, c) <= Spends(j) /\ Left(j, c) <= Pace /\ Spends(j) \in Nat
BY ConstantsAssumption DEF Paced, Left, Spends

\* The relay accepts an email of the campaign in hand, which the run had left.
LEMMA RelayLeft ==
    ASSUME IInv, NEW p \in Runners, Paced(job[p]), Passing(job[p]),
           NEW result \in Results, Relay(p, result), NEW c \in Campaigns
    PROVE  /\ Cardinality(Accepted(c)) \in Nat
           /\ Left(job'[p], c) + Cardinality(Accepted(c)) <= Left(job[p], c)
<1> DEFINE r == job[p].cur
<1>1. /\ job[p].pc = "sending" /\ job'[p].pc = "record" /\ job'[p].result = result
      /\ job'[p].budget = job[p].budget /\ job'[p].runnable = job[p].runnable
      /\ job'[p].camp = job[p].camp /\ job'[p].stop = job[p].stop
  BY RelayFields
<1>2. /\ r[1] = job[p].camp /\ job[p].camp \in job[p].runnable /\ ~job[p].stop
      /\ job[p].budget \in Nat
  BY <1>1 DEF Passing, Paced, InHand
<1>3. job[p].result = "none"
  BY <1>1 DEF IInv, TypeOK, Jobs
<1>4. Accepted(c) \subseteq {r} /\ (Accepted(c) # {} => r[1] = c)
  BY DEF Accepted, Relay, IInv, TypeOK
<1>5. Cardinality(Accepted(c)) \in Nat /\ Cardinality(Accepted(c)) <= 1
  <2>1. IsFiniteSet({r}) /\ Cardinality({r}) = 1
    BY FS_Singleton
  <2> QED
    BY <1>4, <2>1, FS_Subset, FS_CardinalityType
<1>6. Accepted(c) = {} => Cardinality(Accepted(c)) = 0
  BY FS_EmptySet, Zenon
<1>7. CASE c = job[p].camp
  <2>1. Left(job[p], c) = job[p].budget + 1
    BY <1>1, <1>2, <1>3, <1>7 DEF Left, Given, InHand
  <2>2. Left(job'[p], c) \in {0, job[p].budget}
    BY <1>1, <1>2, <1>7 DEF Left, Given, InHand
  <2> QED
    BY <1>2, <1>5, <2>1, <2>2
<1>8. CASE c # job[p].camp
  <2>1. Left(job'[p], c) = Left(job[p], c)
    BY <1>1, <1>8 DEF Left, Given, InHand
  <2>2. Cardinality(Accepted(c)) = 0
    BY <1>2, <1>4, <1>6, <1>8
  <2> QED
    BY <2>1, <2>2, LeftType
<1> QED
  BY <1>5, <1>7, <1>8

\* Nothing else is accepted, and a run takes up only what is still sending.
LEMMA StepLeft ==
    ASSUME IInv, NEW p \in Runners, Paced(job[p]), Passing(job[p]), Run(p) \/ CutShort(p),
           NEW c \in Campaigns, camp'[c] # "sending"
    PROVE  /\ Cardinality(Accepted(c)) \in Nat
           /\ Left(job'[p], c) + Cardinality(Accepted(c)) <= Left(job[p], c)
<1>1. CASE \E result \in Results : Relay(p, result)
  BY <1>1, RelayLeft
<1>2. CASE ~\E result \in Results : Relay(p, result)
  <2>1. mails' = mails
    BY <1>2 DEF Run, CutShort, Sending, Begin, Plan, Pick, NextPass, Claim, Compose,
       RecordAnswer, RecordFailure, BatchEnd, End, SoftLimit, SoftLimitSwallowed, Kill, history
  <2>2. Accepted(c) = {}
    BY <2>1 DEF Accepted, IInv, TypeOK
  <2>3. Cardinality(Accepted(c)) = 0
    BY <2>2, FS_EmptySet, Zenon
  <2>4. Left(job[p], c) \in Nat /\ job[p].budget \in Nat
    BY LeftType DEF Paced
  <2>5. Left(job'[p], c) \in Nat /\ Left(job'[p], c) <= Left(job[p], c)
    <3> DEFINE Goal == Left(job'[p], c) \in Nat /\ Left(job'[p], c) <= Left(job[p], c)
    <3>1. CASE Begin(p)
      BY <2>4, <3>1, BeginFields DEF Left, Given, InHand
    <3>2. CASE Plan(p)
      <4>1. camp[c] = "sending" => c \in blocked
        BY <3>2 DEF Plan, IInv, TypeOK
      <4>2. CASE job'[p].pc = "pick"
        <5>1. c \notin job'[p].runnable
          BY <3>2, <4>1, <4>2, PlanFields
        <5> QED
          BY <2>4, <5>1 DEF Left
      <4>3. CASE job'[p].pc = "closing"
        BY <2>4, <3>2, <4>3, PlanFields DEF Left, Given, InHand
      <4> QED
        BY <3>2, <4>2, <4>3, PlanFields
    <3>3. ASSUME NEW d \in Campaigns, Pick(p, d) PROVE Goal
      <4>1. job[p].result = "none" /\ ~job[p].stop /\ job[p].pc = "pick"
        BY <3>3, PickFields DEF Passing, IInv, TypeOK, Jobs
      <4> QED
        BY <2>4, <3>3, <4>1, PickFields DEF Left, Given, InHand
    <3>4. CASE NextPass(p)
      BY <2>4, <3>4, NextPassFields DEF Left, Given, InHand
    <3>5. ASSUME NEW a \in Addresses, Claim(p, a) PROVE Goal
      <4>1. /\ job[p].pc = "batch" /\ job'[p].pc \in {"claimed", "batch"}
            /\ job'[p].budget = job[p].budget /\ job'[p].runnable = job[p].runnable
            /\ job'[p].camp = job[p].camp /\ job'[p].result = job[p].result
            /\ job'[p].stop = job[p].stop
        BY <3>5, ClaimFields
      <4> QED
        BY <2>4, <4>1 DEF Left, Given, InHand
    <3>6. CASE Compose(p)
      BY <2>4, <3>6, ComposeFields DEF Left, Given, InHand
    <3>7. CASE RecordAnswer(p)
      <4>1. ~job[p].stop /\ job[p].result \in {"accepted", "refused"}
        BY <3>7, RecordAnswerFields DEF Passing, RecordAnswer
      <4>2. /\ job[p].pc = "record" /\ job'[p].pc = "batch"
            /\ job'[p].budget = job[p].budget /\ job'[p].runnable = job[p].runnable
            /\ job'[p].camp = job[p].camp
        BY <3>7, RecordAnswerFields
      <4> QED
        BY <2>4, <4>1, <4>2 DEF Left, Given, InHand
    <3>8. CASE RecordFailure(p)
      <4>1. /\ job[p].pc = "record" /\ job'[p].pc = "batch"
            /\ job[p].result \in {"failed", "lost"} /\ job'[p].stop
            /\ job'[p].budget = job[p].budget + 1
            /\ job'[p].runnable = job[p].runnable /\ job'[p].camp = job[p].camp
        BY <3>8, RecordFailureFields
      <4> QED
        BY <2>4, <4>1 DEF Left, Given, InHand
    <3>9. CASE BatchEnd(p)
      <4>1. /\ job[p].pc = "batch" /\ job'[p].pc = "pick"
            /\ job'[p].budget = job[p].budget
            /\ \/ job'[p].runnable = job[p].runnable /\ ~job[p].stop
               \/ job'[p].runnable = job[p].runnable \ {job[p].camp}
        BY <3>9, BatchEndFields
      <4>2. job[p].result = "none"
        BY <4>1 DEF IInv, TypeOK, Jobs
      <4> QED
        BY <2>4, <4>1, <4>2 DEF Left, Given, InHand
    <3>10. CASE End(p) \/ Kill(p) \/ SoftLimit(p)
      <4>1. job'[p].runnable = {}
        BY <3>10, GoneFields
      <4> QED
        BY <2>4, <4>1 DEF Left
    <3>11. CASE SoftLimitSwallowed(p)
      BY <2>4, <3>11, SwallowedFields DEF Left, Given, InHand
    <3> QED
      BY <1>2, <3>1, <3>2, <3>3, <3>4, <3>5, <3>6, <3>7, <3>8, <3>9, <3>10, <3>11
         DEF Run, CutShort, Sending
  <2> QED
    BY <2>3, <2>4, <2>5
<1> QED
  BY <1>1, <1>2

LEMMA SoonInit == MCInit => Soon
<1> SUFFICES ASSUME MCInit PROVE Soon
  OBVIOUS
<1>1. \A p \in Runners : job[p] = IdleJob
  BY DEF MCInit, Init
<1>2. \A p \in Runners : Passing(job[p])
  BY <1>1 DEF Passing, InHand, IdleJob
<1>3. ASSUME NEW c \in Campaigns
      PROVE  after[c] \in Nat
             /\ after[c] + Cardinality(Spots(AllLeft(c), Runners)) <= Cardinality(Runners) * Pace
  <2>1. \A p \in Runners : Left(job[p], c) = 0
    BY <1>1 DEF Left, IdleJob
  <2>2. Spots(AllLeft(c), Runners) = {}
    BY <2>1 DEF Spots, AllLeft
  <2>3. Cardinality(Spots(AllLeft(c), Runners)) = 0
    BY <2>2, FS_EmptySet, Zenon
  <2>4. Cardinality(Runners) * Pace \in Nat
    BY ConstantsAssumption, FS_CardinalityType
  <2>5. after[c] = 0
    BY DEF MCInit
  <2> QED
    BY <2>3, <2>4, <2>5
<1> QED
  BY <1>2, <1>3 DEF Soon

\* The bound after a step in which what each run has left of the campaign falls by
\* what is accepted from it.
LEMMA SoonStep ==
    ASSUME IInv, Budgeted, Budgeted', Soon, NEW c \in Campaigns,
           after'[c] = IF camp'[c] = "sending" THEN 0 ELSE after[c] + Cardinality(Accepted(c)),
           NEW p \in Runners, \A q \in Runners \ {p} : job'[q] = job[q],
           camp'[c] # "sending" => /\ Cardinality(Accepted(c)) \in Nat
                                   /\ Left(job'[p], c) + Cardinality(Accepted(c)) <= Left(job[p], c)
    PROVE  /\ after'[c] \in Nat
           /\ after'[c] + Cardinality(Spots(AllLeft(c)', Runners)) <= Cardinality(Runners) * Pace
<1> DEFINE most == Cardinality(Runners) * Pace
           now == AllLeft(c)
           next == AllLeft(c)'
<1>1. \A q \in Runners : Paced(job[q]) /\ Paced(job'[q])
  BY DEF Budgeted
<1>2. /\ \A q \in Runners : now[q] = Left(job[q], c) /\ next[q] = Left(job'[q], c)
      /\ now \in [Runners -> Nat] /\ next \in [Runners -> Nat]
  <2>1. \A q \in Runners : Left(job[q], c) \in Nat /\ Left(job'[q], c) \in Nat
    BY <1>1, LeftType
  <2> QED
    BY <2>1 DEF AllLeft
<1>3. \A q \in Runners : next[q] \in Nat /\ next[q] <= Pace
  BY <1>1, <1>2, LeftType
<1>4. most \in Nat /\ IsFiniteSet(Runners) /\ Pace \in Nat
  BY ConstantsAssumption, FS_CardinalityType
<1>5. /\ after[c] \in Nat
      /\ after[c] + Cardinality(Spots(now, Runners)) <= most
  BY DEF Soon
<1>6. \A q \in Runners \ {p} : now[q] = next[q]
  BY <1>2
<1> HIDE DEF now, next
<1>7. CASE camp'[c] = "sending"
  <2>1. Cardinality(Spots(next, Runners)) <= most /\ Cardinality(Spots(next, Runners)) \in Nat
    BY <1>3, <1>4, Bounded
  <2> QED
    BY <1>7, <2>1 DEF next
<1>8. CASE camp'[c] # "sending"
  <2>1. PICK rest \in Nat :
          /\ Cardinality(Spots(now, Runners)) = rest + (IF p \in Runners THEN now[p] ELSE 0)
          /\ Cardinality(Spots(next, Runners)) = rest + (IF p \in Runners THEN next[p] ELSE 0)
    BY <1>2, <1>4, <1>6, Weigh
  <2>2. /\ Cardinality(Spots(now, Runners)) = rest + now[p] /\ now[p] \in Nat
        /\ Cardinality(Spots(next, Runners)) = rest + next[p] /\ next[p] \in Nat
    BY <1>2, <2>1
  <2>3. Cardinality(Accepted(c)) \in Nat /\ next[p] + Cardinality(Accepted(c)) <= now[p]
    BY <1>2, <1>8
  <2>4. after'[c] = after[c] + Cardinality(Accepted(c))
    BY <1>8
  <2> HIDE DEF most
  <2>5. after'[c] \in Nat /\ after'[c] + Cardinality(Spots(next, Runners)) <= most
    BY <1>4, <1>5, <2>2, <2>3, <2>4
  <2> QED
    BY <2>5 DEF most, next
<1> QED
  BY <1>7, <1>8

\* The scenes only leave steps out.
LEMMA MCStep == [MCNext]_<<scene, after, vars>> => [Next]_vars
<1>1. ASSUME NEW a, OptOut(a) PROVE Next
  <2>1. a \in Addresses
    BY <1>1, ConstantsAssumption DEF OptOut
  <2> QED
    BY <1>1, <2>1 DEF Next
<1>2. UNCHANGED <<scene, after, vars>> => UNCHANGED vars
  BY DEF vars
<1> QED
  BY <1>1, <1>2 DEF MCNext

LEMMA SoonNext == IInv /\ Budgeted /\ Budgeted' /\ Soon /\ [MCNext]_<<scene, after, vars>> => Soon'
<1> SUFFICES ASSUME IInv, Budgeted, Budgeted', Soon, [MCNext]_<<scene, after, vars>> PROVE Soon'
  OBVIOUS
<1>1. \A p \in Runners : Passing(job[p])
  BY DEF Soon
<1>2. ASSUME NEW p \in Runners, Run(p) \/ CutShort(p), MCNext PROVE Soon'
  <2>1. Passing(job'[p]) /\ \A q \in Runners \ {p} : job'[q] = job[q]
    BY <1>1, <1>2, PassingStep
  <2>2. \A q \in Runners : Passing(job'[q])
    BY <1>1, <2>1
  <2>3. ASSUME NEW c \in Campaigns
        PROVE  /\ after'[c] \in Nat
               /\ after'[c] + Cardinality(Spots(AllLeft(c)', Runners)) <= Cardinality(Runners) * Pace
    <3>1. after'[c] = IF camp'[c] = "sending" THEN 0 ELSE after[c] + Cardinality(Accepted(c))
      BY <1>2 DEF MCNext
    <3>2. Paced(job[p])
      BY DEF Budgeted
    <3>3. camp'[c] # "sending" => /\ Cardinality(Accepted(c)) \in Nat
                                  /\ Left(job'[p], c) + Cardinality(Accepted(c)) <= Left(job[p], c)
      BY <1>1, <1>2, <3>2, StepLeft
    <3> QED
      BY <2>1, <3>1, <3>3, SoonStep
  <2> QED
    BY <2>2, <2>3 DEF Soon
<1>3. CASE ~\E p \in Runners : Run(p) \/ CutShort(p)
  <2>1. [Next]_vars
    BY MCStep
  <2>2. mails' = mails
    BY <1>3, <2>1 DEF Next, vars, People, Create, Pause, Resume, Cancel, StartNow, Reschedule,
       Elapse, Move, Block, OptOut, Tick, NewMinute, NewDay, history
  <2>3. \A p \in Runners : /\ job'[p].pc = job[p].pc /\ job'[p].budget = job[p].budget
                           /\ job'[p].runnable = job[p].runnable /\ job'[p].pass = job[p].pass
                           /\ job'[p].camp = job[p].camp /\ job'[p].todo = job[p].todo
                           /\ job'[p].cur = job[p].cur /\ job'[p].result = job[p].result
                           /\ job'[p].stop = job[p].stop
    <3>1. CASE Tick
      BY <3>1, TickFields
    <3>2. CASE ~Tick
      <4>1. job' = job
        BY <1>3, <2>1, <3>2 DEF Next, vars, People, Create, Pause, Resume, Cancel, StartNow,
           Reschedule, Elapse, Move, Block, OptOut, NewMinute, NewDay
      <4> QED
        BY <4>1
    <3> QED
      BY <3>1, <3>2
  <2>4. \A p \in Runners : Passing(job'[p])
    BY <1>1, <2>3 DEF Passing, InHand
  <2>5. ASSUME NEW c \in Campaigns
        PROVE  /\ after'[c] \in Nat
               /\ after'[c] + Cardinality(Spots(AllLeft(c)', Runners)) <= Cardinality(Runners) * Pace
    <3>1. AllLeft(c)' = AllLeft(c)
      <4>1. \A p \in Runners : Left(job'[p], c) = Left(job[p], c)
        BY <2>3 DEF Left, Given, InHand
      <4> QED
        BY <4>1 DEF AllLeft
    <3>2. Cardinality(Accepted(c)) = 0
      <4>1. Accepted(c) = {}
        BY <2>2 DEF Accepted, IInv, TypeOK
      <4> QED
        BY <4>1, FS_EmptySet, Zenon
    <3>3. after[c] \in Nat /\ after[c] + Cardinality(Spots(AllLeft(c), Runners)) <= Cardinality(Runners) * Pace
      BY DEF Soon
    <3>4. after'[c] \in {after[c], 0}
      BY <3>2, <3>3 DEF MCNext
    <3>5. Cardinality(Spots(AllLeft(c), Runners)) \in Nat /\ Cardinality(Runners) * Pace \in Nat
      <4>1. \A q \in Runners : Left(job[q], c) \in Nat
        BY LeftType DEF Budgeted
      <4>2. AllLeft(c) \in [Runners -> Nat]
        BY <4>1 DEF AllLeft
      <4> QED
        BY <4>2, ConstantsAssumption, FS_CardinalityType, SpotsFinite
    <3> DEFINE most == Cardinality(Runners) * Pace
               places == Cardinality(Spots(AllLeft(c), Runners))
    <3> HIDE DEF most, places
    <3>6. after'[c] \in Nat /\ after'[c] + places <= most
      BY <3>3, <3>4, <3>5 DEF most, places
    <3> QED
      BY <3>1, <3>6, Zenon DEF most, places
  <2> QED
    BY <2>4, <2>5 DEF Soon
<1>4. CASE UNCHANGED <<scene, after, vars>>
  <2>1. after' = after /\ job' = job
    BY <1>4 DEF vars
  <2>2. \A c : AllLeft(c)' = AllLeft(c)
    BY <2>1 DEF AllLeft
  <2> QED
    BY <2>1, <2>2 DEF Soon
<1> QED
  BY <1>2, <1>3, <1>4

\* A campaign that is paused or cancelled while runs have its recipients in hand
\* sends what is left of those runs' budgets and no more.
THEOREM StopsSoonAlways == MCSpec => []StopsSoon
<1>1. MCInit => Init
  BY DEF MCInit
<1>2. [MCNext]_<<scene, after, vars>> => [Next]_vars
  BY MCStep
<1>3. Soon /\ Budgeted => StopsSoon
  <2> SUFFICES ASSUME Soon, Budgeted, NEW c \in Campaigns PROVE after[c] <= Cardinality(Runners) * Pace
    BY DEF StopsSoon
  <2> DEFINE most == Cardinality(Runners) * Pace
             places == Cardinality(Spots(AllLeft(c), Runners))
  <2>1. \A q \in Runners : Left(job[q], c) \in Nat
    BY LeftType DEF Budgeted
  <2>2. AllLeft(c) \in [Runners -> Nat]
    BY <2>1 DEF AllLeft
  <2>3. places \in Nat /\ most \in Nat
    BY <2>2, ConstantsAssumption, FS_CardinalityType, SpotsFinite
  <2>4. after[c] \in Nat /\ after[c] + places <= most
    BY DEF Soon
  <2> HIDE DEF most, places
  <2>5. after[c] <= most
    BY <2>3, <2>4
  <2> QED
    BY <2>5 DEF most
<1> QED
  BY <1>1, <1>2, <1>3, SoonInit, SoonNext, BudgetedInit, BudgetedNext, InitInv, NextInv, PTL DEF MCSpec

-----------------------------------------------------------------------------
(* The streak: StopsItself.  Runs that do not overlap.                      *)

OneRun == \A p, q \in Runners : Running(p) /\ Running(q) => p = q

\* The rows as they will be once the claims of dead runs are given up.
Seen == [r \in Rows |-> IF Doubt(r) THEN "interrupted" ELSE row[r]]

\* The rows that end a streak, and the refused ones after the last of them.
Breaks == {"sent", "missing", "interrupted"}
Broken(v, c) == {a \in Addresses : v[<<c, a>>] \in Breaks}
Tail(v, c) == {a \in Addresses : v[<<c, a>>] = "refused" /\ \A b \in Broken(v, c) : b < a}

\* Rows are taken in their order: what ends a streak lies below what is to come, and
\* what is in flight below what is pending.
Ascending(v) ==
    \A c \in Campaigns : \A a, b \in Addresses :
        /\ v[<<c, a>>] \in Breaks /\ v[<<c, b>>] \in {"pending", "sending"} => a < b
        /\ v[<<c, a>>] = "sending" /\ v[<<c, b>>] = "pending" => a < b

\* A batch holds the first of what is pending.
Behind(j, v) ==
    InHand(j) => \A a \in j.todo, b \in Addresses \ j.todo :
                    v[<<j.camp, b>>] = "pending" => a < b

LEMMA SeenType ==
    ASSUME IInv
    PROVE  /\ Seen \in [Rows -> RowStatuses]
           /\ \A r \in Rows : Seen[r] = "sending" <=> \E p \in Runners : Holds(p) /\ job[p].cur = r
           /\ \A r \in Rows : Seen[r] = "interrupted" <=> Doubt(r)
           /\ \A r \in Rows : row[r] \notin {"sending", "interrupted"} => Seen[r] = row[r]
           /\ \A r \in Rows : Seen[r] \notin {"sending", "interrupted"} => Seen[r] = row[r]
BY HeldRow DEF Seen, Doubt, IInv, TypeOK, RowStatuses, Final

LEMMA SameSeen ==
    ASSUME row' = row,
           \A q \in Runners : (Holds(q)' <=> Holds(q)) /\ (Holds(q) => job'[q].cur = job[q].cur)
    PROVE  Seen' = Seen
<1>1. \A r \in Rows : Doubt(r)' <=> Doubt(r)
  BY DEF Doubt
<1> QED
  BY <1>1 DEF Seen

\* A run is done with a row, or dies with it.
LEMMA EndSeen ==
    ASSUME IInv, NEW p \in Runners, Holds(p), ~Holds(p)',
           \A q \in Runners \ {p} : job'[q] = job[q],
           NEW s \in {"pending", "skipped", "missing", "sent", "refused", "sending"},
           row' = [row EXCEPT ![job[p].cur] = s]
    PROVE  Seen' = [Seen EXCEPT ![job[p].cur] = IF s = "sending" THEN "interrupted" ELSE s]
<1> DEFINE t == IF s = "sending" THEN "interrupted" ELSE s
<1>1. PICK x \in Rows : /\ x = job[p].cur /\ row'[x] = s
                       /\ \A r \in Rows \ {x} : row'[r] = row[r]
  BY HeldRow DEF IInv, TypeOK
<1>2. \A q \in Runners : Holds(q)' <=> q # p /\ Holds(q)
  BY DEF Holds
<1>3. \A q \in Runners \ {p} : Holds(q) => job[q].cur # x
  BY <1>1, HeldRow
<1>4. ASSUME NEW r \in Rows \ {x} PROVE Doubt(r)' <=> Doubt(r)
  BY <1>1, <1>2, <1>3 DEF Doubt
<1>5. Doubt(x)' <=> s = "sending"
  BY <1>1, <1>2, <1>3 DEF Doubt
<1>6. \A r \in Rows : Seen'[r] = IF r = x THEN t ELSE Seen[r]
  BY <1>1, <1>4, <1>5 DEF Seen
<1>7. Seen' = [r \in Rows |-> IF r = x THEN t ELSE Seen[r]]
  BY <1>6 DEF Seen
<1> QED
  BY <1>1, <1>7 DEF Seen

LEMMA ClaimSeen ==
    ASSUME IInv, NEW p \in Runners, NEW a \in Addresses, Claim(p, a)
    PROVE  \/ /\ Claimable(<<job[p].camp, a>>) /\ <<job[p].camp, a>> \in Rows
              /\ Seen[<<job[p].camp, a>>] = "pending"
              /\ Seen' = [Seen EXCEPT ![<<job[p].camp, a>>] = "sending"]
           \/ ~Claimable(<<job[p].camp, a>>) /\ Seen' = Seen
<1>1. PICK x \in Rows : /\ x = <<job[p].camp, a>> /\ ~Holds(p)
                       /\ \A q \in Runners \ {p} : job'[q] = job[q]
  <2>1. job[p].pc = "batch" /\ \A q \in Runners \ {p} : job'[q] = job[q]
    BY ClaimFields
  <2>2. ~Holds(p)
    BY <2>1 DEF Holds
  <2>3. job[p].camp \in Campaigns
    BY <2>1 DEF IInv, TypeOK, Jobs
  <2>4. <<job[p].camp, a>> \in Rows
    BY <2>3 DEF Rows
  <2> QED
    BY <2>1, <2>2, <2>4
<1>2. CASE Claimable(x)
  <2>1. row[x] = "pending" /\ row'[x] = "sending" /\ \A r \in Rows \ {x} : row'[r] = row[r]
    BY <1>1, <1>2 DEF Claim, Claimable, IInv, TypeOK
  <2>6. job'[p].cur = x /\ Holds(p)'
    BY <1>1, <1>2, ClaimFields DEF Holds
  <2>2. \A q \in Runners : Holds(q)' <=> q = p \/ Holds(q)
    BY <1>1, <2>6 DEF Holds
  <2>3. ASSUME NEW r \in Rows \ {x} PROVE Doubt(r)' <=> Doubt(r)
    BY <1>1, <2>1, <2>2, <2>6 DEF Doubt
  <2>4. ~Doubt(x)' /\ ~Doubt(x)
    BY <2>1, <2>6 DEF Doubt
  <2>5. Seen' = [r \in Rows |-> IF r = x THEN "sending" ELSE Seen[r]]
    BY <2>1, <2>3, <2>4 DEF Seen
  <2>7. Seen[x] = "pending"
    BY <1>1, <2>1, <2>4 DEF Seen
  <2> QED
    BY <1>1, <1>2, <2>5, <2>7 DEF Seen
<1>3. CASE ~Claimable(x)
  <2>1. row' = row
    BY <1>1, <1>3 DEF Claim
  <2>2. job'[p].pc = "batch"
    BY <1>1, <1>3, ClaimFields
  <2>3. \A q \in Runners : (Holds(q)' <=> Holds(q)) /\ (Holds(q) => job'[q].cur = job[q].cur)
    BY <1>1, <2>2 DEF Holds
  <2> QED
    BY <1>1, <1>3, <2>1, <2>3, SameSeen
<1> QED
  BY <1>2, <1>3

LEMMA BeginSeen ==
    ASSUME IInv, NEW p \in Runners, Begin(p)
    PROVE  Seen' = Seen
<1>1. \A q \in Runners : (Holds(q)' <=> Holds(q)) /\ (Holds(q) => job'[q].cur = job[q].cur)
  BY BeginFields DEF Holds
<1>2. \A r \in Rows : row'[r] = IF Stale(r) THEN "interrupted" ELSE row[r]
  BY DEF Begin
<1>3. ASSUME NEW r \in Rows, Stale(r) PROVE Doubt(r)
  BY <1>3, NotStale DEF Stale, Doubt
<1>4. \A r \in Rows : Doubt(r)' <=> Doubt(r)
  BY <1>1, <1>2, <1>3 DEF Doubt
<1>5. \A r \in Rows : ~Doubt(r) => row'[r] = row[r]
  BY <1>2, <1>3
<1> QED
  BY <1>4, <1>5 DEF Seen

\* The rows of a new campaign.
LEMMA CreateSeen ==
    ASSUME IInv, NEW c \in Campaigns, NEW status, Create(c, status)
    PROVE  /\ \A r \in Rows : r[1] # c => Seen'[r] = Seen[r]
           /\ \A r \in Rows : r[1] = c => Seen[r] = "none" /\ Seen'[r] \in {"skipped", "pending"}
<1>1. \A r \in Rows : row'[r] = IF r[1] # c THEN row[r]
                              ELSE IF r[2] \in declined THEN "skipped" ELSE "pending"
  BY DEF Create
<1>2. \A r \in Rows : r[1] = c => row[r] = "none"
  BY DEF Create, IInv, NoRows
<1>3. job' = job
  BY DEF Create
<1>4. \A r \in Rows : /\ r[1] # c => (Doubt(r)' <=> Doubt(r))
                      /\ r[1] = c => ~Doubt(r) /\ ~Doubt(r)'
  BY <1>1, <1>2, <1>3 DEF Doubt, Holds
<1> QED
  BY <1>1, <1>2, <1>4 DEF Seen

\* The last n of a set of naturals: n, if there are as many, and all of them in any
\* end of the set that has as many.
LEMMA HighestEnd ==
    ASSUME NEW D \in SUBSET Nat, IsFiniteSet(D), NEW T \in SUBSET D, NEW n \in Nat \ {0},
           Cardinality(T) >= n, \A x \in D \ T, t \in T : x < t
    PROVE  Highest(D, n) \subseteq T /\ Cardinality(Highest(D, n)) = n
<1> DEFINE H == Highest(D, n)
           above(x) == {b \in D : b > x}
<1>1. \A x : IsFiniteSet(above(x)) /\ Cardinality(above(x)) \in Nat
  <2> SUFFICES ASSUME NEW x PROVE IsFiniteSet(above(x)) /\ Cardinality(above(x)) \in Nat
    OBVIOUS
  <2>1. above(x) \subseteq D
    OBVIOUS
  <2> HIDE DEF above
  <2> QED
    BY <2>1, FS_Subset, FS_CardinalityType
<1>2. \A x : x \in H <=> x \in D /\ Cardinality(above(x)) < n
  BY DEF Highest
<1>3. \A x, y : y \in above(x) <=> y \in D /\ y > x
  OBVIOUS
<1> HIDE DEF H, above
<1>4. IsFiniteSet(H) /\ Cardinality(H) \in Nat /\ H \subseteq D
  BY <1>2, FS_Subset, FS_CardinalityType
<1>5. IsFiniteSet(T) /\ Cardinality(T) \in Nat
  BY FS_Subset, FS_CardinalityType
<1>6. H \subseteq T
  <2> SUFFICES ASSUME NEW x \in H, x \notin T PROVE FALSE
    OBVIOUS
  <2>1. \A t \in T : t > x
    BY <1>4
  <2>2. T \subseteq above(x)
    BY <1>3, <2>1
  <2>3. Cardinality(T) <= Cardinality(above(x))
    BY <1>1, <2>2, FS_Subset
  <2> QED
    BY <1>1, <1>2, <1>5, <2>3
<1>7. Cardinality(H) <= n
  <2>1. CASE H = {}
    BY <2>1, FS_EmptySet
  <2>2. CASE H # {}
    <3>1. PICK a \in H : \A b \in H : a <= b
      BY <1>4, <2>2, Least
    <3>2. a \in Nat /\ a \notin above(a)
      BY <1>3, <1>4
    <3>3. ASSUME NEW b \in H PROVE b = a \/ b \in above(a)
      <4>1. b \in D /\ b \in Nat /\ a <= b
        BY <1>4, <3>1
      <4> QED
        BY <1>3, <3>2, <4>1
    <3>4. H \subseteq above(a) \cup {a}
      BY <3>3
    <3>5. /\ IsFiniteSet(above(a) \cup {a})
          /\ Cardinality(above(a) \cup {a}) = Cardinality(above(a)) + 1
      BY <1>1, <3>2, FS_AddElement
    <3>6. Cardinality(H) <= Cardinality(above(a) \cup {a})
      BY <3>4, <3>5, FS_Subset
    <3>7. Cardinality(above(a)) < n
      BY <1>2
    <3> QED
      BY <1>1, <1>4, <3>5, <3>6, <3>7
  <2> QED
    BY <2>1, <2>2
<1>8. Cardinality(H) >= n
  <2>1. CASE D \ H = {}
    <3>1. T \subseteq H
      BY <2>1
    <3>2. Cardinality(T) <= Cardinality(H)
      BY <1>4, <3>1, FS_Subset
    <3> QED
      BY <1>4, <1>5, <3>2
  <2>2. CASE D \ H # {}
    <3>1. D \ H \in SUBSET Int /\ IsFiniteSet(D \ H)
      <4>1. IsFiniteSet(D \ H)
        BY FS_Subset
      <4>2. ASSUME NEW x \in D \ H PROVE x \in Int
        <5>1. x \in Nat
          OBVIOUS
        <5> QED
          BY <5>1
      <4> QED
        BY <4>1, <4>2
    <3>2. PICK g \in D \ H : \A b \in D \ H : b <= g
      BY <2>2, <3>1, Greatest
    <3>3. ASSUME NEW b \in above(g) PROVE b \in H
      <4>1. b \in D /\ b > g /\ b \in Nat /\ g \in Nat
        BY <1>3
      <4> QED
        BY <3>2, <4>1
    <3>4. Cardinality(above(g)) <= Cardinality(H)
      BY <1>4, <3>3, FS_Subset
    <3>5. ~(Cardinality(above(g)) < n)
      BY <1>2
    <3> QED
      BY <1>1, <1>4, <3>4, <3>5
  <2> QED
    BY <2>1, <2>2
<1>9. Cardinality(H) = n
  BY <1>4, <1>7, <1>8
<1> QED
  BY <1>6, <1>9 DEF H

\* The first of a set lie below the others.
LEMMA LowestFirst ==
    ASSUME NEW S \in SUBSET Int, IsFiniteSet(S), NEW n \in Int,
           NEW a \in Lowest(S, n), NEW b \in S \ Lowest(S, n)
    PROVE  a < b
<1> DEFINE below(x) == {y \in S : y < x}
<1>1. IsFiniteSet(below(a)) /\ IsFiniteSet(below(b))
      /\ Cardinality(below(a)) \in Nat /\ Cardinality(below(b)) \in Nat
  <2>1. below(a) \subseteq S /\ below(b) \subseteq S
    OBVIOUS
  <2> HIDE DEF below
  <2> QED
    BY <2>1, FS_Subset, FS_CardinalityType
<1>2. a \in S /\ Cardinality(below(a)) < n /\ ~(Cardinality(below(b)) < n)
  BY DEF Lowest
<1>3. a \in Int /\ b \in Int
  BY <1>2
<1>4. ASSUME ~(a < b) PROVE below(b) \subseteq below(a)
  <2> SUFFICES ASSUME NEW y \in S, y < b PROVE y < a
    OBVIOUS
  <2> QED
    BY <1>3, <1>4
<1> HIDE DEF below
<1>5. ASSUME ~(a < b) PROVE Cardinality(below(b)) <= Cardinality(below(a))
  BY <1>1, <1>4, <1>5, FS_Subset
<1> QED
  BY <1>1, <1>2, <1>5

\* A tail as long as the streak pauses the campaign.
LEMMA TailTrips ==
    ASSUME IInv, NEW p \in Runners, job[p].camp \in Campaigns, ~Tripped(p)
    PROVE  Cardinality(Tail(Seen, job[p].camp)) < Streak
<1>1. PICK c \in Campaigns : c = job[p].camp
  OBVIOUS
<1> DEFINE D == {a \in Addresses : row[<<c, a>>] \in {"sent", "refused", "missing", "interrupted"}}
           T == Tail(Seen, c)
<1>2. IsFiniteSet(D) /\ D \in SUBSET Nat /\ IsFiniteSet(T) /\ T \subseteq D
  <2>1. D \subseteq Addresses
    OBVIOUS
  <2>2. T \subseteq D
    BY SeenType DEF Tail, Rows
  <2> HIDE DEF D, T
  <2>3. Addresses \subseteq Nat /\ IsFiniteSet(Addresses)
    BY ConstantsAssumption, Zenon
  <2> QED
    BY <2>1, <2>2, <2>3, FS_Subset
<1>3. ASSUME NEW x \in D \ T, NEW t \in T PROVE x < t
  <2>1. x \in Nat /\ t \in Nat /\ x \in Addresses
    BY <1>2
  <2>2. \A b \in Broken(Seen, c) : b < t
    BY DEF Tail
  <2>3. CASE x \in Broken(Seen, c)
    BY <2>2, <2>3
  <2>4. CASE x \notin Broken(Seen, c)
    <3>1. Seen[<<c, x>>] = "refused"
      BY <2>1, <2>4, SeenType DEF Broken, Breaks, Rows, Doubt
    <3>2. PICK y \in Broken(Seen, c) : ~(y < x)
      BY <2>1, <3>1 DEF Tail
    <3>3. y \in Nat
      BY ConstantsAssumption DEF Broken
    <3> QED
      BY <2>1, <2>2, <3>2, <3>3
  <2> QED
    BY <2>3, <2>4
<1>4. ASSUME Cardinality(T) >= Streak PROVE FALSE
  <2>1. Highest(D, Streak) \subseteq T /\ Cardinality(Highest(D, Streak)) = Streak
    <3>1. Streak \in Nat \ {0}
      BY ConstantsAssumption
    <3> HIDE DEF D, T
    <3> QED
      BY <1>2, <1>3, <1>4, <3>1, HighestEnd
  <2>2. \A a \in T : row[<<c, a>>] = "refused"
    BY SeenType DEF Tail, Rows
  <2>3. \A a \in Highest(D, Streak) : row[<<c, a>>] = "refused"
    BY <2>1, <2>2
  <2> QED
    BY <1>1, <2>1, <2>3 DEF Tripped
<1>5. Cardinality(T) \in Nat /\ Streak \in Nat
  BY <1>2, ConstantsAssumption, FS_CardinalityType
<1> HIDE DEF T
<1>6. Cardinality(T) < Streak
  BY <1>4, <1>5
<1> QED
  BY <1>1, <1>6 DEF T

\* One row takes another status.
LEMMA Put ==
    ASSUME NEW v \in [Rows -> RowStatuses], NEW d \in Campaigns, NEW a \in Addresses,
           NEW s \in RowStatuses
    PROVE  /\ [v EXCEPT ![<<d, a>>] = s] \in [Rows -> RowStatuses]
           /\ [v EXCEPT ![<<d, a>>] = s][<<d, a>>] = s
           /\ \A c \in Campaigns, b \in Addresses :
                 c # d \/ b # a => [v EXCEPT ![<<d, a>>] = s][<<c, b>>] = v[<<c, b>>]
BY DEF Rows

\* A refusal of a row that was still open lengthens the tail of its campaign.
LEMMA NewTail ==
    ASSUME NEW v \in [Rows -> RowStatuses], NEW d \in Campaigns, NEW a \in Addresses,
           v[<<d, a>>] \in {"pending", "sending"}, \A b \in Broken(v, d) : b < a
    PROVE  /\ Tail([v EXCEPT ![<<d, a>>] = "refused"], d) = Tail(v, d) \cup {a}
           /\ a \notin Tail(v, d)
<1> DEFINE w == [v EXCEPT ![<<d, a>>] = "refused"]
<1>0. "refused" \in RowStatuses
  BY DEF RowStatuses, Final
<1>1. /\ w[<<d, a>>] = "refused"
      /\ \A b \in Addresses : b # a => w[<<d, b>>] = v[<<d, b>>]
  BY <1>0, Put
<1> HIDE DEF w
<1>2. Broken(w, d) = Broken(v, d)
  BY <1>1 DEF Broken, Breaks
<1>3. \A b \in Addresses : w[<<d, b>>] = "refused" <=> b = a \/ v[<<d, b>>] = "refused"
  BY <1>1
<1>4. Tail(w, d) = Tail(v, d) \cup {a} /\ a \notin Tail(v, d)
  BY <1>2, <1>3 DEF Tail
<1> QED
  BY <1>4 DEF w

\* The one row in flight ends: it lay above what ends a streak, below what is pending.
LEMMA AscendingEnd ==
    ASSUME NEW v \in [Rows -> RowStatuses], Ascending(v),
           NEW d \in Campaigns, NEW a \in Addresses, v[<<d, a>>] = "sending",
           NEW s \in RowStatuses \ {"sending"},
           \A b \in Addresses : v[<<d, b>>] = "sending" => b = a
    PROVE  Ascending([v EXCEPT ![<<d, a>>] = s])
<1> DEFINE w == [v EXCEPT ![<<d, a>>] = s]
<1>1. /\ w[<<d, a>>] = s
      /\ \A c \in Campaigns, b \in Addresses : c # d \/ b # a => w[<<c, b>>] = v[<<c, b>>]
  BY Put
<1> HIDE DEF w
<1>2. ASSUME NEW c \in Campaigns, NEW x \in Addresses, NEW y \in Addresses,
             w[<<c, x>>] \in Breaks, w[<<c, y>>] \in {"pending", "sending"}
      PROVE  x < y
  <2>1. \A b \in Addresses : v[<<d, b>>] \in Breaks => b < a
    BY DEF Ascending
  <2>2. CASE c = d /\ x = a
    <3>1. s \in Breaks /\ y # a
      BY <1>1, <1>2, <2>2 DEF Breaks
    <3>2. CASE v[<<c, y>>] = "pending"
      BY <2>2, <3>2 DEF Ascending
    <3>3. CASE v[<<c, y>>] = "sending"
      BY <1>1, <1>2, <2>2, <3>1, <3>3 DEF Ascending
    <3> QED
      BY <1>1, <1>2, <2>2, <3>1, <3>2, <3>3
  <2>3. CASE c = d /\ y = a /\ x # a
    BY <1>1, <1>2, <2>1, <2>3
  <2>4. CASE c # d \/ (x # a /\ y # a)
    BY <1>1, <1>2, <2>4 DEF Ascending
  <2> QED
    BY <2>2, <2>3, <2>4
<1>3. ASSUME NEW c \in Campaigns, NEW x \in Addresses, NEW y \in Addresses,
             w[<<c, x>>] = "sending", w[<<c, y>>] = "pending"
      PROVE  x < y
  <2>1. c # d \/ x # a
    BY <1>1, <1>3
  <2>2. c # d \/ y # a
    BY <1>1, <1>3, <2>1
  <2> QED
    BY <1>1, <1>3, <2>1, <2>2 DEF Ascending
<1> QED
  BY <1>2, <1>3 DEF w, Ascending

\* The first pending row of its campaign is taken.
LEMMA AscendingClaim ==
    ASSUME NEW v \in [Rows -> RowStatuses], Ascending(v),
           NEW d \in Campaigns, NEW a \in Addresses, v[<<d, a>>] = "pending",
           \A b \in Addresses : v[<<d, b>>] = "pending" => b = a \/ a < b
    PROVE  Ascending([v EXCEPT ![<<d, a>>] = "sending"])
<1> DEFINE w == [v EXCEPT ![<<d, a>>] = "sending"]
<1>1. /\ w[<<d, a>>] = "sending"
      /\ \A c \in Campaigns, b \in Addresses : c # d \/ b # a => w[<<c, b>>] = v[<<c, b>>]
  BY Put DEF RowStatuses
<1> HIDE DEF w
<1>2. ASSUME NEW c \in Campaigns, NEW x \in Addresses, NEW y \in Addresses,
             w[<<c, x>>] \in Breaks, w[<<c, y>>] \in {"pending", "sending"}
      PROVE  x < y
  <2>1. c # d \/ x # a
    BY <1>1, <1>2 DEF Breaks
  <2>2. v[<<c, x>>] \in Breaks /\ v[<<c, y>>] \in {"pending", "sending"}
    BY <1>1, <1>2, <2>1
  <2> QED
    BY <2>2 DEF Ascending
<1>3. ASSUME NEW c \in Campaigns, NEW x \in Addresses, NEW y \in Addresses,
             w[<<c, x>>] = "sending", w[<<c, y>>] = "pending"
      PROVE  x < y
  <2>1. v[<<c, y>>] = "pending" /\ (c # d \/ y # a)
    BY <1>1, <1>3
  <2>2. CASE c = d /\ x = a
    BY <2>1, <2>2
  <2>3. CASE c # d \/ x # a
    BY <1>1, <1>3, <2>1, <2>3 DEF Ascending
  <2> QED
    BY <2>2, <2>3
<1> QED
  BY <1>2, <1>3 DEF w, Ascending

-----------------------------------------------------------------------------
(* The order of the rows, while runs do not overlap.                        *)

Orderly ==
    /\ Ascending(Seen)
    /\ \A p \in Runners : Behind(job[p], Seen)

\* Of the runs only one has anything in hand.
LEMMA Alone ==
    ASSUME OneRun, NEW p \in Runners, Running(p), NEW q \in Runners \ {p}
    PROVE  ~Running(q) /\ ~InHand(job[q]) /\ ~Holds(q)
BY DEF OneRun, Running, InHand, Holds

\* A step of a run that moves no row, and takes up no batch.
LEMMA StillOrderly ==
    ASSUME Orderly, Seen' = Seen, NEW p \in Runners, \A q \in Runners \ {p} : job'[q] = job[q],
           InHand(job'[p]) => /\ InHand(job[p]) /\ job'[p].camp = job[p].camp
                              /\ job'[p].todo = job[p].todo \/ job'[p].todo = {}
    PROVE  Orderly'
<1>1. \A q \in Runners : Behind(job'[q], Seen)
  BY DEF Orderly, Behind
<1> QED
  BY <1>1 DEF Orderly

\* The one row a run has in flight ends.
LEMMA EndOrderly ==
    ASSUME IInv, Orderly, OneRun, NEW p \in Runners, Holds(p), job[p].cur[1] = job[p].camp,
           \A q \in Runners \ {p} : job'[q] = job[q],
           NEW s \in RowStatuses \ {"sending"}, Seen' = [Seen EXCEPT ![job[p].cur] = s],
           InHand(job'[p]) => /\ job'[p].camp = job[p].camp
                              /\ job'[p].todo = {} \/ (s # "pending" /\ job'[p].todo = job[p].todo)
    PROVE  Orderly'
<1>1. PICK d \in Campaigns, a \in Addresses : job[p].cur = <<d, a>>
  BY HeldRow DEF Rows
<1>2. InHand(job[p]) /\ Running(p) /\ job[p].camp = d
  BY <1>1 DEF Holds, InHand, Running
<1>3. /\ Seen \in [Rows -> RowStatuses] /\ Seen[<<d, a>>] = "sending"
      /\ \A b \in Addresses : Seen[<<d, b>>] = "sending" => b = a
  <2>1. \A q \in Runners : Holds(q) => q = p
    BY <1>2, Alone
  <2>2. \A b \in Addresses : <<d, b>> \in Rows
    BY DEF Rows
  <2> QED
    BY <1>1, <2>1, <2>2, SeenType
<1>4. Ascending(Seen')
  BY <1>1, <1>3, AscendingEnd DEF Orderly
<1>5. Behind(job'[p], Seen')
  <2> SUFFICES ASSUME InHand(job'[p]), NEW x \in job'[p].todo, NEW y \in Addresses \ job'[p].todo,
                      Seen'[<<d, y>>] = "pending"
               PROVE  x < y
    BY <1>2 DEF Behind
  <2>1. s # "pending" /\ job'[p].todo = job[p].todo
    OBVIOUS
  <2>2. Seen[<<d, y>>] = "pending"
    BY <1>1, <1>3, <2>1, Put
  <2> QED
    BY <1>2, <2>1, <2>2 DEF Orderly, Behind
<1>6. \A q \in Runners \ {p} : Behind(job'[q], Seen')
  BY <1>2, Alone DEF Behind
<1> QED
  BY <1>4, <1>5, <1>6 DEF Orderly

LEMMA ClaimOrderly ==
    ASSUME IInv, Orderly, OneRun, NEW p \in Runners, NEW a \in Addresses, Claim(p, a)
    PROVE  Orderly'
<1>1. /\ \A q \in Runners \ {p} : job'[q] = job[q]
      /\ InHand(job[p]) /\ Running(p) /\ job'[p].camp = job[p].camp
      /\ a \in job[p].todo /\ (\A b \in job[p].todo : a <= b)
      /\ job'[p].todo = job[p].todo \ {a}
  BY ClaimFields DEF InHand, Running
<1>2. PICK d \in Campaigns : d = job[p].camp
  BY <1>1 DEF IInv, TypeOK, Jobs, InHand
<1>3. Seen \in [Rows -> RowStatuses] /\ job[p].todo \subseteq Addresses /\ Addresses \subseteq Nat
      /\ "sending" \in RowStatuses
  BY SeenType, TodoTypes, ConstantsAssumption DEF RowStatuses
<1>4. \A x \in job[p].todo, y \in Addresses \ job[p].todo : Seen[<<d, y>>] = "pending" => x < y
  BY <1>1, <1>2 DEF Orderly, Behind
<1>5. \A q \in Runners \ {p} : Behind(job'[q], Seen')
  BY <1>1, Alone DEF Behind
<1>6. CASE Seen[<<d, a>>] = "pending" /\ Seen' = [Seen EXCEPT ![<<d, a>>] = "sending"]
  <2>1. ASSUME NEW b \in Addresses, Seen[<<d, b>>] = "pending", b # a PROVE a < b
    <3>1. CASE b \in job[p].todo
      <4>1. a <= b /\ a \in Nat /\ b \in Nat
        BY <1>1, <1>3, <3>1
      <4> QED
        BY <2>1, <4>1
    <3>2. CASE b \notin job[p].todo
      BY <1>1, <1>4, <2>1, <3>2
    <3> QED
      BY <3>1, <3>2
  <2>2. Ascending(Seen')
    BY <1>3, <1>6, <2>1, AscendingClaim DEF Orderly
  <2>3. \A y \in Addresses : Seen'[<<d, y>>] = "pending" => y # a /\ Seen[<<d, y>>] = "pending"
    BY <1>3, <1>6, Put
  <2>4. Behind(job'[p], Seen')
    BY <1>1, <1>2, <1>4, <2>3 DEF Behind
  <2> QED
    BY <1>5, <2>2, <2>4 DEF Orderly
<1>7. CASE Seen[<<d, a>>] # "pending" /\ Seen' = Seen
  <2>1. Behind(job'[p], Seen)
    BY <1>1, <1>2, <1>4, <1>7 DEF Behind
  <2> QED
    BY <1>5, <1>7, <2>1 DEF Orderly
<1>8. CASE ~Claimable(<<d, a>>)
  <2>1. row[<<d, a>>] # "pending" /\ <<d, a>> \in Rows
    BY <1>8 DEF Claimable, Rows
  <2>2. Seen[<<d, a>>] # "pending"
    BY <2>1, SeenType
  <2> QED
    BY <1>2, <1>7, <1>8, <2>2, ClaimSeen
<1> QED
  BY <1>2, <1>6, <1>8, ClaimSeen

\* What the steps of a run make of the rows.
LEMMA StillSeen ==
    ASSUME IInv, NEW p \in Runners,
           \/ Begin(p) \/ Plan(p) \/ (\E c \in Campaigns : Pick(p, c)) \/ NextPass(p)
           \/ (\E result \in Results : Relay(p, result))
           \/ BatchEnd(p) \/ End(p) \/ SoftLimitSwallowed(p)
    PROVE  Seen' = Seen
<1>1. CASE Begin(p)
  BY <1>1, BeginSeen
<1>2. CASE ~Begin(p)
  <2>1. row' = row
    <3>1. CASE Plan(p) \/ (\E c \in Campaigns : Pick(p, c)) \/ NextPass(p) \/ BatchEnd(p)
      BY <3>1 DEF Plan, Pick, NextPass, BatchEnd
    <3>2. CASE \E result \in Results : Relay(p, result)
      BY <3>2 DEF Relay
    <3>3. CASE End(p) \/ SoftLimitSwallowed(p)
      BY <3>3 DEF End, SoftLimitSwallowed
    <3> QED
      BY <1>2, <3>1, <3>2, <3>3
  <2>2. \A q \in Runners \ {p} : job'[q] = job[q]
    <3>1. CASE Plan(p) \/ (\E c \in Campaigns : Pick(p, c)) \/ NextPass(p) \/ BatchEnd(p)
      BY <3>1, PlanFields, PickFields, NextPassFields, BatchEndFields
    <3>2. CASE \E result \in Results : Relay(p, result)
      BY <3>2, RelayFields
    <3>3. CASE End(p) \/ SoftLimitSwallowed(p)
      BY <3>3, GoneFields, SwallowedFields
    <3> QED
      BY <1>2, <3>1, <3>2, <3>3
  <2>3. (Holds(p)' <=> Holds(p)) /\ (Holds(p) => job'[p].cur = job[p].cur)
    <3>1. CASE Plan(p) \/ (\E c \in Campaigns : Pick(p, c)) \/ NextPass(p) \/ BatchEnd(p)
      BY <3>1, PlanFields, PickFields, NextPassFields, BatchEndFields DEF Holds
    <3>2. CASE \E result \in Results : Relay(p, result)
      BY <3>2, RelayFields DEF Holds
    <3>3. CASE End(p)
      BY <3>3, GoneFields DEF Holds, End
    <3>4. CASE SoftLimitSwallowed(p)
      BY <3>4, SwallowedFields DEF Holds
    <3> QED
      BY <1>2, <3>1, <3>2, <3>3, <3>4
  <2>4. \A q \in Runners : (Holds(q)' <=> Holds(q)) /\ (Holds(q) => job'[q].cur = job[q].cur)
    BY <2>2, <2>3 DEF Holds
  <2> QED
    BY <2>1, <2>4, SameSeen
<1> QED
  BY <1>1, <1>2

LEMMA CutSeen ==
    ASSUME IInv, NEW p \in Runners, SoftLimit(p) \/ Kill(p)
    PROVE  IF Holds(p) THEN Seen' = [Seen EXCEPT ![job[p].cur] = "interrupted"] ELSE Seen' = Seen
<1>1. /\ row' = row /\ ~Holds(p)' /\ \A q \in Runners \ {p} : job'[q] = job[q]
  BY GoneFields DEF SoftLimit, Kill, Holds
<1>2. CASE Holds(p)
  <2>1. row' = [row EXCEPT ![job[p].cur] = "sending"]
    BY <1>1, <1>2, HeldRow DEF IInv, TypeOK
  <2> QED
    BY <1>1, <1>2, <2>1, EndSeen
<1>3. CASE ~Holds(p)
  <2>1. \A q \in Runners : (Holds(q)' <=> Holds(q)) /\ (Holds(q) => job'[q].cur = job[q].cur)
    BY <1>1, <1>3 DEF Holds
  <2> QED
    BY <1>1, <1>3, <2>1, SameSeen
<1> QED
  BY <1>2, <1>3

LEMMA ComposeSeen ==
    ASSUME IInv, NEW p \in Runners, Compose(p)
    PROVE  \/ job'[p].pc = "sending" /\ Seen' = Seen /\ row' = row
           \/ /\ job'[p].pc = "batch"
              /\ \E s \in {"skipped", "missing"} :
                    /\ row' = [row EXCEPT ![job[p].cur] = s]
                    /\ Seen' = [Seen EXCEPT ![job[p].cur] = s]
<1>1. Holds(p) /\ \A q \in Runners \ {p} : job'[q] = job[q]
  BY ComposeFields DEF Holds
<1>2. CASE job'[p].pc = "sending"
  <2>1. row' = row /\ job'[p].cur = job[p].cur
    BY <1>2, ComposeFields
  <2>2. \A q \in Runners : (Holds(q)' <=> Holds(q)) /\ (Holds(q) => job'[q].cur = job[q].cur)
    BY <1>1, <1>2, <2>1 DEF Holds
  <2> QED
    BY <1>2, <2>1, <2>2, SameSeen
<1>3. CASE job'[p].pc = "batch"
  <2>1. PICK s \in {"skipped", "missing"} : row' = [row EXCEPT ![job[p].cur] = s]
    BY <1>3, ComposeFields, HeldRow, <1>1 DEF Compose, IInv, TypeOK
  <2>2. ~Holds(p)'
    BY <1>3 DEF Holds
  <2>3. Seen' = [Seen EXCEPT ![job[p].cur] = s]
    BY <1>1, <2>1, <2>2, EndSeen
  <2> QED
    BY <1>3, <2>1, <2>3
<1> QED
  BY <1>2, <1>3, ComposeFields

LEMMA AnswerSeen ==
    ASSUME IInv, NEW p \in Runners, RecordAnswer(p)
    PROVE  /\ Holds(p) /\ row' = [row EXCEPT ![job[p].cur] = Mark(job[p].result)]
           /\ Seen' = [Seen EXCEPT ![job[p].cur] = Mark(job[p].result)]
<1>1. /\ Holds(p) /\ ~Holds(p)' /\ \A q \in Runners \ {p} : job'[q] = job[q]
  BY RecordAnswerFields DEF Holds
<1>2. row' = [row EXCEPT ![job[p].cur] = Mark(job[p].result)]
  BY DEF RecordAnswer
<1>3. Mark(job[p].result) \in {"sent", "refused"}
  BY DEF Mark
<1> QED
  BY <1>1, <1>2, <1>3, EndSeen

LEMMA FailureSeen ==
    ASSUME IInv, NEW p \in Runners, RecordFailure(p)
    PROVE  /\ Holds(p) /\ row' = [row EXCEPT ![job[p].cur] = "pending"]
           /\ Seen' = [Seen EXCEPT ![job[p].cur] = "pending"]
<1>1. /\ Holds(p) /\ ~Holds(p)' /\ \A q \in Runners \ {p} : job'[q] = job[q]
  BY RecordFailureFields DEF Holds
<1>2. row' = [row EXCEPT ![job[p].cur] = "pending"]
  BY <1>1, HeldRow DEF RecordFailure
<1> QED
  BY <1>1, <1>2, EndSeen

\* People, lists and clocks leave the runs what they hold.
LEMMA AroundJobs ==
    ASSUME IInv, [Next]_vars, ~\E p \in Runners : Run(p) \/ CutShort(p), NEW p \in Runners
    PROVE  /\ job'[p].pc = job[p].pc /\ job'[p].runnable = job[p].runnable
           /\ job'[p].pass = job[p].pass /\ job'[p].camp = job[p].camp
           /\ job'[p].todo = job[p].todo /\ job'[p].cur = job[p].cur
           /\ job'[p].result = job[p].result /\ job'[p].streak = job[p].streak
           /\ job'[p].stop = job[p].stop
<1>1. CASE Tick
  BY <1>1, TickFields
<1>2. CASE ~Tick
  <2>1. job' = job
    BY <1>2 DEF Next, vars, People, Create, Pause, Resume, Cancel, StartNow, Reschedule, Elapse,
       Move, Block, OptOut, NewMinute, NewDay
  <2> QED
    BY <2>1
<1> QED
  BY <1>1, <1>2

LEMMA AroundSeen ==
    ASSUME IInv, [Next]_vars, ~\E p \in Runners : Run(p) \/ CutShort(p),
           ~\E c \in Campaigns, status \in {"early", "sending"} : Create(c, status)
    PROVE  row' = row /\ Seen' = Seen
<1>1. row' = row
  BY DEF Next, vars, People, Pause, Resume, Cancel, StartNow, Reschedule, Elapse, Move, Block,
     OptOut, Tick, NewMinute, NewDay
<1>2. \A q \in Runners : (Holds(q)' <=> Holds(q)) /\ (Holds(q) => job'[q].cur = job[q].cur)
  BY AroundJobs DEF Holds
<1> QED
  BY <1>1, <1>2, SameSeen

\* A campaign a run is to send has started.
Unstarted == Scheduled \cup {"none"}
Known == \A p \in Runners : \A c \in job[p].runnable : camp[c] \notin Unstarted

\* The refusals of a batch that goes on are fewer than the streak.
Calm(j) ==
    /\ ~InHand(j) => j.streak = 0
    /\ InHand(j) /\ (j.todo # {} \/ j.pc # "batch") => j.streak < Streak

LEMMA CampKnown ==
    ASSUME IInv, [Next]_vars, NEW c \in Campaigns, camp[c] \notin Unstarted
    PROVE  camp'[c] \notin Unstarted
<1>1. CASE \E d \in Campaigns : People(d)
  BY <1>1 DEF People, Create, Pause, Resume, Cancel, StartNow, Reschedule, Elapse, Move, Block,
     IInv, TypeOK, Unstarted, Scheduled
<1>2. CASE \E p \in Runners : Begin(p) \/ Plan(p)
  BY <1>2 DEF Begin, Plan, IInv, TypeOK, Unstarted, Scheduled
<1>3. CASE \E p \in Runners : \E d \in Campaigns : Pick(p, d)
  BY <1>3 DEF Pick, Finished, IInv, TypeOK, Unstarted, Scheduled
<1>4. CASE \E p \in Runners : BatchEnd(p)
  BY <1>4 DEF BatchEnd, Finished, IInv, TypeOK, Unstarted, Scheduled
<1>5. CASE camp' = camp
  BY <1>5
<1> QED
  <2>1. ASSUME NEW p \in Runners, Run(p) \/ CutShort(p) PROVE camp'[c] \notin Unstarted
    <3>1. CASE \/ NextPass(p) \/ (\E a \in Addresses : Claim(p, a)) \/ Compose(p)
               \/ (\E result \in Results : Relay(p, result)) \/ RecordAnswer(p) \/ RecordFailure(p)
               \/ End(p) \/ CutShort(p)
      BY <1>5, <3>1 DEF CutShort, NextPass, Claim, Compose, Relay, RecordAnswer, RecordFailure,
         End, SoftLimit, SoftLimitSwallowed, Kill
    <3> QED
      BY <1>2, <1>3, <1>4, <2>1, <3>1 DEF Run, Sending
  <2>2. CASE UNCHANGED vars \/ (\E a \in Addresses : OptOut(a)) \/ Tick \/ NewMinute \/ NewDay
    BY <1>5, <2>2 DEF vars, OptOut, Tick, NewMinute, NewDay
  <2> QED
    BY <1>1, <2>1, <2>2 DEF Next

LEMMA RunnableKnown ==
    ASSUME IInv, NEW p \in Runners, Run(p) \/ CutShort(p)
    PROVE  /\ \A q \in Runners \ {p} : job'[q] = job[q]
           /\ \A c \in job'[p].runnable :
                 c \in job[p].runnable \/ (c \in Campaigns /\ camp[c] = "sending")
<1>1. CASE Begin(p)
  BY <1>1, BeginFields
<1>2. CASE Plan(p)
  BY <1>2, PlanFields
<1>3. CASE \E d \in Campaigns : Pick(p, d)
  BY <1>3, PickFields
<1>4. CASE NextPass(p)
  BY <1>4, NextPassFields
<1>5. CASE \E a \in Addresses : Claim(p, a)
  BY <1>5, ClaimFields
<1>6. CASE Compose(p)
  BY <1>6, ComposeFields
<1>7. CASE \E result \in Results : Relay(p, result)
  BY <1>7, RelayFields
<1>8. CASE RecordAnswer(p) \/ RecordFailure(p)
  BY <1>8, RecordAnswerFields, RecordFailureFields
<1>9. CASE BatchEnd(p)
  BY <1>9, BatchEndFields
<1>10. CASE End(p) \/ Kill(p) \/ SoftLimit(p)
  BY <1>10, GoneFields
<1>11. CASE SoftLimitSwallowed(p)
  BY <1>11, SwallowedFields
<1> QED
  BY <1>1, <1>2, <1>3, <1>4, <1>5, <1>6, <1>7, <1>8, <1>9, <1>10, <1>11 DEF Run, CutShort, Sending

LEMMA KnownNext ==
    ASSUME IInv, Known, [Next]_vars
    PROVE  Known'
<1> SUFFICES ASSUME NEW q \in Runners, NEW c \in job'[q].runnable PROVE camp'[c] \notin Unstarted
  BY DEF Known
<1>1. c \in job[q].runnable \/ (c \in Campaigns /\ camp[c] = "sending")
  <2>1. ASSUME NEW p \in Runners, Run(p) \/ CutShort(p) 
             PROVE  c \in job[q].runnable \/ (c \in Campaigns /\ camp[c] = "sending")
    BY <2>1, RunnableKnown
  <2>2. CASE ~\E p \in Runners : Run(p) \/ CutShort(p)
    BY <2>2, AroundJobs
  <2> QED
    BY <2>1, <2>2
<1>2. \A d \in job[q].runnable : d \in Campaigns
  BY DEF IInv, TypeOK, Jobs, Records
<1> QED
  BY <1>1, <1>2, CampKnown DEF Known, Unstarted, Scheduled

LEMMA CalmStep ==
    ASSUME IInv, NEW p \in Runners, Passing(job[p]), Calm(job[p]), Run(p) \/ CutShort(p)
    PROVE  Calm(job'[p])
<1>1. CASE Begin(p)
  BY <1>1, BeginFields DEF Calm, InHand
<1>2. CASE Plan(p)
  BY <1>2, PlanFields DEF Calm, InHand
<1>3. CASE \E d \in Campaigns : Pick(p, d)
  BY <1>3, PickFields, ConstantsAssumption DEF Calm, InHand
<1>4. CASE NextPass(p)
  BY <1>4, NextPassFields DEF Calm, InHand
<1>5. ASSUME NEW a \in Addresses, Claim(p, a) PROVE Calm(job'[p])
  <2>1. /\ job[p].pc = "batch" /\ a \in job[p].todo /\ job'[p].streak = job[p].streak
        /\ job'[p].pc \in {"batch", "claimed"}
    BY <1>5, ClaimFields
  <2> QED
    BY <2>1 DEF Calm, InHand
<1>6. CASE Compose(p)
  BY <1>6, ComposeFields DEF Calm, InHand
<1>7. CASE \E result \in Results : Relay(p, result)
  BY <1>7, RelayFields DEF Calm, InHand
<1>8. CASE RecordAnswer(p)
  <2>1. /\ job[p].pc = "record" /\ job'[p].pc = "batch"
        /\ job'[p].streak = IF job[p].result = "accepted" THEN 0 ELSE job[p].streak + 1
        /\ job'[p].streak >= Streak => job'[p].todo = {}
    BY <1>8, RecordAnswerFields
  <2>2. job[p].streak \in Nat /\ Streak \in Nat
    BY ConstantsAssumption DEF IInv, TypeOK, Jobs, Records
  <2> QED
    BY <2>1, <2>2 DEF Calm, InHand
<1>9. CASE RecordFailure(p)
  BY <1>9, RecordFailureFields DEF Calm, InHand
<1>10. CASE BatchEnd(p)
  BY <1>10, BatchEndFields DEF Calm, InHand
<1>11. CASE End(p) \/ Kill(p) \/ SoftLimit(p)
  BY <1>11, GoneFields DEF Calm, InHand
<1>12. CASE SoftLimitSwallowed(p)
  BY <1>12, SwallowedFields DEF Calm, InHand
<1> QED
  BY <1>1, <1>2, <1>3, <1>4, <1>5, <1>6, <1>7, <1>8, <1>9, <1>10, <1>11, <1>12
     DEF Run, CutShort, Sending

\* A run takes up the first of what is pending.
LEMMA PickOrderly ==
    ASSUME IInv, Orderly, NEW p \in Runners, NEW c \in Campaigns, Pick(p, c)
    PROVE  Orderly'
<1>1. Seen' = Seen
  BY StillSeen
<1>2. /\ \A q \in Runners \ {p} : job'[q] = job[q]
      /\ \/ job'[p].pc = "pick"
         \/ job'[p].camp = c /\ job'[p].todo = Lowest(Pending(c), Take(p))
  BY PickFields
<1>3. CASE job'[p].pc = "pick"
  BY <1>1, <1>2, <1>3, StillOrderly DEF InHand
<1>4. CASE job'[p].camp = c /\ job'[p].todo = Lowest(Pending(c), Take(p))
  <2> DEFINE open == Pending(c)
  <2>1. open \in SUBSET Int /\ IsFiniteSet(open) /\ Take(p) \in Int
    <3>1. open \subseteq Addresses
      BY DEF Pending
    <3>2. IsFiniteSet(Addresses) /\ \A a \in Addresses : a \in Nat
      BY ConstantsAssumption
    <3>3. \A a \in Addresses : a \in Int
      BY <3>2
    <3>4. Take(p) \in Int
      BY DEF Take, IInv, TypeOK, Jobs, Records
    <3> HIDE DEF open
    <3> QED
      BY <3>1, <3>2, <3>3, <3>4, FS_Subset
  <2>2. ASSUME NEW a \in Lowest(open, Take(p)), NEW b \in Addresses \ Lowest(open, Take(p)),
               Seen[<<c, b>>] = "pending"
        PROVE  a < b
    <3>1. <<c, b>> \in Rows
      BY DEF Rows
    <3>2. row[<<c, b>>] = "pending"
      BY <2>2, <3>1, SeenType
    <3>3. b \in open
      BY <3>2 DEF Pending
    <3> HIDE DEF open
    <3> QED
      BY <2>1, <3>3, LowestFirst
  <2>3. Behind(job'[p], Seen)
    BY <1>4, <2>2 DEF Behind
  <2>4. \A q \in Runners : Behind(job'[q], Seen)
    BY <1>2, <2>3 DEF Orderly
  <2> QED
    BY <1>1, <2>4 DEF Orderly
<1> QED
  BY <1>2, <1>3, <1>4

LEMMA RunOrderly ==
    ASSUME IInv, OneRun, Orderly, NEW p \in Runners, Passing(job[p]), Run(p) \/ CutShort(p)
    PROVE  Orderly'
<1>0. \A q \in Runners \ {p} : job'[q] = job[q]
  BY RunnableKnown
<1>1. CASE Begin(p) \/ Plan(p) \/ NextPass(p) \/ BatchEnd(p) \/ End(p)
  <2>1. ~InHand(job'[p])
    BY <1>1, BeginFields, PlanFields, NextPassFields, BatchEndFields, GoneFields DEF InHand
  <2> QED
    BY <1>0, <1>1, <2>1, StillSeen, StillOrderly
<1>2. CASE SoftLimitSwallowed(p) \/ \E result \in Results : Relay(p, result)
  <2>1. InHand(job[p]) /\ job'[p].camp = job[p].camp /\ job'[p].todo = job[p].todo
    BY <1>2, SwallowedFields, RelayFields DEF InHand
  <2> QED
    BY <1>0, <1>2, <2>1, StillSeen, StillOrderly
<1>3. CASE Compose(p)
  <2>1. /\ Holds(p) /\ InHand(job[p]) /\ job'[p].camp = job[p].camp /\ job'[p].todo = job[p].todo
        /\ job[p].cur[1] = job[p].camp
    BY <1>3, ComposeFields DEF Passing, Holds, InHand
  <2>2. CASE Seen' = Seen
    BY <1>0, <2>1, <2>2, StillOrderly
  <2>3. ASSUME NEW s \in {"skipped", "missing"}, Seen' = [Seen EXCEPT ![job[p].cur] = s]
        PROVE  Orderly'
    <3>1. s \in RowStatuses \ {"sending"} /\ s # "pending"
      BY DEF RowStatuses, Final
    <3> QED
      BY <1>0, <2>1, <2>3, <3>1, EndOrderly
  <2> QED
    BY <1>3, <2>2, <2>3, ComposeSeen
<1>4. CASE RecordAnswer(p)
  <2>1. /\ Holds(p) /\ job'[p].camp = job[p].camp /\ job[p].cur[1] = job[p].camp
        /\ Seen' = [Seen EXCEPT ![job[p].cur] = Mark(job[p].result)]
    BY <1>4, AnswerSeen, RecordAnswerFields DEF Passing
  <2>2. job'[p].todo = {} \/ job'[p].todo = job[p].todo
    BY <1>4 DEF RecordAnswer, IInv, TypeOK, Jobs, Records
  <2>3. Mark(job[p].result) \in RowStatuses \ {"sending"} /\ Mark(job[p].result) # "pending"
    BY DEF Mark, RowStatuses, Final
  <2> QED
    BY <1>0, <2>1, <2>2, <2>3, EndOrderly
<1>5. CASE RecordFailure(p)
  <2>1. /\ Holds(p) /\ job'[p].camp = job[p].camp /\ job[p].cur[1] = job[p].camp
        /\ job'[p].todo = {} /\ Seen' = [Seen EXCEPT ![job[p].cur] = "pending"]
    BY <1>5, FailureSeen, RecordFailureFields DEF Passing
  <2>2. "pending" \in RowStatuses \ {"sending"}
    BY DEF RowStatuses
  <2> QED
    BY <1>0, <2>1, <2>2, EndOrderly
<1>6. CASE SoftLimit(p) \/ Kill(p)
  <2>1. ~InHand(job'[p]) /\ "interrupted" \in RowStatuses \ {"sending"}
    BY <1>6, GoneFields DEF InHand, RowStatuses, Final
  <2>2. CASE Holds(p)
    <3>1. job[p].cur[1] = job[p].camp /\ Seen' = [Seen EXCEPT ![job[p].cur] = "interrupted"]
      BY <1>6, <2>2, CutSeen DEF Passing, Holds
    <3> QED
      BY <1>0, <2>1, <2>2, <3>1, EndOrderly
  <2>3. CASE ~Holds(p)
    BY <1>0, <1>6, <2>1, <2>3, CutSeen, StillOrderly
  <2> QED
    BY <2>2, <2>3
<1>7. ASSUME NEW c \in Campaigns, Pick(p, c) PROVE Orderly'
  BY <1>7, PickOrderly
<1>8. ASSUME NEW a \in Addresses, Claim(p, a) PROVE Orderly'
  BY <1>8, ClaimOrderly
<1> QED
  BY <1>1, <1>2, <1>3, <1>4, <1>5, <1>6, <1>7, <1>8 DEF Run, CutShort, Sending

LEMMA CreateOrderly ==
    ASSUME IInv, Orderly, Known, \A p \in Runners : Passing(job[p]),
           NEW c \in Campaigns, NEW status, Create(c, status)
    PROVE  Orderly'
<1>1. /\ \A d \in Campaigns, a \in Addresses : d # c => Seen'[<<d, a>>] = Seen[<<d, a>>]
      /\ \A a \in Addresses : Seen'[<<c, a>>] \in {"skipped", "pending"}
  BY CreateSeen DEF Rows
<1>2. Ascending(Seen')
  <2>1. ASSUME NEW d \in Campaigns, NEW x \in Addresses, NEW y \in Addresses
        PROVE  /\ Seen'[<<d, x>>] \in Breaks /\ Seen'[<<d, y>>] \in {"pending", "sending"} => x < y
               /\ Seen'[<<d, x>>] = "sending" /\ Seen'[<<d, y>>] = "pending" => x < y
    <3>1. CASE d = c
      BY <1>1, <3>1 DEF Breaks
    <3>2. CASE d # c
      <4>1. Seen'[<<d, x>>] = Seen[<<d, x>>] /\ Seen'[<<d, y>>] = Seen[<<d, y>>]
        BY <1>1, <3>2
      <4> QED
        BY <4>1 DEF Orderly, Ascending
    <3> QED
      BY <3>1, <3>2
  <2> DEFINE v == Seen'
  <2>2. \A d \in Campaigns : \A x, y \in Addresses :
           /\ v[<<d, x>>] \in Breaks /\ v[<<d, y>>] \in {"pending", "sending"} => x < y
           /\ v[<<d, x>>] = "sending" /\ v[<<d, y>>] = "pending" => x < y
    BY <2>1
  <2> HIDE DEF v
  <2>3. Ascending(v)
    BY <2>2 DEF Ascending
  <2> QED
    BY <2>3 DEF v
<1>3. ASSUME NEW p \in Runners PROVE Behind(job'[p], Seen')
  <2>1. job' = job /\ camp[c] = "none"
    BY DEF Create
  <2>2. InHand(job[p]) => job[p].camp # c /\ job[p].camp \in Campaigns
    BY <2>1 DEF Passing, Known, Unstarted, IInv, TypeOK, Jobs, InHand
  <2>3. job[p].todo \subseteq Addresses
    BY TodoTypes
  <2> QED
    BY <1>1, <2>1, <2>2, <2>3 DEF Orderly, Behind
<1> QED
  BY <1>2, <1>3 DEF Orderly

LEMMA OrderlyNext ==
    ASSUME IInv, OneRun, Orderly, Known, \A p \in Runners : Passing(job[p]), [Next]_vars
    PROVE  Orderly'
<1>1. CASE \E p \in Runners : Run(p) \/ CutShort(p)
  BY <1>1, RunOrderly
<1>2. CASE \E c \in Campaigns, status \in {"early", "sending"} : Create(c, status)
  BY <1>2, CreateOrderly
<1>3. CASE /\ ~\E p \in Runners : Run(p) \/ CutShort(p)
           /\ ~\E c \in Campaigns, status \in {"early", "sending"} : Create(c, status)
  <2>1. Seen' = Seen
    BY <1>3, AroundSeen
  <2>2. \A p \in Runners : Behind(job'[p], Seen)
    BY <1>3, AroundJobs DEF Orderly, Behind, InHand
  <2> QED
    BY <2>1, <2>2 DEF Orderly
<1> QED
  BY <1>1, <1>2, <1>3

-----------------------------------------------------------------------------
(* How many refusals in a row a campaign may have.                          *)

Lacking(v, c) == {a \in Addresses : v[<<c, a>>] = "missing"}

\* A failure, a run cut short or a missing value lets a campaign begin once more.
Most == 2 * Streak - 1
Stretch(c) == Most * (faults + Cardinality(Lacking(Seen, c)))

\* What it may have while a run holds it: a batch begins below the streak.
Room(j, c) ==
    IF InHand(j) /\ j.camp = c THEN Streak - 1 + (IF Given(j, c) THEN 0 ELSE j.streak)
    ELSE IF (InHand(j) \/ j.pc = "pick") /\ c \in j.runnable THEN Streak - 1
    ELSE Most

Patient(c) ==
    /\ refusals[c] <= Stretch(c) + Most
    /\ refusals[c] <= Stretch(c) + Cardinality(Tail(Seen, c))
    /\ \A p \in Runners : refusals[c] <= Stretch(c) + Room(job[p], c)
    /\ camp[c] = "sending" => \/ refusals[c] <= Stretch(c) + Streak - 1
                              \/ \E p \in Runners : InHand(job[p]) /\ job[p].camp = c
    /\ camp[c] \in Unstarted => refusals[c] = 0

LEMMA Longer ==
    ASSUME NEW w \in Nat, NEW n \in Nat, NEW m \in Nat
    PROVE  /\ w * n \in Nat
           /\ m >= n => w * m >= w * n
           /\ m >= n + 1 => w * m >= w * n + w
<1>1. w * n \in Nat /\ w * m = w * n + w * (m - n)
  OBVIOUS
<1>2. m >= n => w * (m - n) >= 0
  OBVIOUS
<1>3. m >= n + 1 => w * (m - n) >= w
  <2> SUFFICES ASSUME m >= n + 1 PROVE w * (m - n) >= w
    OBVIOUS
  <2>1. w * (m - n) = w + w * (m - n - 1) /\ w * (m - n - 1) >= 0
    OBVIOUS
  <2> QED
    BY <2>1
<1> QED
  BY <1>1, <1>2, <1>3

LEMMA CountTypes ==
    ASSUME NEW v, NEW c
    PROVE  Cardinality(Lacking(v, c)) \in Nat /\ Cardinality(Tail(v, c)) \in Nat
<1>1. Lacking(v, c) \subseteq Addresses /\ Tail(v, c) \subseteq Addresses
  BY DEF Lacking, Tail
<1> QED
  BY <1>1, ConstantsAssumption, FS_Subset, FS_CardinalityType

LEMMA StretchType ==
    ASSUME NEW c
    PROVE  /\ IInv => Stretch(c) \in Nat
           /\ IInv' => Stretch(c)' \in Nat
           /\ Most \in Nat /\ Most >= Streak /\ Streak \in Nat \ {0}
<1>1. Most \in Nat /\ Most >= Streak /\ Streak \in Nat \ {0}
  BY ConstantsAssumption DEF Most
<1>2. ASSUME IInv PROVE Stretch(c) \in Nat
  BY <1>1, <1>2, CountTypes, Longer, ConstantsAssumption DEF Stretch, IInv, TypeOK
<1>3. ASSUME IInv' PROVE Stretch(c)' \in Nat
  BY <1>1, <1>3, CountTypes, Longer, ConstantsAssumption DEF Stretch, IInv, TypeOK
<1> QED
  BY <1>1, <1>2, <1>3

\* A campaign with as few refusals as a batch begins with, or none.
LEMMA LowPatient ==
    ASSUME IInv', NEW c \in Campaigns,
           refusals'[c] <= Stretch(c)' + Streak - 1,
           refusals'[c] <= Stretch(c)' + Cardinality(Tail(Seen', c)),
           camp'[c] \in Unstarted => refusals'[c] = 0
    PROVE  Patient(c)'
<1>1. refusals'[c] \in Nat /\ Stretch(c)' \in Nat /\ Most \in Nat /\ Most >= Streak /\ Streak \in Nat
  BY StretchType DEF IInv, TypeOK
<1>2. ASSUME NEW p \in Runners PROVE refusals'[c] <= Stretch(c)' + Room(job'[p], c)
  <2>1. job'[p].streak \in Nat
    BY DEF IInv, TypeOK, Jobs, Records
  <2>2. Room(job'[p], c) >= Streak - 1 /\ Room(job'[p], c) \in Int
    BY <1>1, <2>1 DEF Room
  <2> QED
    BY <1>1, <2>2
<1> QED
  BY <1>1, <1>2 DEF Patient

LEMMA ResetPatient ==
    ASSUME IInv', NEW c \in Campaigns, refusals'[c] = 0
    PROVE  Patient(c)'
<1>1. Stretch(c)' \in Nat /\ Streak \in Nat \ {0} /\ Cardinality(Tail(Seen', c)) \in Nat
  BY StretchType, CountTypes
<1> QED
  BY <1>1, LowPatient

\* A campaign that may begin once more.
LEMMA ExcusedPatient ==
    ASSUME IInv, IInv', NEW c \in Campaigns, Patient(c), refusals'[c] = refusals[c],
           faults' + Cardinality(Lacking(Seen', c)) >= faults + Cardinality(Lacking(Seen, c)) + 1,
           camp'[c] \in Unstarted => camp[c] \in Unstarted
    PROVE  Patient(c)'
<1>1. /\ Stretch(c) \in Nat /\ Stretch(c)' \in Nat /\ Streak \in Nat \ {0} /\ Most \in Nat
      /\ Cardinality(Tail(Seen', c)) \in Nat /\ refusals[c] \in Nat
  BY StretchType, CountTypes DEF IInv, TypeOK
<1>2. /\ faults' + Cardinality(Lacking(Seen', c)) \in Nat
      /\ faults + Cardinality(Lacking(Seen, c)) \in Nat
  BY CountTypes, ConstantsAssumption DEF IInv, TypeOK
<1>3. Stretch(c)' >= Stretch(c) + Most
  BY <1>1, <1>2, Longer DEF Stretch
<1>4. refusals[c] <= Stretch(c) + Most /\ (camp'[c] \in Unstarted => refusals'[c] = 0)
  BY DEF Patient
<1> QED
  BY <1>1, <1>3, <1>4, LowPatient

\* A step that changes nothing of this.
LEMMA QuietPatient ==
    ASSUME IInv, IInv', NEW c \in Campaigns, Patient(c), refusals'[c] = refusals[c],
           faults' >= faults, Lacking(Seen', c) = Lacking(Seen, c), Tail(Seen', c) = Tail(Seen, c),
           \A p \in Runners : Room(job'[p], c) >= Room(job[p], c),
           camp'[c] = "sending" =>
              /\ camp[c] = "sending"
              /\ \A p \in Runners : InHand(job[p]) /\ job[p].camp = c
                                    => InHand(job'[p]) /\ job'[p].camp = c,
           camp'[c] \in Unstarted => camp[c] \in Unstarted
    PROVE  Patient(c)'
<1>1. /\ Stretch(c) \in Nat /\ Stretch(c)' \in Nat /\ Streak \in Nat \ {0} /\ Most \in Nat
      /\ Cardinality(Tail(Seen, c)) \in Nat /\ refusals[c] \in Nat
  BY StretchType, CountTypes DEF IInv, TypeOK
<1>2. /\ faults' + Cardinality(Lacking(Seen, c)) \in Nat
      /\ faults + Cardinality(Lacking(Seen, c)) \in Nat
      /\ faults' + Cardinality(Lacking(Seen, c)) >= faults + Cardinality(Lacking(Seen, c))
  BY CountTypes, ConstantsAssumption DEF IInv, TypeOK
<1>3. Stretch(c)' >= Stretch(c)
  BY <1>1, <1>2, Longer DEF Stretch
<1>4. ASSUME NEW p \in Runners PROVE refusals'[c] <= Stretch(c)' + Room(job'[p], c)
  <2>1. job[p].streak \in Nat /\ job'[p].streak \in Nat
    BY DEF IInv, TypeOK, Jobs, Records
  <2>2. Room(job'[p], c) \in Int /\ Room(job[p], c) \in Int
    BY <1>1, <2>1 DEF Room
  <2>3. refusals[c] <= Stretch(c) + Room(job[p], c) /\ Room(job'[p], c) >= Room(job[p], c)
    BY DEF Patient
  <2> QED
    BY <1>1, <1>3, <2>2, <2>3
<1>5. camp'[c] = "sending" => \/ refusals'[c] <= Stretch(c)' + Streak - 1
                              \/ \E p \in Runners : InHand(job'[p]) /\ job'[p].camp = c
  <2>1. CASE refusals[c] <= Stretch(c) + Streak - 1
    BY <1>1, <1>3, <2>1
  <2>2. CASE \E p \in Runners : InHand(job[p]) /\ job[p].camp = c
    BY <2>2
  <2> QED
    BY <2>1, <2>2 DEF Patient
<1>6. /\ refusals'[c] <= Stretch(c)' + Most
      /\ refusals'[c] <= Stretch(c)' + Cardinality(Tail(Seen', c))
      /\ camp'[c] \in Unstarted => refusals'[c] = 0
  BY <1>1, <1>3 DEF Patient
<1> QED
  BY <1>4, <1>5, <1>6 DEF Patient

\* What becomes of a row that was open changes nothing for other campaigns, and for its
\* own only if it is an answer or a missing value.
LEMMA RowQuiet ==
    ASSUME IInv, NEW r \in Rows, Seen[r] \in {"pending", "sending"}, NEW s \in RowStatuses,
           Seen' = [Seen EXCEPT ![r] = s], NEW c \in Campaigns,
           r[1] # c \/ s \in {"pending", "sending", "skipped"}
    PROVE  Lacking(Seen', c) = Lacking(Seen, c) /\ Tail(Seen', c) = Tail(Seen, c)
<1>1. PICK d \in Campaigns, a \in Addresses : r = <<d, a>>
  BY DEF Rows
<1>2. Seen \in [Rows -> RowStatuses]
  BY SeenType
<1>3. /\ Seen'[<<d, a>>] = s
      /\ \A e \in Campaigns, b \in Addresses : e # d \/ b # a => Seen'[<<e, b>>] = Seen[<<e, b>>]
  BY <1>1, <1>2, Put
<1>4. Tail(Seen', c) = Tail(Seen, c)
  <2>1. Seen[<<d, a>>] \in {"pending", "sending"} /\ (c # d \/ s \in {"pending", "sending", "skipped"})
    BY <1>1
  <2>2. \A b \in Addresses : /\ Seen'[<<c, b>>] \in Breaks <=> Seen[<<c, b>>] \in Breaks
                             /\ Seen'[<<c, b>>] = "refused" <=> Seen[<<c, b>>] = "refused"
    BY <1>3, <2>1 DEF Breaks
  <2>3. Broken(Seen', c) = Broken(Seen, c)
    BY <2>2 DEF Broken
  <2> QED
    BY <2>2, <2>3 DEF Tail
<1>5. \A b \in Addresses : Seen'[<<c, b>>] = "missing" <=> Seen[<<c, b>>] = "missing"
  BY <1>1, <1>3
<1> QED
  BY <1>4, <1>5 DEF Lacking

\* The steps of a run, one campaign at a time.
StepFor(p, c) ==
    /\ IInv /\ IInv' /\ OneRun /\ Orderly /\ Known
    /\ Passing(job[p]) /\ Calm(job[p]) /\ Patient(c)
    /\ \A q \in Runners \ {p} : job'[q] = job[q]

\* What a run does not have in hand it leaves alone; what it has, it keeps in hand.
LEMMA OwnRoom ==
    ASSUME NEW p \in Runners, NEW c \in Campaigns, \A q \in Runners \ {p} : job'[q] = job[q], IInv,
           Room(job'[p], c) >= Room(job[p], c)
    PROVE  \A q \in Runners : Room(job'[q], c) >= Room(job[q], c)
<1>1. ASSUME NEW q \in Runners \ {p} PROVE Room(job'[q], c) >= Room(job[q], c)
  <2>1. job[q].streak \in Nat /\ Streak \in Nat \ {0} /\ Most \in Nat
    BY StretchType DEF IInv, TypeOK, Jobs, Records
  <2>2. Room(job[q], c) \in Int
    BY <2>1 DEF Room
  <2> QED
    BY <2>2
<1> QED
  BY <1>1

LEMMA BeginPatient ==
    ASSUME NEW p \in Runners, NEW c \in Campaigns, StepFor(p, c), Begin(p)
    PROVE  Patient(c)'
<1>1. /\ refusals' = refusals /\ faults' = faults /\ Seen' = Seen
      /\ camp'[c] = IF camp[c] = "late" THEN "paused" ELSE IF camp[c] = "due" THEN "sending" ELSE camp[c]
  BY BeginSeen DEF StepFor, Begin, history
<1>2. CASE camp[c] \in Unstarted
  BY <1>1, <1>2, ResetPatient DEF StepFor, Patient
<1>3. CASE camp[c] \notin Unstarted
  <2>1. camp'[c] = camp[c]
    BY <1>1, <1>3 DEF Unstarted, Scheduled
  <2>2. ~InHand(job[p]) /\ ~InHand(job'[p]) /\ job[p].pc = "idle" /\ job'[p].pc = "plan"
    BY BeginFields DEF InHand, StepFor
  <2>3. Room(job'[p], c) = Room(job[p], c) /\ Room(job[p], c) \in Int
    BY <2>2, StretchType DEF Room
  <2> QED
    BY <1>1, <2>1, <2>2, <2>3, OwnRoom, QuietPatient DEF StepFor, IInv, TypeOK
<1> QED
  BY <1>2, <1>3

LEMMA PlanPatient ==
    ASSUME NEW p \in Runners, NEW c \in Campaigns, StepFor(p, c), Plan(p)
    PROVE  Patient(c)'
<1>1. /\ refusals' = refusals /\ Seen' = Seen
      /\ camp'[c] = camp[c] \/ (camp[c] = "sending" /\ camp'[c] = "paused")
      /\ faults' = faults \/ faults' = faults + 1
  BY StillSeen DEF StepFor, Plan, history, IInv, TypeOK
<1>2. /\ job[p].pc = "plan" /\ ~InHand(job[p]) /\ Running(p)
      /\ \/ /\ job'[p].pc = "pick"
            /\ job'[p].runnable \subseteq {d \in Campaigns : camp[d] = "sending"}
         \/ job'[p].pc = "closing"
      /\ ~InHand(job'[p])
  BY PlanFields DEF InHand, StepFor, Running
<1>3. CASE faults' = faults + 1
  <2>1. faults' + Cardinality(Lacking(Seen', c)) >= faults + Cardinality(Lacking(Seen, c)) + 1
    BY <1>1, <1>3, CountTypes, ConstantsAssumption DEF StepFor, IInv, TypeOK
  <2> QED
    BY <1>1, <2>1, ExcusedPatient DEF StepFor, Unstarted, Scheduled
<1>4. CASE faults' = faults /\ job'[p].pc = "pick" /\ c \in job'[p].runnable
  <2>1. camp[c] = "sending"
    BY <1>2, <1>4
  <2>2. ~\E q \in Runners : InHand(job[q]) /\ job[q].camp = c
    BY <1>2, Alone DEF StepFor
  <2>3. /\ refusals[c] <= Stretch(c) + Streak - 1
        /\ refusals[c] <= Stretch(c) + Cardinality(Tail(Seen, c))
    BY <2>1, <2>2 DEF StepFor, Patient
  <2>4. Stretch(c)' = Stretch(c)
    BY <1>1, <1>4 DEF Stretch
  <2>5. camp'[c] \notin Unstarted
    BY <1>1, <2>1 DEF Unstarted, Scheduled
  <2> QED
    BY <1>1, <2>3, <2>4, <2>5, LowPatient DEF StepFor
<1>5. CASE faults' = faults /\ ~(job'[p].pc = "pick" /\ c \in job'[p].runnable)
  <2>1. Room(job'[p], c) = Room(job[p], c) /\ Room(job[p], c) \in Int
    BY <1>2, <1>5, StretchType DEF Room
  <2>2. \A q \in Runners : InHand(job[q]) => InHand(job'[q]) /\ job'[q].camp = job[q].camp
    BY <1>2 DEF StepFor
  <2> QED
    BY <1>1, <1>5, <2>1, <2>2, OwnRoom, QuietPatient, ConstantsAssumption
       DEF StepFor, IInv, TypeOK, Unstarted, Scheduled
<1> QED
  BY <1>1, <1>2, <1>3, <1>4, <1>5

LEMMA PickPatient ==
    ASSUME NEW p \in Runners, NEW c \in Campaigns, StepFor(p, c), NEW d \in Campaigns, Pick(p, d)
    PROVE  Patient(c)'
<1>1. /\ refusals' = refusals /\ faults' = faults /\ Seen' = Seen
      /\ camp'[c] = camp[c] \/ (camp[c] = "sending" /\ camp'[c] = "completed")
  BY StillSeen DEF StepFor, Pick, Finished, history, IInv, TypeOK
<1>2. /\ job[p].pc = "pick" /\ ~InHand(job[p]) /\ d \in job[p].runnable
      /\ \/ job'[p].pc = "pick" /\ job'[p].runnable = job[p].runnable \ {d}
         \/ job'[p].pc = "batch" /\ job'[p].runnable = job[p].runnable /\ job'[p].camp = d
  BY PickFields DEF InHand, StepFor, Passing
<1>3. CASE d = c /\ job'[p].pc = "batch"
  <2>1. Room(job[p], c) = Streak - 1
    BY <1>2, <1>3 DEF Room
  <2>2. /\ refusals[c] <= Stretch(c) + Streak - 1
        /\ refusals[c] <= Stretch(c) + Cardinality(Tail(Seen, c))
        /\ camp[c] \in Unstarted => refusals[c] = 0
    <3>1. /\ refusals[c] <= Stretch(c) + Room(job[p], c)
          /\ refusals[c] <= Stretch(c) + Cardinality(Tail(Seen, c))
          /\ camp[c] \in Unstarted => refusals[c] = 0
      BY DEF StepFor, Patient
    <3> QED
      BY <2>1, <3>1, StretchType DEF StepFor, IInv, TypeOK
  <2>3. Stretch(c)' = Stretch(c)
    BY <1>1 DEF Stretch
  <2> QED
    BY <1>1, <2>2, <2>3, LowPatient DEF StepFor, Unstarted, Scheduled
<1>4. CASE ~(d = c /\ job'[p].pc = "batch")
  <2>1. Room(job'[p], c) >= Room(job[p], c)
    BY <1>2, <1>4, StretchType DEF Room, InHand
  <2>2. \A q \in Runners : InHand(job[q]) => InHand(job'[q]) /\ job'[q].camp = job[q].camp
    BY <1>2 DEF StepFor
  <2> QED
    BY <1>1, <2>1, <2>2, OwnRoom, QuietPatient, ConstantsAssumption
       DEF StepFor, IInv, TypeOK, Unstarted, Scheduled
<1> QED
  BY <1>3, <1>4

LEMMA ClaimPatient ==
    ASSUME NEW p \in Runners, NEW c \in Campaigns, StepFor(p, c), NEW a \in Addresses, Claim(p, a)
    PROVE  Patient(c)'
<1>1. refusals' = refusals /\ faults' = faults /\ camp' = camp
  BY DEF Claim, history
<1>2. /\ InHand(job[p]) /\ InHand(job'[p]) /\ job'[p].camp = job[p].camp
      /\ job'[p].streak = job[p].streak /\ job'[p].stop = job[p].stop
      /\ job'[p].result = job[p].result /\ job'[p].runnable = job[p].runnable
  BY ClaimFields DEF StepFor, InHand
<1>3. Lacking(Seen', c) = Lacking(Seen, c) /\ Tail(Seen', c) = Tail(Seen, c)
  <2>1. "sending" \in RowStatuses
    BY DEF RowStatuses
  <2> QED
    BY <2>1, ClaimSeen, RowQuiet DEF StepFor
<1>4. Room(job'[p], c) = Room(job[p], c) /\ Room(job[p], c) \in Int
  <2>1. job[p].streak \in Nat /\ Streak \in Nat /\ Most \in Nat
    BY StretchType DEF StepFor, IInv, TypeOK, Jobs, Records
  <2> QED
    BY <1>2, <2>1 DEF Room, Given
<1> QED
  BY <1>1, <1>2, <1>3, <1>4, OwnRoom, QuietPatient, ConstantsAssumption DEF StepFor, IInv, TypeOK

LEMMA ComposePatient ==
    ASSUME NEW p \in Runners, NEW c \in Campaigns, StepFor(p, c), Compose(p)
    PROVE  Patient(c)'
<1>1. refusals' = refusals /\ faults' = faults /\ camp' = camp
  BY DEF Compose, history
<1>2. /\ Holds(p) /\ InHand(job[p]) /\ InHand(job'[p]) /\ job'[p].camp = job[p].camp
      /\ job'[p].streak = job[p].streak /\ job'[p].stop = job[p].stop
      /\ job'[p].result = job[p].result /\ job'[p].runnable = job[p].runnable
      /\ job[p].cur[1] = job[p].camp
  BY ComposeFields DEF StepFor, InHand, Holds, Passing
<1>3. job[p].cur \in Rows /\ Seen[job[p].cur] = "sending"
  BY <1>2, HeldRow, SeenType DEF StepFor
<1>4. Room(job'[p], c) = Room(job[p], c) /\ Room(job[p], c) \in Int
  <2>1. job[p].streak \in Nat /\ Streak \in Nat /\ Most \in Nat
    BY StretchType DEF StepFor, IInv, TypeOK, Jobs, Records
  <2> QED
    BY <1>2, <2>1 DEF Room, Given
<1>5. CASE Lacking(Seen', c) = Lacking(Seen, c) /\ Tail(Seen', c) = Tail(Seen, c)
  BY <1>1, <1>2, <1>4, <1>5, OwnRoom, QuietPatient, ConstantsAssumption DEF StepFor, IInv, TypeOK
<1>6. ASSUME NEW s \in {"skipped", "missing"}, Seen' = [Seen EXCEPT ![job[p].cur] = s],
             s = "skipped" \/ job[p].camp # c
      PROVE  Patient(c)'
  <2>1. s \in RowStatuses
    BY DEF RowStatuses, Final
  <2>2. job[p].cur[1] # c \/ s \in {"pending", "sending", "skipped"}
    BY <1>2, <1>6
  <2> QED
    BY <1>3, <1>5, <1>6, <2>1, <2>2, RowQuiet DEF StepFor
<1>7. CASE Seen' = [Seen EXCEPT ![job[p].cur] = "missing"] /\ job[p].camp = c
  <2>1. PICK a \in Addresses : job[p].cur = <<c, a>>
    BY <1>2, <1>3, <1>7 DEF Rows
  <2>2. Seen \in [Rows -> RowStatuses] /\ "missing" \in RowStatuses
    BY SeenType DEF StepFor, RowStatuses, Final
  <2>3. /\ Seen'[<<c, a>>] = "missing"
        /\ \A b \in Addresses : b # a => Seen'[<<c, b>>] = Seen[<<c, b>>]
    BY <1>7, <2>1, <2>2, Put
  <2>4. Lacking(Seen', c) = Lacking(Seen, c) \cup {a} /\ a \notin Lacking(Seen, c)
    BY <1>3, <2>1, <2>3 DEF Lacking
  <2>5. IsFiniteSet(Lacking(Seen, c))
    <3>1. Lacking(Seen, c) \subseteq Addresses
      BY DEF Lacking
    <3> QED
      BY <3>1, ConstantsAssumption, FS_Subset
  <2>6. Cardinality(Lacking(Seen', c)) = Cardinality(Lacking(Seen, c)) + 1
    BY <2>4, <2>5, FS_AddElement
  <2>7. faults' + Cardinality(Lacking(Seen', c)) >= faults + Cardinality(Lacking(Seen, c)) + 1
    BY <1>1, <2>6, CountTypes, ConstantsAssumption DEF StepFor, IInv, TypeOK
  <2> QED
    BY <1>1, <2>7, ExcusedPatient DEF StepFor
<1> QED
  <2>1. CASE Seen' = Seen
    BY <1>5, <2>1
  <2>2. ASSUME NEW s \in {"skipped", "missing"}, Seen' = [Seen EXCEPT ![job[p].cur] = s]
        PROVE  Patient(c)'
    BY <1>6, <1>7, <2>2
  <2> QED
    BY <2>1, <2>2, ComposeSeen DEF StepFor

LEMMA RelayPatient ==
    ASSUME NEW p \in Runners, NEW c \in Campaigns, StepFor(p, c),
           NEW result \in Results, Relay(p, result)
    PROVE  Patient(c)'
<1>1. /\ refusals' = refusals /\ camp' = camp /\ Seen' = Seen
      /\ faults' = faults + (IF result \in {"failed", "lost"} THEN 1 ELSE 0)
  BY StillSeen DEF Relay, StepFor
<1>2. /\ InHand(job[p]) /\ InHand(job'[p]) /\ job'[p].camp = job[p].camp
      /\ job'[p].streak = job[p].streak /\ job'[p].stop = job[p].stop
      /\ job'[p].result = result /\ job'[p].runnable = job[p].runnable
      /\ job[p].pc = "sending"
  BY RelayFields DEF StepFor, InHand
<1>3. CASE result \in {"failed", "lost"}
  <2>1. faults' + Cardinality(Lacking(Seen', c)) >= faults + Cardinality(Lacking(Seen, c)) + 1
    BY <1>1, <1>3, CountTypes, ConstantsAssumption DEF StepFor, IInv, TypeOK
  <2> QED
    BY <1>1, <2>1, ExcusedPatient DEF StepFor
<1>4. CASE result \notin {"failed", "lost"}
  <2>1. job[p].streak \in Nat /\ Streak \in Nat /\ Most \in Nat /\ job[p].result = "none"
    BY <1>2, StretchType DEF StepFor, IInv, TypeOK, Jobs, Records
  <2>2. Given(job'[p], c) <=> Given(job[p], c)
    BY <1>2, <1>4, <2>1 DEF Given
  <2>3. Room(job'[p], c) = Room(job[p], c) /\ Room(job[p], c) \in Int
    BY <1>2, <2>1, <2>2 DEF Room
  <2> QED
    BY <1>1, <1>2, <1>4, <2>3, OwnRoom, QuietPatient, ConstantsAssumption DEF StepFor, IInv, TypeOK
<1> QED
  BY <1>3, <1>4

\* A refusal lengthens the tail and the streak; an accepted email ends both.
LEMMA AnswerPatient ==
    ASSUME NEW p \in Runners, NEW c \in Campaigns, StepFor(p, c), RecordAnswer(p)
    PROVE  Patient(c)'
<1>1. /\ faults' = faults /\ camp' = camp /\ job[p].result \in {"accepted", "refused"}
      /\ refusals' = [refusals EXCEPT ![job[p].cur[1]] =
                         IF job[p].result = "accepted" THEN 0 ELSE @ + 1]
  BY DEF RecordAnswer
<1>2. /\ Holds(p) /\ InHand(job[p]) /\ InHand(job'[p]) /\ job'[p].camp = job[p].camp
      /\ job'[p].streak = (IF job[p].result = "accepted" THEN 0 ELSE job[p].streak + 1)
      /\ ~job[p].stop /\ ~job'[p].stop
      /\ job'[p].result = "none" /\ job'[p].runnable = job[p].runnable
      /\ job[p].cur[1] = job[p].camp /\ job[p].streak < Streak
      /\ job[p].camp \in job[p].runnable
  BY RecordAnswerFields DEF StepFor, InHand, Holds, Passing, Calm
<1>3. /\ job[p].cur \in Rows /\ Seen[job[p].cur] = "sending"
      /\ Seen' = [Seen EXCEPT ![job[p].cur] = Mark(job[p].result)]
      /\ Mark(job[p].result) \in RowStatuses
  BY <1>2, HeldRow, SeenType, AnswerSeen DEF StepFor, Mark, RowStatuses, Final
<1>4. /\ job[p].streak \in Nat /\ Streak \in Nat \ {0} /\ Most \in Nat /\ refusals \in [Campaigns -> Nat]
      /\ Stretch(c) \in Nat
  BY StretchType DEF StepFor, IInv, TypeOK, Jobs, Records
<1>5. CASE job[p].camp # c
  <2>1. refusals'[c] = refusals[c]
    BY <1>1, <1>2, <1>4, <1>5
  <2>2. Lacking(Seen', c) = Lacking(Seen, c) /\ Tail(Seen', c) = Tail(Seen, c)
    BY <1>2, <1>3, <1>5, RowQuiet DEF StepFor
  <2>3. Room(job'[p], c) = Room(job[p], c) /\ Room(job[p], c) \in Int
    BY <1>2, <1>4, <1>5 DEF Room
  <2> QED
    BY <1>1, <1>2, <2>1, <2>2, <2>3, OwnRoom, QuietPatient, ConstantsAssumption
       DEF StepFor, IInv, TypeOK
<1>6. CASE job[p].camp = c /\ job[p].result = "accepted"
  <2>1. refusals'[c] = 0
    BY <1>1, <1>2, <1>4, <1>6
  <2> QED
    BY <2>1, ResetPatient DEF StepFor
<1>7. CASE job[p].camp = c /\ job[p].result = "refused"
  <2>1. refusals'[c] = refusals[c] + 1 /\ job'[p].streak = job[p].streak + 1
    BY <1>1, <1>2, <1>4, <1>7
  <2>2. PICK a \in Addresses : job[p].cur = <<c, a>>
    BY <1>2, <1>3, <1>7 DEF Rows
  <2>3. /\ Seen \in [Rows -> RowStatuses] /\ Seen[<<c, a>>] \in {"pending", "sending"}
        /\ Seen' = [Seen EXCEPT ![<<c, a>>] = "refused"]
        /\ \A b \in Broken(Seen, c) : b < a
    BY <1>3, <1>7, <2>2, SeenType DEF StepFor, Orderly, Ascending, Broken, Mark
  <2>4. Tail(Seen', c) = Tail(Seen, c) \cup {a} /\ a \notin Tail(Seen, c)
    <3>1. /\ Tail([Seen EXCEPT ![<<c, a>>] = "refused"], c) = Tail(Seen, c) \cup {a}
          /\ a \notin Tail(Seen, c)
      BY <2>3, NewTail
    <3> QED
      BY <2>3, <3>1
  <2>5. IsFiniteSet(Tail(Seen, c))
    <3>1. Tail(Seen, c) \subseteq Addresses
      BY DEF Tail
    <3> QED
      BY <3>1, ConstantsAssumption, FS_Subset
  <2>6. Cardinality(Tail(Seen', c)) = Cardinality(Tail(Seen, c)) + 1
    BY <2>4, <2>5, FS_AddElement
  <2>7. \A b \in Addresses : b # a => Seen'[<<c, b>>] = Seen[<<c, b>>]
    <3>1. "refused" \in RowStatuses
      BY DEF RowStatuses, Final
    <3> QED
      BY <2>3, <3>1, Put
  <2>8. Seen'[<<c, a>>] = "refused"
    BY <2>3, <1>3, <2>2
  <2>9. Lacking(Seen', c) = Lacking(Seen, c)
    BY <2>3, <2>7, <2>8 DEF Lacking
  <2>10. Stretch(c)' = Stretch(c)
    BY <1>1, <2>9 DEF Stretch
  <2>11. Room(job[p], c) = Streak - 1 + job[p].streak /\ Room(job'[p], c) = Streak - 1 + job'[p].streak
    BY <1>2, <1>7 DEF Room, Given
  <2>12. /\ refusals[c] <= Stretch(c) + Cardinality(Tail(Seen, c))
         /\ \A q \in Runners : refusals[c] <= Stretch(c) + Room(job[q], c)
         /\ refusals[c] <= Stretch(c) + Streak - 1 + job[p].streak
    BY <1>4, <2>11 DEF StepFor, Patient
  <2>13. refusals'[c] <= Stretch(c)' + Most
    BY <1>2, <1>4, <2>1, <2>10, <2>12 DEF Most
  <2>14. refusals'[c] <= Stretch(c)' + Cardinality(Tail(Seen', c))
    BY <1>4, <2>1, <2>6, <2>10, <2>12, CountTypes
  <2>15. ASSUME NEW q \in Runners PROVE refusals'[c] <= Stretch(c)' + Room(job'[q], c)
    <3>1. CASE q = p
      BY <1>4, <2>1, <2>10, <2>11, <2>12, <3>1
    <3>2. CASE q # p
      \* another run may only be closing
      <4>1. job'[q] = job[q] /\ ~InHand(job[q]) /\ job[q].pc # "pick"
        BY <1>2, <3>2, Alone DEF StepFor, Running, Holds
      <4>2. Room(job'[q], c) = Most
        BY <4>1 DEF Room
      <4> QED
        BY <2>13, <4>2
    <3> QED
      BY <3>1, <3>2
  <2>16. camp'[c] \notin Unstarted
    BY <1>1, <1>2, <1>7 DEF StepFor, Known
  <2>17. \E q \in Runners : InHand(job'[q]) /\ job'[q].camp = c
    BY <1>2, <1>7
  <2> QED
    BY <2>13, <2>14, <2>15, <2>16, <2>17 DEF Patient
<1> QED
  BY <1>1, <1>5, <1>6, <1>7

LEMMA FailurePatient ==
    ASSUME NEW p \in Runners, NEW c \in Campaigns, StepFor(p, c), RecordFailure(p)
    PROVE  Patient(c)'
<1>1. refusals' = refusals /\ faults' = faults /\ camp' = camp
  BY DEF RecordFailure, history
<1>2. /\ Holds(p) /\ InHand(job[p]) /\ InHand(job'[p]) /\ job'[p].camp = job[p].camp
      /\ job'[p].stop /\ job'[p].runnable = job[p].runnable
      /\ job[p].result \in {"failed", "lost"}
  BY RecordFailureFields DEF StepFor, InHand, Holds
<1>3. Lacking(Seen', c) = Lacking(Seen, c) /\ Tail(Seen', c) = Tail(Seen, c)
  <2>1. job[p].cur \in Rows /\ Seen[job[p].cur] = "sending" /\ "pending" \in RowStatuses
    BY <1>2, HeldRow, SeenType DEF StepFor, RowStatuses
  <2>2. Seen' = [Seen EXCEPT ![job[p].cur] = "pending"]
    BY FailureSeen DEF StepFor
  <2> QED
    BY <2>1, <2>2, RowQuiet DEF StepFor
<1>4. Room(job'[p], c) = Room(job[p], c) /\ Room(job[p], c) \in Int
  <2>1. job[p].streak \in Nat /\ Streak \in Nat /\ Most \in Nat
    BY StretchType DEF StepFor, IInv, TypeOK, Jobs, Records
  <2> QED
    BY <1>2, <2>1 DEF Room, Given
<1> QED
  BY <1>1, <1>2, <1>3, <1>4, OwnRoom, QuietPatient, ConstantsAssumption DEF StepFor, IInv, TypeOK

\* A batch that does not pause its campaign ended in fewer refusals than the streak.
LEMMA BatchEndPatient ==
    ASSUME NEW p \in Runners, NEW c \in Campaigns, StepFor(p, c), BatchEnd(p)
    PROVE  Patient(c)'
<1>1. refusals' = refusals /\ faults' = faults /\ Seen' = Seen
  BY StillSeen DEF StepFor, BatchEnd, history
<1>2. /\ InHand(job[p]) /\ ~InHand(job'[p]) /\ job'[p].pc = "pick" /\ Running(p)
      /\ job'[p].runnable = IF ~job[p].stop /\ ~Tripped(p) THEN job[p].runnable
                            ELSE job[p].runnable \ {job[p].camp}
      /\ job[p].camp \in job[p].runnable /\ job[p].camp \in Campaigns
  BY BatchEndFields DEF StepFor, InHand, Running, Passing, IInv, TypeOK, Jobs
<1>3. /\ camp'[c] \in {camp[c], "paused", "completed"}
      /\ camp'[c] = "sending" => camp[c] = "sending"
      /\ job[p].camp = c /\ ~job[p].stop /\ Tripped(p) => camp'[c] # "sending"
  BY DEF BatchEnd, Finished, StepFor, IInv, TypeOK
<1>4. camp'[c] \in Unstarted => camp[c] \in Unstarted
  BY <1>3 DEF Unstarted, Scheduled
<1>5. /\ job[p].streak \in Nat /\ Streak \in Nat \ {0} /\ Most \in Nat /\ Most >= Streak
      /\ refusals[c] \in Nat /\ Stretch(c) \in Nat /\ Cardinality(Tail(Seen, c)) \in Nat
  BY StretchType, CountTypes DEF StepFor, IInv, TypeOK, Jobs, Records
<1>6. Stretch(c)' = Stretch(c)
  BY <1>1 DEF Stretch
<1>7. CASE refusals[c] <= Stretch(c) + Streak - 1
  <2>1. /\ refusals[c] <= Stretch(c) + Cardinality(Tail(Seen, c))
        /\ camp[c] \in Unstarted => refusals[c] = 0
    BY DEF StepFor, Patient
  <2> QED
    BY <1>1, <1>4, <1>6, <1>7, <2>1, LowPatient DEF StepFor
<1>8. CASE job[p].camp # c
  <2>1. Room(job'[p], c) >= Room(job[p], c)
    BY <1>2, <1>5, <1>8 DEF Room
  <2>2. \A q \in Runners : InHand(job[q]) /\ job[q].camp = c
                           => InHand(job'[q]) /\ job'[q].camp = job[q].camp
    BY <1>8 DEF StepFor
  <2>3. faults' >= faults
    BY <1>1, ConstantsAssumption DEF StepFor, IInv, TypeOK
  <2> QED
    BY <1>1, <1>3, <1>4, <2>1, <2>2, <2>3, OwnRoom, QuietPatient DEF StepFor
<1>9. CASE job[p].camp = c /\ job[p].stop
  <2>1. Room(job[p], c) = Streak - 1
    BY <1>2, <1>5, <1>9 DEF Room, Given
  <2>2. refusals[c] <= Stretch(c) + Room(job[p], c)
    BY DEF StepFor, Patient
  <2> QED
    BY <1>5, <1>7, <2>1, <2>2
<1>10. CASE job[p].camp = c /\ ~job[p].stop /\ ~Tripped(p)
  <2>1. Cardinality(Tail(Seen, c)) < Streak
    BY <1>2, <1>10, TailTrips DEF StepFor
  <2>2. refusals[c] <= Stretch(c) + Cardinality(Tail(Seen, c))
    BY DEF StepFor, Patient
  <2> QED
    BY <1>5, <1>7, <2>1, <2>2
<1>11. CASE job[p].camp = c /\ ~job[p].stop /\ Tripped(p)
  <2>1. Room(job'[p], c) = Most
    BY <1>2, <1>11 DEF Room
  <2>2. ASSUME NEW q \in Runners \ {p} PROVE Room(job'[q], c) = Room(job[q], c)
    BY DEF StepFor
  <2>3. /\ refusals[c] <= Stretch(c) + Most
        /\ refusals[c] <= Stretch(c) + Cardinality(Tail(Seen, c))
        /\ \A q \in Runners : refusals[c] <= Stretch(c) + Room(job[q], c)
        /\ camp[c] \in Unstarted => refusals[c] = 0
    BY DEF StepFor, Patient
  <2>4. \A q \in Runners : refusals[c] <= Stretch(c) + Room(job'[q], c)
    BY <2>1, <2>2, <2>3
  <2> QED
    BY <1>1, <1>3, <1>4, <1>6, <1>11, <2>3, <2>4 DEF Patient
<1> QED
  BY <1>8, <1>9, <1>10, <1>11

\* A run that passes on, or is over.
LEMMA PassPatient ==
    ASSUME NEW p \in Runners, NEW c \in Campaigns, StepFor(p, c),
           NextPass(p) \/ End(p) \/ SoftLimitSwallowed(p)
    PROVE  Patient(c)'
<1>1. refusals' = refusals /\ faults' = faults /\ camp' = camp /\ Seen' = Seen
  BY StillSeen DEF StepFor, NextPass, End, SoftLimitSwallowed, history
<1>2. /\ job[p].streak \in Nat /\ Streak \in Nat \ {0} /\ Most \in Nat /\ Most >= Streak
      /\ faults \in Nat
  <2>1. job[p].streak \in Nat
    BY DEF StepFor, IInv, TypeOK, Jobs, Records
  <2>2. faults \in Nat
    BY ConstantsAssumption DEF StepFor, IInv, TypeOK
  <2> QED
    BY <2>1, <2>2, StretchType
<1>3. CASE NextPass(p)
  <2>1. /\ job[p].pc = "pick" /\ job'[p].pc \in {"pick", "closing"}
        /\ job'[p].runnable = job[p].runnable
    BY <1>3, NextPassFields DEF StepFor
  <2>2. Room(job'[p], c) >= Room(job[p], c) /\ ~InHand(job[p])
    BY <1>2, <2>1 DEF Room, InHand
  <2> QED
    BY <1>1, <1>2, <2>2, OwnRoom, QuietPatient DEF StepFor
<1>4. CASE End(p)
  <2>1. job[p].pc = "closing" /\ job'[p].pc \in {"idle", "closing"}
    BY <1>4, GoneFields DEF StepFor, End
  <2>2. Room(job'[p], c) >= Room(job[p], c) /\ ~InHand(job[p])
    BY <1>2, <2>1 DEF Room, InHand
  <2> QED
    BY <1>1, <1>2, <2>2, OwnRoom, QuietPatient DEF StepFor
<1>5. CASE SoftLimitSwallowed(p)
  <2>1. /\ job'[p].pc = job[p].pc /\ job'[p].runnable = job[p].runnable
        /\ job'[p].camp = job[p].camp /\ job'[p].stop = job[p].stop
        /\ job'[p].result = job[p].result /\ job'[p].streak = job[p].streak
    BY <1>5, SwallowedFields DEF StepFor
  <2>2. Room(job'[p], c) >= Room(job[p], c) /\ (InHand(job[p]) => InHand(job'[p]))
    BY <1>2, <2>1 DEF Room, InHand, Given
  <2> QED
    BY <1>1, <1>2, <2>1, <2>2, OwnRoom, QuietPatient DEF StepFor
<1> QED
  BY <1>3, <1>4, <1>5

LEMMA CutPatient ==
    ASSUME NEW p \in Runners, NEW c \in Campaigns, StepFor(p, c), SoftLimit(p) \/ Kill(p)
    PROVE  Patient(c)'
<1>1. refusals' = refusals /\ faults' = faults + 1 /\ camp' = camp
  BY DEF SoftLimit, Kill, history
<1>2. Lacking(Seen', c) = Lacking(Seen, c)
  <2>1. CASE Holds(p)
    <3>1. job[p].cur \in Rows /\ Seen[job[p].cur] = "sending"
          /\ Seen' = [Seen EXCEPT ![job[p].cur] = "interrupted"]
      BY <2>1, HeldRow, SeenType, CutSeen DEF StepFor
    <3>2. Seen \in [Rows -> RowStatuses]
      BY SeenType DEF StepFor
    <3>3. \A r \in Rows : Seen'[r] = "missing" <=> Seen[r] = "missing"
      BY <3>1, <3>2
    <3>4. \A a \in Addresses : <<c, a>> \in Rows
      BY DEF Rows
    <3> QED
      BY <3>3, <3>4 DEF Lacking
  <2>2. CASE ~Holds(p)
    BY <2>2, CutSeen DEF StepFor
  <2> QED
    BY <2>1, <2>2
<1>3. faults' + Cardinality(Lacking(Seen', c)) >= faults + Cardinality(Lacking(Seen, c)) + 1
  BY <1>1, <1>2, CountTypes, ConstantsAssumption DEF StepFor, IInv, TypeOK
<1> QED
  BY <1>1, <1>3, ExcusedPatient DEF StepFor

LEMMA RunPatient ==
    ASSUME NEW p \in Runners, NEW c \in Campaigns, StepFor(p, c), Run(p) \/ CutShort(p)
    PROVE  Patient(c)'
BY BeginPatient, PlanPatient, PickPatient, ClaimPatient, ComposePatient, RelayPatient, AnswerPatient,
   FailurePatient, BatchEndPatient, PassPatient, CutPatient DEF Run, CutShort, Sending

LEMMA CreatePatient ==
    ASSUME IInv, IInv', NEW c \in Campaigns, Patient(c),
           NEW d \in Campaigns, NEW status, Create(d, status)
    PROVE  Patient(c)'
<1>1. refusals' = refusals /\ faults' = faults /\ job' = job /\ camp' = [camp EXCEPT ![d] = status]
      /\ camp[d] = "none"
  BY DEF Create, history
<1>2. CASE c = d
  BY <1>1, <1>2, ResetPatient DEF Patient, Unstarted
<1>3. CASE c # d
  <2>1. \A a \in Addresses : Seen'[<<c, a>>] = Seen[<<c, a>>]
    BY <1>3, CreateSeen DEF Rows
  <2>2. Lacking(Seen', c) = Lacking(Seen, c) /\ Tail(Seen', c) = Tail(Seen, c)
    <3>1. Broken(Seen', c) = Broken(Seen, c)
      BY <2>1 DEF Broken
    <3> QED
      BY <2>1, <3>1 DEF Tail, Lacking
  <2>3. camp'[c] = camp[c]
    BY <1>1, <1>3 DEF IInv, TypeOK
  <2>4. ASSUME NEW p \in Runners PROVE Room(job'[p], c) >= Room(job[p], c)
    <3>1. job[p].streak \in Nat /\ Streak \in Nat \ {0} /\ Most \in Nat
      BY StretchType DEF IInv, TypeOK, Jobs, Records
    <3>2. Room(job[p], c) \in Int
      BY <3>1 DEF Room
    <3> QED
      BY <1>1, <3>2
  <2> QED
    BY <1>1, <2>2, <2>3, <2>4, QuietPatient, ConstantsAssumption DEF IInv, TypeOK
<1> QED
  BY <1>2, <1>3

\* People, lists and clocks: a resumed campaign starts over.
LEMMA AroundPatient ==
    ASSUME IInv, IInv', NEW c \in Campaigns, Patient(c), [Next]_vars,
           ~\E p \in Runners : Run(p) \/ CutShort(p),
           ~\E d \in Campaigns, status \in {"early", "sending"} : Create(d, status)
    PROVE  Patient(c)'
<1>1. Seen' = Seen
  BY AroundSeen
<1>2. faults' = faults
  BY DEF Next, vars, People, Pause, Resume, Cancel, StartNow, Reschedule, Elapse, Move, Block,
     OptOut, Tick, NewMinute, NewDay
<1>3. ASSUME NEW p \in Runners
      PROVE  /\ Room(job'[p], c) >= Room(job[p], c)
             /\ InHand(job[p]) /\ job[p].camp = c => InHand(job'[p]) /\ job'[p].camp = c
  <2>1. job[p].streak \in Nat /\ Streak \in Nat \ {0} /\ Most \in Nat
    BY StretchType DEF IInv, TypeOK, Jobs, Records
  <2>2. /\ job'[p].pc = job[p].pc /\ job'[p].runnable = job[p].runnable
        /\ job'[p].camp = job[p].camp /\ job'[p].result = job[p].result
        /\ job'[p].streak = job[p].streak /\ job'[p].stop = job[p].stop
    BY AroundJobs
  <2>3. Room(job'[p], c) = Room(job[p], c) /\ Room(job[p], c) \in Int
    BY <2>1, <2>2 DEF Room, Given, InHand
  <2> QED
    BY <2>2, <2>3 DEF InHand
<1>4. \/ refusals'[c] = 0
      \/ /\ refusals'[c] = refusals[c]
         /\ camp'[c] = "sending" => camp[c] = "sending"
         /\ camp'[c] \in Unstarted => camp[c] \in Unstarted
  <2>1. ASSUME NEW d \in Campaigns, Pause(d) \/ Cancel(d) \/ Reschedule(d) \/ Elapse(d)
        PROVE  /\ refusals' = refusals
               /\ camp'[c] = "sending" => camp[c] = "sending"
               /\ camp'[c] \in Unstarted => camp[c] \in Unstarted
    BY <2>1 DEF Pause, Cancel, Reschedule, Elapse, Move, Unstarted, Scheduled, IInv, TypeOK
  <2>2. ASSUME NEW d \in Campaigns, StartNow(d)
        PROVE  \/ refusals'[c] = 0
               \/ refusals' = refusals /\ camp'[c] = camp[c]
    BY <2>2 DEF StartNow, Move, Patient, Unstarted, IInv, TypeOK
  <2>3. ASSUME NEW d \in Campaigns, Resume(d)
        PROVE  \/ refusals'[c] = 0
               \/ refusals'[c] = refusals[c] /\ camp'[c] = camp[c]
    BY <2>3 DEF Resume, Move, IInv, TypeOK
  <2>4. ASSUME \/ \E d \in Campaigns : Block(d)
               \/ \E a \in Addresses : OptOut(a)
               \/ Tick \/ NewMinute \/ NewDay \/ UNCHANGED vars
        PROVE  refusals' = refusals /\ camp' = camp
    BY <2>4 DEF Block, OptOut, Tick, NewMinute, NewDay, vars, history
  <2> QED
    BY <2>1, <2>2, <2>3, <2>4 DEF Next, People
<1>5. faults' >= faults
  BY <1>2, ConstantsAssumption DEF IInv, TypeOK
<1> QED
  BY <1>1, <1>3, <1>4, <1>5, QuietPatient, ResetPatient

Streaks ==
    /\ \A p \in Runners : Passing(job[p]) /\ Calm(job[p])
    /\ Known /\ Orderly
    /\ \A c \in Campaigns : Patient(c)

LEMMA StreaksInit == Init => Streaks
<1> SUFFICES ASSUME Init PROVE Streaks
  OBVIOUS
<1>1. \A p \in Runners : job[p] = IdleJob
  BY DEF Init
<1>2. \A p \in Runners : Passing(job[p]) /\ Calm(job[p]) /\ ~InHand(job[p]) /\ job[p].runnable = {}
  BY <1>1, ConstantsAssumption DEF IdleJob, Passing, Calm, InHand
<1>3. \A c \in Campaigns, a \in Addresses : Seen[<<c, a>>] = "none"
  BY DEF Init, Seen, Doubt, Rows
<1>4. Orderly
  BY <1>2, <1>3 DEF Orderly, Ascending, Behind, Breaks
<1>5. ASSUME NEW c \in Campaigns PROVE Patient(c)
  <2>1. /\ Stretch(c) \in Nat /\ Streak \in Nat \ {0} /\ Most \in Nat
        /\ Cardinality(Tail(Seen, c)) \in Nat
    BY StretchType, CountTypes, InitInv
  <2>2. refusals[c] = 0 /\ camp[c] = "none"
    BY DEF Init
  <2>3. ASSUME NEW p \in Runners PROVE Room(job[p], c) = Most
    BY <1>1, <1>2 DEF Room, IdleJob
  <2> QED
    BY <2>1, <2>2, <2>3 DEF Patient
<1> QED
  BY <1>2, <1>4, <1>5 DEF Streaks, Known

LEMMA StreaksNext ==
    ASSUME IInv, IInv', OneRun, Streaks, [Next]_vars
    PROVE  Streaks'
<1>1. Known' /\ Orderly'
  BY KnownNext, OrderlyNext DEF Streaks
<1>2. ASSUME NEW p \in Runners, Run(p) \/ CutShort(p)
      PROVE  /\ \A q \in Runners : Passing(job'[q]) /\ Calm(job'[q])
             /\ \A c \in Campaigns : Patient(c)'
  <2>1. /\ Passing(job'[p]) /\ Calm(job'[p])
        /\ \A q \in Runners \ {p} : job'[q] = job[q]
    BY <1>2, PassingStep, CalmStep DEF Streaks
  <2>2. \A c \in Campaigns : StepFor(p, c)
    BY <2>1 DEF StepFor, Streaks
  <2> QED
    BY <1>2, <2>1, <2>2, RunPatient DEF Streaks
<1>3. CASE ~\E p \in Runners : Run(p) \/ CutShort(p)
  <2>1. ASSUME NEW p \in Runners PROVE Passing(job'[p]) /\ Calm(job'[p])
    BY <1>3, AroundJobs DEF Streaks, Passing, Calm, InHand
  <2>2. \A c \in Campaigns : Patient(c)'
    BY <1>3, CreatePatient, AroundPatient DEF Streaks
  <2> QED
    BY <1>1, <2>1, <2>2 DEF Streaks
<1> QED
  BY <1>1, <1>2, <1>3 DEF Streaks

\* As long as no two runs overlap, a campaign whose emails are all refused is paused
\* before twice the streak; every failure, run cut short or missing value lets it begin
\* once more.
THEOREM StopsItselfAlways == Spec /\ []OneRun => []StopsItself
<1>1. Streaks /\ IInv => StopsItself
  <2> SUFFICES ASSUME Streaks, IInv, NEW c \in Campaigns
               PROVE  refusals[c] <= (2 * Streak - 1) * (1 + faults + Cardinality(Missing(c)))
    BY DEF StopsItself
  <2>1. Missing(c) = Lacking(Seen, c)
    <3>1. \A a \in Addresses : <<c, a>> \in Rows
      BY DEF Rows
    <3>2. \A r \in Rows : Seen[r] = "missing" <=> row[r] = "missing"
      BY SeenType
    <3> QED
      BY <3>1, <3>2 DEF Missing, Lacking
  <2> DEFINE n == faults + Cardinality(Lacking(Seen, c))
  <2>2. n \in Nat /\ 1 + faults + Cardinality(Lacking(Seen, c)) = n + 1
    BY CountTypes, ConstantsAssumption DEF IInv, TypeOK
  <2>3. refusals[c] <= Most * n + Most /\ refusals[c] \in Nat /\ Most \in Nat
    BY StretchType DEF Streaks, Patient, Stretch, IInv, TypeOK
  <2> HIDE DEF n
  <2>4. Most * n \in Nat /\ Most * (n + 1) \in Nat /\ Most * (n + 1) >= Most * n + Most
    BY <2>2, <2>3, Longer
  <2>5. refusals[c] <= Most * (n + 1)
    BY <2>3, <2>4
  <2> QED
    BY <2>1, <2>2, <2>5 DEF Most
<1> QED
  BY <1>1, StreaksInit, StreaksNext, Invariant, PTL DEF Spec
=============================================================================
