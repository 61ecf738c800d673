---------------------------- MODULE XhsJobsProofs ----------------------------
(***************************************************************************)
(* Proofs about XhsJobs, for any workers, lanes, callers, notes, parts and *)
(* bounds.                                                                 *)
(***************************************************************************)
EXTENDS XhsJobs, FiniteSetTheorems, TLAPS

-----------------------------------------------------------------------------
(* Rows: what each change of a row gives.                                  *)

LEMMA RowAbsent ==
    ASSUME NEW N \in SUBSET Note
    PROVE  LET row == [Absent EXCEPT !.status = "pending", !.notes = N] IN
           /\ row \in Row /\ row.status = "pending" /\ row.notes = N
           /\ row.by = 0
BY DEF Absent, Row

LEMMA RowUnclaimed ==
    ASSUME NEW row \in Row
    PROVE  /\ Unclaimed(row) \in Row /\ Unclaimed(row).status = "pending"
           /\ Unclaimed(row).notes = row.notes /\ Unclaimed(row).by = row.by
BY DEF Unclaimed, Row

LEMMA RowClaimed ==
    ASSUME NEW row \in Row
    PROVE  /\ Claimed(row) \in Row /\ Claimed(row).status = "processing"
           /\ Claimed(row).token = Claimed(row).taken
           /\ Claimed(row).notes = row.notes /\ Claimed(row).by = row.by
<1>1. row.taken + 1 \in Nat /\ row.attempts + 1 \in Nat
  BY DEF Row
<1> QED BY <1>1 DEF Claimed, Row

Statuses == {"none", "pending", "processing", "ready", "completed", "sent", "failed"}

LEMMA RowDone ==
    ASSUME NEW row \in Row, NEW s \in Statuses, NEW t \in Nat
    PROVE  /\ Done(row, s, t) \in Row /\ Done(row, s, t).status = s
           /\ Done(row, s, t).by = t /\ Done(row, s, t).taken = row.taken
           /\ Done(row, s, t).notes = row.notes
BY DEF Done, Row, Statuses

LEMMA RowStatus ==
    ASSUME NEW row \in Row, NEW s \in Statuses
    PROVE  LET next == [row EXCEPT !.status = s] IN
           /\ next \in Row /\ next.status = s /\ next.by = row.by
           /\ next.taken = row.taken /\ next.notes = row.notes
BY DEF Row, Statuses

-----------------------------------------------------------------------------
(* The table of jobs: every action leaves it alone, or changes one row, or,  *)
(* completing a screening, adds the summary as well.                         *)

\* The row of job j becomes r.
Sets(j, r) == jobs' = [jobs EXCEPT ![j] = r]

\* What may become of one row of the table, as far as the invariants see it.
New(j) == /\ jobs[j].status = "none" /\ j # "summary"
          /\ jobs'[j].status = "pending"
          /\ j = "filter" => \E c \in Caller : caller[c] = "queue" /\ caller'[c] = "idle"
Reopened(j) == /\ jobs[j].status = "failed"
               /\ jobs'[j].status = "pending"
               /\ jobs'[j].notes = jobs[j].notes
Taken(j) == /\ jobs[j].status \in {"pending", "processing"}
            /\ jobs'[j].status = "processing"
            /\ jobs'[j].token = jobs'[j].taken
            /\ jobs'[j].notes = jobs[j].notes
Written(j) == /\ jobs[j].status = "processing"
              /\ jobs'[j].status = IF j = "single" /\ ~wanted THEN "completed" ELSE "ready"
              /\ jobs'[j].by = jobs[j].token
              /\ jobs'[j].taken = jobs[j].taken
              /\ jobs'[j].notes = jobs[j].notes
              /\ j # "filter"
Failed(j) == /\ jobs[j].status = "processing"
             /\ jobs'[j].status \in {"failed", "pending"}
             /\ jobs'[j].notes = jobs[j].notes
Asked(j) == /\ j = "single" /\ jobs[j].status = "completed" /\ wanted'
            /\ jobs'[j].status = "ready"
            /\ jobs'[j].by = jobs[j].by /\ jobs'[j].taken = jobs[j].taken
            /\ jobs'[j].notes = jobs[j].notes
Mailed(j) == /\ jobs[j].status = "ready"
             /\ mail.at = "part" /\ mail.job = j /\ mail.part > mail.last
             /\ jobs'[j].status = "sent"
             /\ jobs'[j].by = jobs[j].by /\ jobs'[j].taken = jobs[j].taken
             /\ jobs'[j].notes = jobs[j].notes

OneRow(j) == /\ jobs' \in [Job -> Row]
             /\ \A k \in Job \ {j} : jobs'[k] = jobs[k]

\* The screening is completed, with the summary of what it included.
Screened ==
    /\ jobs' \in [Job -> Row]
    /\ jobs["filter"].status = "processing"
    /\ jobs'["filter"].status = "completed"
    /\ jobs'["filter"].by = jobs["filter"].token
    /\ jobs'["filter"].taken = jobs["filter"].taken
    /\ jobs'["single"] = jobs["single"]
    /\ \E d \in [jobs["filter"].notes -> Decision] :
         LET included == {n \in DOMAIN d : d[n] = "include"} IN
         /\ decided' = [n \in Note |-> IF n \in DOMAIN d THEN d[n] ELSE decided[n]]
         /\ run' = IF included # {} THEN "summary_queued" ELSE "filtered"
         /\ IF included # {} /\ jobs["summary"].status = "none"
            THEN jobs'["summary"].status = "pending" /\ jobs'["summary"].notes = included
            ELSE jobs'["summary"] = jobs["summary"]

\* A step as the table of jobs, the decisions and the wish see it.
JobsStep ==
    /\ \/ UNCHANGED <<jobs, decided>>
       \/ Screened
       \/ /\ UNCHANGED decided
          /\ \E j \in Job :
               /\ OneRow(j)
               /\ New(j) \/ Reopened(j) \/ Taken(j) \/ Written(j) \/ Failed(j) \/ Asked(j) \/ Mailed(j)
    /\ wanted' # wanted => wanted' /\ jobs'["single"].status # "completed"

LEMMA JobNames == "filter" \in Job /\ "summary" \in Job /\ "single" \in Job
BY DEF Job

LEMMA SetRow ==
    ASSUME jobs \in [Job -> Row], NEW j \in Job, NEW r \in Row, Sets(j, r)
    PROVE  OneRow(j) /\ jobs'[j] = r
BY DEF Sets, OneRow

LEMMA PartNumbers == TextParts \in Nat /\ TextParts >= 1 /\ LinkParts \in Nat
<1>1. TextParts \in Nat \ {0} /\ LinkParts \in Nat
  BY Zenon, XhsAssumption
<1> QED BY <1>1

LEMMA Constants ==
    /\ Idle \in [at : {"idle", "work", "fail"}, job : Job, token : Nat]
    /\ Resting \in [at : {"rest", "part", "record", "ended"}, batch : SUBSET Job, job : Job,
                    part : Nat, last : 0 .. TextParts + LinkParts]
    /\ Absent \in Row
BY PartNumbers DEF Idle, Resting, Absent, Row, Job

LEMMA InitTypes == Init => TypeOK
<1> SUFFICES ASSUME Init PROVE TypeOK
  OBVIOUS
<1>1. jobs \in [Job -> Row]
  BY Constants DEF Init
<1>2. worker \in [Worker -> [at : {"idle", "work", "fail"}, job : Job, token : Nat]]
  BY Constants DEF Init
<1>3. mail \in [at : {"rest", "part", "record", "ended"}, batch : SUBSET Job, job : Job,
                part : Nat, last : 0 .. TextParts + LinkParts]
  BY Constants DEF Init
<1> QED BY <1>1, <1>2, <1>3 DEF Init, TypeOK

\* The steps of a recommendation call.
LEMMA RecommendTypes ==
    ASSUME TypeOK, NEW c \in Caller, Recommend(c)
    PROVE  TypeOK' /\ JobsStep
<1>1. CASE Call(c)
  BY <1>1 DEF Call, TypeOK, JobsStep, jobVars, mailVars
<1>2. CASE CreateRun(c)
  BY <1>2 DEF CreateRun, TypeOK, JobsStep, mailVars, bounds
<1>3. ASSUME NEW n \in Note, AddItem(c, n) PROVE TypeOK' /\ JobsStep
  BY <1>3 DEF AddItem, TypeOK, JobsStep, mailVars, bounds
<1>4. CASE FinishCollection(c)
  BY <1>4 DEF FinishCollection, Trouble, TypeOK, JobsStep, mailVars
<1>5. CASE QueueFilter(c)
  <2> DEFINE r == [Absent EXCEPT !.status = "pending", !.notes = items]
  <2>1. CASE jobs["filter"].status = "none"
    <3>1. Sets("filter", r)
      BY <1>5, <2>1 DEF QueueFilter, NewJob, Sets, TypeOK, Job
    <3>2. r \in Row /\ r.status = "pending"
      BY RowAbsent DEF TypeOK
    <3> HIDE DEF r
    <3>3. OneRow("filter") /\ jobs'["filter"] = r
      BY <3>1, <3>2, SetRow, JobNames DEF TypeOK
    <3>4. JobsStep
      <4>1. caller[c] = "queue" /\ caller'[c] = "idle"
        BY <1>5 DEF QueueFilter, TypeOK
      <4> QED BY <1>5, <2>1, <3>2, <3>3, <4>1, JobNames DEF QueueFilter, JobsStep, New
    <3> QED BY <1>5, <2>1, <3>3, <3>4 DEF QueueFilter, TypeOK, OneRow, mailVars, bounds
  <2>2. CASE jobs["filter"].status # "none"
    BY <1>5, <2>2 DEF QueueFilter, TypeOK, JobsStep, mailVars, bounds
  <2> QED BY <2>1, <2>2
<1>6. CASE QueueFilterRaises(c)
  BY <1>6 DEF QueueFilterRaises, Trouble, TypeOK, JobsStep, jobVars, mailVars
<1> QED BY <1>1, <1>2, <1>3, <1>4, <1>5, <1>6 DEF Recommend

\* What operators ask for.
LEMMA RetryTypes ==
    ASSUME TypeOK, RetryFilter
    PROVE  TypeOK' /\ JobsStep
<1> DEFINE r == Unclaimed(jobs["filter"])
<1>1. Sets("filter", r)
  BY JobNames DEF RetryFilter, Sets, TypeOK
<1>2. r \in Row /\ r.status = "pending" /\ r.notes = jobs["filter"].notes
  BY RowUnclaimed, JobNames DEF TypeOK
<1> HIDE DEF r
<1>3. OneRow("filter") /\ jobs'["filter"] = r
  BY <1>1, <1>2, SetRow, JobNames DEF TypeOK
<1>4. JobsStep
  BY <1>2, <1>3, JobNames DEF RetryFilter, JobsStep, Reopened
<1> QED BY <1>3, <1>4 DEF RetryFilter, Ask, TypeOK, OneRow, mailVars

LEMMA EnqueueTypes ==
    ASSUME TypeOK, NEW deliver \in BOOLEAN, EnqueueSingle(deliver)
    PROVE  TypeOK' /\ JobsStep
<1> DEFINE row == jobs["single"]
           want == wanted \/ deliver
<1>0. row \in Row /\ want \in BOOLEAN
  BY JobNames DEF TypeOK
<1>1. CASE row.status = "none"
  <2> DEFINE r == [Absent EXCEPT !.status = "pending", !.notes = {}]
  <2>1. Sets("single", r)
    BY <1>1, JobNames DEF EnqueueSingle, NewJob, Sets
  <2>2. r \in Row /\ r.status = "pending"
    BY RowAbsent
  <2> HIDE DEF r
  <2>3. OneRow("single") /\ jobs'["single"] = r
    BY <2>1, <2>2, SetRow, JobNames DEF TypeOK
  <2>4. JobsStep
    BY <1>1, <2>2, <2>3, JobNames DEF EnqueueSingle, JobsStep, New, TypeOK
  <2> QED BY <1>0, <2>3, <2>4 DEF EnqueueSingle, Ask, TypeOK, OneRow, mailVars
<1>2. CASE row.status = "failed"
  <2> DEFINE r == Unclaimed(row)
  <2>1. Sets("single", r)
    BY <1>2, JobNames DEF EnqueueSingle, Sets
  <2>2. r \in Row /\ r.status = "pending" /\ r.notes = row.notes
    BY <1>0, RowUnclaimed
  <2> HIDE DEF r
  <2>3. OneRow("single") /\ jobs'["single"] = r
    BY <2>1, <2>2, SetRow, JobNames DEF TypeOK
  <2>4. JobsStep
    BY <1>2, <2>2, <2>3, JobNames DEF EnqueueSingle, JobsStep, Reopened, TypeOK
  <2> QED BY <1>0, <2>3, <2>4 DEF EnqueueSingle, Ask, TypeOK, OneRow, mailVars
<1>3. CASE row.status = "completed" /\ want
  <2> DEFINE r == [row EXCEPT !.status = "ready"]
  <2>1. Sets("single", r)
    BY <1>3, JobNames DEF EnqueueSingle, Sets
  <2>2. /\ r \in Row /\ r.status = "ready" /\ r.notes = row.notes
        /\ r.by = row.by /\ r.taken = row.taken
    BY <1>0, RowStatus DEF Statuses
  <2> HIDE DEF r
  <2>3. OneRow("single") /\ jobs'["single"] = r
    BY <2>1, <2>2, SetRow, JobNames DEF TypeOK
  <2>4. JobsStep
    BY <1>3, <2>2, <2>3, JobNames DEF EnqueueSingle, JobsStep, Asked, TypeOK
  <2> QED BY <1>0, <2>3, <2>4 DEF EnqueueSingle, Ask, TypeOK, OneRow, mailVars
<1>4. CASE row.status \notin {"none", "failed"} /\ ~(row.status = "completed" /\ want)
  BY <1>0, <1>4 DEF EnqueueSingle, Ask, JobsStep, TypeOK, mailVars
<1> QED BY <1>1, <1>2, <1>3, <1>4

-----------------------------------------------------------------------------
(* The steps of a worker, and its call carried out late.                     *)

Worked == [at : {"idle", "work", "fail"}, job : Job, token : Nat]

LEMMA ClaimTypes ==
    ASSUME TypeOK, NEW w \in Worker, NEW j \in Job, Claim(w, j)
    PROVE  TypeOK' /\ JobsStep
<1> DEFINE r == Claimed(jobs[j])
<1>0. jobs[j] \in Row
  BY DEF TypeOK
<1>1. Sets(j, r)
  BY DEF Claim, Sets
<1>2. /\ r \in Row /\ r.status = "processing" /\ r.token = r.taken
      /\ r.notes = jobs[j].notes
  BY <1>0, RowClaimed
<1> HIDE DEF r
<1>3. OneRow(j) /\ jobs'[j] = r
  BY <1>1, <1>2, SetRow DEF TypeOK
<1>4. JobsStep
  BY <1>2, <1>3 DEF Claim, Claimable, JobsStep, Taken
<1>5. worker' \in [Worker -> Worked]
  <2> DEFINE x == [at |-> "work", job |-> j, token |-> jobs[j].taken + 1]
  <2>1. x \in Worked
    BY <1>0 DEF Row, Worked
  <2>2. worker' = [worker EXCEPT ![w] = x] \/ worker' = worker
    BY DEF Claim
  <2> HIDE DEF x
  <2> QED BY <2>1, <2>2 DEF TypeOK, Worked
<1>6. trouble' \in Nat
  <2>1. trouble' = trouble \/ trouble' = trouble + 1
    BY Zenon DEF Claim, Trouble
  <2> QED BY <2>1 DEF TypeOK
<1>7. leased' \subseteq Job /\ UNCHANGED <<run, items, decided, wanted, caller, late, mailVars, calls, asks>>
  BY DEF Claim, TypeOK
<1> QED BY <1>3, <1>4, <1>5, <1>6, <1>7 DEF TypeOK, OneRow, mailVars, Worked

LEMMA CompleteTypes ==
    ASSUME TypeOK, NEW j \in Job, NEW t \in Nat, Complete(j, t)
    PROVE  /\ jobs' \in [Job -> Row] /\ leased' \subseteq Job
           /\ decided' \in [Note -> Decision \cup {"none"}]
           /\ run' \in {"none", "running", "collected", "failed", "filter_queued", "filter_failed",
                        "filtered", "summary_queued", "summary_ready", "sent"}
           /\ UNCHANGED <<items, wanted>>
           /\ JobsStep
<1>0. jobs[j] \in Row /\ jobs["summary"] \in Row
  BY JobNames DEF TypeOK
<1>1. CASE j # "filter"
  <2> DEFINE s == IF j = "single" /\ ~wanted THEN "completed" ELSE "ready"
             r == Done(jobs[j], s, t)
  <2>1. CompleteText(j, t)
    BY <1>1 DEF Complete
  <2>2. Sets(j, r)
    BY <2>1 DEF CompleteText, Sets
  <2>3. r \in Row /\ r.status = s /\ r.by = t /\ r.taken = jobs[j].taken /\ r.notes = jobs[j].notes
    <3>1. s \in Statuses
      BY DEF Statuses
    <3> HIDE DEF s
    <3> QED BY <1>0, <3>1, RowDone
  <2> HIDE DEF r
  <2>4. OneRow(j) /\ jobs'[j] = r
    BY <2>2, <2>3, SetRow DEF TypeOK
  <2>5. Written(j)
    BY <1>1, <2>1, <2>3, <2>4 DEF CompleteText, MayComplete, Holds, Written
  <2>6. JobsStep
    BY <2>1, <2>4, <2>5 DEF CompleteText, JobsStep
  <2> QED BY <2>1, <2>4, <2>6 DEF CompleteText, OneRow, TypeOK
<1>2. CASE j = "filter"
  <2>1. CompleteFilter(t)
    BY <1>2 DEF Complete
  <2> DEFINE f == jobs["filter"]  old == jobs["summary"]
  <2>2. PICK d \in [f.notes -> Decision] :
          LET included == {n \in DOMAIN d : d[n] = "include"}
              summarise == included # {} /\ jobs["summary"].status = "none"
          IN
          /\ decided' = [n \in Note |-> IF n \in DOMAIN d THEN d[n] ELSE decided[n]]
          /\ jobs' = [k \in Job |->
                        CASE k = "filter" -> Done(jobs[k], "completed", t)
                          [] k = "summary" /\ summarise ->
                               [Absent EXCEPT !.status = "pending", !.notes = included]
                          [] OTHER -> jobs[k]]
          /\ run' = IF included # {} THEN "summary_queued" ELSE "filtered"
    BY <2>1 DEF CompleteFilter
  <2> DEFINE included == {n \in DOMAIN d : d[n] = "include"}
             new == [Absent EXCEPT !.status = "pending", !.notes = included]
             r == IF included # {} /\ old.status = "none" THEN new ELSE old
             done == Done(f, "completed", t)
  <2>3. included \subseteq Note
    BY <1>0, <1>2 DEF Row
  <2>4. new \in Row /\ new.status = "pending" /\ new.notes = included
    <3> HIDE DEF included
    <3> QED BY <2>3, RowAbsent
  <2>5. /\ done \in Row /\ done.status = "completed" /\ done.by = t
        /\ done.taken = f.taken
    <3>1. "completed" \in Statuses
      BY DEF Statuses
    <3> QED BY <1>0, <1>2, <3>1, RowDone
  <2>6. jobs' = [k \in Job |-> CASE k = "filter" -> done [] k = "summary" -> r [] OTHER -> jobs[k]]
    BY <2>2
  <2>7. /\ jobs' \in [Job -> Row] /\ jobs'["filter"] = done /\ jobs'["summary"] = r
        /\ jobs'["single"] = jobs["single"]
    <3> HIDE DEF new, done
    <3> QED BY <1>0, <2>4, <2>5, <2>6, JobNames DEF TypeOK
  <2>8. decided' = [n \in Note |-> IF n \in DOMAIN d THEN d[n] ELSE decided[n]]
        /\ run' = IF included # {} THEN "summary_queued" ELSE "filtered"
    BY <2>2
  <2>9. Screened
    <3>1. f.status = "processing" /\ t = f.token
      BY <2>1 DEF CompleteFilter, MayComplete, Holds
    <3> HIDE DEF new, done
    <3>2. IF included # {} /\ old.status = "none"
          THEN jobs'["summary"].status = "pending" /\ jobs'["summary"].notes = included
          ELSE jobs'["summary"] = old
      BY <2>4, <2>7
    <3> QED BY <2>5, <2>7, <2>8, <3>1, <3>2 DEF Screened
  <2>10. decided' \in [Note -> Decision \cup {"none"}]
    BY <2>8 DEF TypeOK
  <2>11. UNCHANGED <<items, wanted>> /\ leased' \subseteq Job
    BY <2>1 DEF CompleteFilter, TypeOK
  <2>12. run' \in {"summary_queued", "filtered"}
    BY <2>8
  <2>13. JobsStep
    BY <2>9, <2>11 DEF JobsStep
  <2> QED BY <2>7, <2>10, <2>11, <2>12, <2>13
<1> QED BY <1>1, <1>2

LEMMA WorkTypes ==
    ASSUME TypeOK, NEW w \in Worker, Work(w)
    PROVE  TypeOK' /\ JobsStep
<1> DEFINE j == worker[w].job
           t == worker[w].token
<1>0. j \in Job /\ t \in Nat /\ jobs[j] \in Row
  BY DEF TypeOK
<1>1. ASSUME NEW k \in Job, Claim(w, k) PROVE TypeOK' /\ JobsStep
  BY <1>1, ClaimTypes
<1>2. CASE Finish(w)
  <2>1. worker' \in [Worker -> Worked]
    BY <1>2, Constants DEF Finish, TypeOK, Worked
  <2>2. CASE Complete(j, t)
    <3>1. /\ jobs' \in [Job -> Row] /\ leased' \subseteq Job
          /\ decided' \in [Note -> Decision \cup {"none"}]
          /\ run' \in {"none", "running", "collected", "failed", "filter_queued", "filter_failed",
                       "filtered", "summary_queued", "summary_ready", "sent"}
          /\ UNCHANGED <<items, wanted>>
          /\ JobsStep
      BY <1>0, <2>2, CompleteTypes
    <3> QED BY <1>2, <2>1, <3>1 DEF Finish, TypeOK, mailVars, bounds, Worked
  <2>3. CASE Refused(j, t)
    BY <1>2, <2>1, <2>3 DEF Finish, Refused, JobsStep, TypeOK, jobVars, mailVars, bounds, Worked
  <2> QED BY <1>2, <2>2, <2>3 DEF Finish
<1>3. CASE GiveUp(w)
  <2>1. worker' \in [Worker -> Worked]
    BY <1>3 DEF GiveUp, TypeOK, Worked
  <2>2. late' \subseteq [job : Job, token : Nat]
    BY <1>0, <1>3 DEF GiveUp, TypeOK
  <2> QED BY <1>3, <2>1, <2>2 DEF GiveUp, Trouble, JobsStep, TypeOK, jobVars, mailVars, Worked
<1>4. CASE Fail(w)
  <2>1. worker' \in [Worker -> Worked]
    BY <1>4, Constants DEF Fail, TypeOK, Worked
  <2>2. CASE Holds(j, t)
    <3> DEFINE s == IF jobs[j].attempts >= MaxAttempts THEN "failed" ELSE "pending"
               r == [jobs[j] EXCEPT !.status = s]
    <3>1. Sets(j, r)
      BY <1>4, <2>2 DEF Fail, Sets
    <3>2. s \in {"failed", "pending"}
      OBVIOUS
    <3> HIDE DEF s
    <3>3. s \in Statuses
      BY <3>2 DEF Statuses
    <3>4. r \in Row /\ r.status = s /\ r.notes = jobs[j].notes
      BY <1>0, <3>3, RowStatus
    <3> HIDE DEF r
    <3>5. OneRow(j) /\ jobs'[j] = r
      BY <1>0, <3>1, <3>4, SetRow DEF TypeOK
    <3>6. Failed(j)
      BY <2>2, <3>4, <3>2, <3>5 DEF Failed, Holds
    <3>7. JobsStep
      BY <1>0, <1>4, <3>5, <3>6 DEF Fail, JobsStep
    <3>8. leased' \subseteq Job
      BY <1>4, <2>2 DEF Fail, TypeOK
    <3>9. run' \in {run, "filter_failed"}
      BY <1>4, <2>2 DEF Fail
    <3> QED BY <1>4, <2>1, <3>5, <3>7, <3>8, <3>9 DEF Fail, OneRow, TypeOK, mailVars, bounds, Worked
  <2>3. CASE ~Holds(j, t)
    BY <1>4, <2>1, <2>3 DEF Fail, JobsStep, TypeOK, mailVars, bounds, Worked
  <2> QED BY <2>2, <2>3
<1>5. CASE Vanish(w)
  <2>1. worker' \in [Worker -> Worked]
    BY <1>5, Constants DEF Vanish, TypeOK, Worked
  <2> QED BY <1>5, <2>1 DEF Vanish, Trouble, JobsStep, TypeOK, jobVars, mailVars, Worked
<1> QED BY <1>1, <1>2, <1>3, <1>4, <1>5 DEF Work

LEMMA LateTypes ==
    ASSUME TypeOK, NEW m \in late, CompleteLate(m)
    PROVE  TypeOK' /\ JobsStep
<1>0. m.job \in Job /\ m.token \in Nat
  BY DEF TypeOK
<1>1. late' \subseteq [job : Job, token : Nat]
  BY DEF CompleteLate, TypeOK
<1>2. CASE Complete(m.job, m.token)
  <2>1. /\ jobs' \in [Job -> Row] /\ leased' \subseteq Job
        /\ decided' \in [Note -> Decision \cup {"none"}]
        /\ run' \in {"none", "running", "collected", "failed", "filter_queued", "filter_failed",
                     "filtered", "summary_queued", "summary_ready", "sent"}
        /\ UNCHANGED <<items, wanted>>
        /\ JobsStep
    BY <1>0, <1>2, CompleteTypes
  <2> QED BY <1>1, <2>1 DEF CompleteLate, TypeOK, mailVars, bounds
<1>3. CASE Refused(m.job, m.token)
  BY <1>1, <1>3 DEF CompleteLate, Refused, JobsStep, TypeOK, jobVars, mailVars, bounds
<1> QED BY <1>2, <1>3 DEF CompleteLate

LEMMA LapseTypes ==
    ASSUME TypeOK, NEW j \in Job, LapseLease(j)
    PROVE  TypeOK' /\ JobsStep
BY DEF LapseLease, Trouble, JobsStep, TypeOK, mailVars

-----------------------------------------------------------------------------
(* The delivery loop and the restart of the edge.                            *)

Cursor == [at : {"rest", "part", "record", "ended"}, batch : SUBSET Job, job : Job,
           part : Nat, last : 0 .. TextParts + LinkParts]

\* The part before the loop is one of the message's parts.
AtPart ==
    /\ mail.at \in {"part", "record"} => mail.part >= 1 /\ mail.last >= TextParts
    /\ mail.at = "record" => mail.part \in Part /\ mail.part <= mail.last
Types == TypeOK /\ AtPart

LEMMA DeliverTypes ==
    ASSUME Types, Deliver
    PROVE  Types' /\ JobsStep
<1>d. TextParts \in Nat /\ TextParts >= 1 /\ LinkParts \in Nat
  BY PartNumbers
<1>e. mail \in Cursor
  BY DEF Types, TypeOK, Cursor
<1>0. /\ mail \in Cursor /\ mail.job \in Job /\ mail.part + 1 \in Nat
      /\ mail.part \in Nat /\ mail.last \in Nat /\ mail.last <= TextParts + LinkParts
  BY <1>d, <1>e DEF Cursor
<1>a. Next1 \in Cursor /\ Next1.at = "part" /\ Next1.part = mail.part + 1 /\ Next1.last = mail.last
  BY <1>0 DEF Next1, Cursor
<1>b. /\ GivenUp \in Cursor /\ GivenUp.at = "rest"
      /\ Ended \in Cursor /\ Ended.at = "ended"
  BY <1>0, Constants DEF GivenUp, Resting, Ended, Cursor
<1>c. ASSUME mail.at = "part", mail.part <= mail.last PROVE mail.part \in Part
  <2>1. mail.part >= 1
    BY <1>c DEF Types, AtPart
  <2>2. mail.last <= TextParts + LinkParts
    BY <1>0
  <2> QED BY <1>0, <1>c, <1>d, <2>1, <2>2 DEF Part
<1>1. CASE Look
  <2>1. mail' \in Cursor /\ mail'.at = "rest"
    BY <1>0, <1>1 DEF Look, Cursor
  <2> QED BY <1>1, <2>1 DEF Look, Types, TypeOK, AtPart, JobsStep, Cursor, jobVars, bounds
<1>2. ASSUME NEW j \in Job, Open(j) PROVE Types' /\ JobsStep
  <2>1. mail' \in Cursor /\ mail'.at = "part" /\ mail'.part = 1 /\ mail'.last >= TextParts
    <3>1. PICK k \in TextParts .. TextParts + LinkParts :
            mail' = [at |-> "part", batch |-> mail.batch \ {j}, job |-> j, part |-> 1, last |-> k]
      BY <1>2 DEF Open
    <3>2. k \in 0 .. TextParts + LinkParts /\ k >= TextParts
      BY <1>d
    <3>3. mail.batch \ {j} \subseteq Job
      BY <1>e DEF Cursor
    <3> QED BY <3>1, <3>2, <3>3 DEF Cursor
  <2> QED BY <1>2, <2>1 DEF Open, Types, TypeOK, AtPart, JobsStep, Cursor, jobVars, bounds
<1>3. CASE SkipPart
  <2>1. AtPart'
    BY <1>0, <1>3, <1>a DEF SkipPart, Types, AtPart
  <2> QED BY <1>3, <1>a, <2>1 DEF SkipPart, Types, TypeOK, JobsStep, Cursor, jobVars, bounds
<1>4. CASE PostPart
  <2>1. mail' \in Cursor /\ mail'.at = "record" /\ mail'.part = mail.part /\ mail'.last = mail.last
    BY <1>0, <1>4 DEF PostPart, Cursor
  <2>2. mail.part \in Part /\ mail.part <= mail.last
    BY <1>4, <1>c DEF PostPart
  <2>3. AtPart'
    BY <1>4, <2>1, <2>2 DEF PostPart, Types, AtPart
  <2>4. /\ seen' \in [Job -> SUBSET Part] /\ refused' \in [Job -> SUBSET Part]
        /\ copies' \in Nat /\ trouble' \in Nat
    BY <1>0, <1>4, <2>2 DEF PostPart, Lands, IsRefused, Trouble, Types, TypeOK
  <2> QED BY <1>4, <2>1, <2>3, <2>4 DEF PostPart, Types, TypeOK, JobsStep, Cursor, jobVars
<1>5. CASE PostRaises
  <2>1. mail.part \in Part /\ mail.part <= mail.last
    BY <1>5, <1>c DEF PostRaises
  <2>2. /\ seen' \in [Job -> SUBSET Part] /\ refused' \in [Job -> SUBSET Part]
        /\ copies' \in Nat
    BY <1>0, <1>5, <2>1 DEF PostRaises, Lands, Types, TypeOK
  <2>3. AtPart' /\ mail' \in Cursor
    BY <1>5, <1>b DEF PostRaises, Caught, AtPart
  <2> QED BY <1>5, <2>2, <2>3 DEF PostRaises, Trouble, Types, TypeOK, JobsStep, Cursor, jobVars
<1>6. CASE RecordPart
  <2>1. AtPart'
    BY <1>0, <1>6, <1>a DEF RecordPart, Types, AtPart
  <2>2. parts' \in [Job -> SUBSET Part]
    BY <1>0, <1>6 DEF RecordPart, Types, TypeOK, AtPart
  <2> QED BY <1>6, <1>a, <2>1, <2>2 DEF RecordPart, Types, TypeOK, JobsStep, Cursor, jobVars, bounds
<1>7. CASE LookRaises \/ TryRaises
  <2>1. AtPart' /\ mail' \in Cursor
    BY <1>7, <1>b DEF LookRaises, TryRaises, Caught, AtPart
  <2> QED BY <1>7, <2>1 DEF LookRaises, TryRaises, Trouble, Types, TypeOK, JobsStep, Cursor, jobVars
<1>8. CASE Delivered
  <2> DEFINE j == mail.job
             r == [jobs[j] EXCEPT !.status = "sent"]
  <2>1. AtPart'
    BY <1>8, <1>b DEF Delivered, AtPart
  <2>2. CASE jobs[j].status = "ready"
    <3>1. Sets(j, r)
      BY <1>8, <2>2 DEF Delivered, Sets
    <3>2. /\ r \in Row /\ r.status = "sent" /\ r.by = jobs[j].by
          /\ r.taken = jobs[j].taken /\ r.notes = jobs[j].notes
      <4>1. "sent" \in Statuses /\ jobs[j] \in Row
        BY <1>0 DEF Statuses, Types, TypeOK
      <4> QED BY <4>1, RowStatus
    <3> HIDE DEF r
    <3>3. OneRow(j) /\ jobs'[j] = r
      BY <1>0, <3>1, <3>2, SetRow DEF Types, TypeOK
    <3>4. Mailed(j)
      BY <1>8, <2>2, <3>2, <3>3 DEF Delivered, Mailed
    <3>5. JobsStep
      BY <1>0, <1>8, <3>3, <3>4 DEF Delivered, JobsStep
    <3>6. run' \in {run, "sent"}
      BY <1>8 DEF Delivered
    <3> QED BY <1>8, <1>b, <2>1, <3>3, <3>5, <3>6 DEF Delivered, OneRow, Types, TypeOK, Cursor, bounds
  <2>3. CASE jobs[j].status # "ready"
    BY <1>8, <1>b, <2>1, <2>3 DEF Delivered, Types, TypeOK, JobsStep, Cursor, bounds
  <2> QED BY <2>2, <2>3
<1> QED BY <1>1, <1>2, <1>3, <1>4, <1>5, <1>6, <1>7, <1>8 DEF Deliver

LEMMA RestartTypes ==
    ASSUME Types, Restart
    PROVE  Types' /\ JobsStep
BY Constants DEF Restart, Trouble, Types, TypeOK, AtPart, JobsStep, Resting, jobVars

\* What is not the delivery loop leaves its place, its records and what the chat
\* has received alone.
LEMMA MailAlone ==
    ASSUME Types, TypeOK', UNCHANGED mailVars
    PROVE  Types'
BY DEF Types, AtPart, mailVars

LEMMA NextTypes ==
    ASSUME Types, Next
    PROVE  Types' /\ JobsStep
<1>0. TypeOK
  BY DEF Types
<1>1. ASSUME NEW c \in Caller, Recommend(c) PROVE Types' /\ JobsStep
  <2>1. TypeOK' /\ JobsStep
    BY <1>0, <1>1, RecommendTypes
  <2>2. UNCHANGED mailVars
    BY <1>1 DEF Recommend, Call, CreateRun, AddItem, FinishCollection, QueueFilter, QueueFilterRaises
  <2> QED BY <2>1, <2>2, MailAlone
<1>2. CASE RetryFilter
  BY <1>0, <1>2, RetryTypes, MailAlone DEF RetryFilter
<1>3. ASSUME NEW deliver \in BOOLEAN, EnqueueSingle(deliver) PROVE Types' /\ JobsStep
  <2>1. TypeOK' /\ JobsStep
    BY <1>0, <1>3, EnqueueTypes
  <2>2. UNCHANGED mailVars
    BY <1>3 DEF EnqueueSingle
  <2> QED BY <2>1, <2>2, MailAlone
<1>4. ASSUME NEW w \in Worker, Work(w) PROVE Types' /\ JobsStep
  <2>1. TypeOK' /\ JobsStep
    BY <1>0, <1>4, WorkTypes
  <2>2. UNCHANGED mailVars
    BY <1>4 DEF Work, Claim, Finish, GiveUp, Fail, Vanish
  <2> QED BY <2>1, <2>2, MailAlone
<1>5. ASSUME NEW m \in late, CompleteLate(m) PROVE Types' /\ JobsStep
  BY <1>0, <1>5, LateTypes, MailAlone DEF CompleteLate
<1>6. ASSUME NEW j \in Job, LapseLease(j) PROVE Types' /\ JobsStep
  BY <1>0, <1>6, LapseTypes, MailAlone DEF LapseLease
<1>7. CASE Deliver
  BY <1>7, DeliverTypes
<1>8. CASE Restart
  BY <1>8, RestartTypes
<1> QED BY <1>1, <1>2, <1>3, <1>4, <1>5, <1>6, <1>7, <1>8 DEF Next

LEMMA InitAll == Init => Types
BY InitTypes DEF Types, AtPart, Init, Resting

LEMMA StutterTypes ==
    ASSUME Types, UNCHANGED vars
    PROVE  Types' /\ JobsStep
BY DEF Types, TypeOK, AtPart, JobsStep, vars, jobVars, mailVars, bounds

LEMMA StepTypes ==
    ASSUME Types, [Next]_vars
    PROVE  Types' /\ JobsStep
BY NextTypes, StutterTypes

\* Every variable keeps its type, whatever calls are lost, late or repeated.
THEOREM XhsTypeCorrect == Spec => []TypeOK
<1>1. Types => TypeOK
  BY DEF Types
<1> QED BY InitAll, StepTypes, <1>1, PTL DEF Spec

-----------------------------------------------------------------------------
(* Results: a job is settled by its last claim.                              *)

\* A job in process has the token of its last claim, so whoever may complete it
\* is the one who claimed it last.
Tokens == \A j \in Job : jobs[j].status = "processing" => jobs[j].token = jobs[j].taken

LEMMA StepTokens ==
    ASSUME Types, Tokens, LastClaimSettles, Types', JobsStep
    PROVE  Tokens' /\ LastClaimSettles'
<1>1. CASE UNCHANGED <<jobs, decided>>
  BY <1>1 DEF Tokens, LastClaimSettles
<1>2. CASE Screened
  <2> SUFFICES ASSUME NEW j \in Job
               PROVE  /\ jobs'[j].status = "processing" => jobs'[j].token = jobs'[j].taken
                      /\ jobs'[j].status \in {"ready", "completed", "sent"} => jobs'[j].by = jobs'[j].taken
    BY DEF Tokens, LastClaimSettles
  <2>1. CASE j = "filter"
    BY <1>2, <2>1, JobNames DEF Screened, Tokens
  <2>2. CASE j = "single"
    BY <1>2, <2>2, JobNames DEF Screened, Tokens, LastClaimSettles
  <2>3. CASE j = "summary"
    <3>1. jobs'["summary"].status = "pending" \/ jobs'["summary"] = jobs["summary"]
      BY <1>2 DEF Screened
    <3> QED BY <2>3, <3>1, JobNames DEF Tokens, LastClaimSettles
  <2> QED BY <2>1, <2>2, <2>3 DEF Job
<1>3. ASSUME NEW j \in Job, OneRow(j),
             New(j) \/ Reopened(j) \/ Taken(j) \/ Written(j) \/ Failed(j) \/ Asked(j) \/ Mailed(j)
      PROVE  Tokens' /\ LastClaimSettles'
  <2>1. /\ jobs'[j].status = "processing" => jobs'[j].token = jobs'[j].taken
        /\ jobs'[j].status \in {"ready", "completed", "sent"} => jobs'[j].by = jobs'[j].taken
    BY <1>3 DEF New, Reopened, Taken, Written, Failed, Asked, Mailed, Tokens, LastClaimSettles
  <2> QED BY <1>3, <2>1 DEF OneRow, Tokens, LastClaimSettles
<1> QED BY <1>1, <1>2, <1>3 DEF JobsStep

\* A worker whose job was claimed by another never settles it.
THEOREM LastClaimWins == Spec => []LastClaimSettles
<1> DEFINE IInv == Types /\ Tokens /\ LastClaimSettles
<1>1. Init => IInv
  BY InitAll DEF Init, Absent, Tokens, LastClaimSettles
<1>2. IInv /\ [Next]_vars => IInv'
  BY StepTypes, StepTokens
<1>3. IInv => LastClaimSettles
  OBVIOUS
<1> QED BY <1>1, <1>2, <1>3, PTL DEF Spec

-----------------------------------------------------------------------------
(* The summary has what the screening included.                              *)

\* Until its job is completed the screening has decided nothing, and once it is
\* it stays completed: it is never ready for delivery.
Screening ==
    /\ jobs["filter"].status \notin {"ready", "sent"}
    /\ jobs["filter"].status # "completed" =>
         /\ jobs["summary"].status = "none"
         /\ \A n \in Note : decided[n] = "none"

LEMMA StepScreening ==
    ASSUME Types, Types', Screening, OnlyIncluded, JobsStep
    PROVE  Screening' /\ OnlyIncluded'
<1>0. jobs["filter"].notes \subseteq Note
  BY JobNames DEF Types, TypeOK, Row
<1>1. CASE UNCHANGED <<jobs, decided>>
  BY <1>1 DEF Screening, OnlyIncluded
<1>2. CASE Screened
  <2>1. jobs["summary"].status = "none" /\ \A n \in Note : decided[n] = "none"
    BY <1>2 DEF Screened, Screening
  <2>2. PICK d \in [jobs["filter"].notes -> Decision] :
          LET included == {n \in DOMAIN d : d[n] = "include"} IN
          /\ decided' = [n \in Note |-> IF n \in DOMAIN d THEN d[n] ELSE decided[n]]
          /\ IF included # {} /\ jobs["summary"].status = "none"
             THEN jobs'["summary"].status = "pending" /\ jobs'["summary"].notes = included
             ELSE jobs'["summary"] = jobs["summary"]
    BY <1>2 DEF Screened
  <2>3. {n \in Note : decided'[n] = "include"} = {n \in DOMAIN d : d[n] = "include"}
    BY <1>0, <2>1, <2>2
  <2>4. jobs'["filter"].status = "completed"
    BY <1>2 DEF Screened
  <2> QED BY <2>1, <2>2, <2>3, <2>4 DEF Screening, OnlyIncluded
<1>3. ASSUME NEW j \in Job, OneRow(j), UNCHANGED decided,
             New(j) \/ Reopened(j) \/ Taken(j) \/ Written(j) \/ Failed(j) \/ Asked(j) \/ Mailed(j)
      PROVE  Screening' /\ OnlyIncluded'
  <2>1. CASE j = "filter"
    BY <1>3, <2>1, JobNames
       DEF OneRow, New, Reopened, Taken, Written, Failed, Asked, Mailed, Screening, OnlyIncluded
  <2>2. CASE j = "summary"
    BY <1>3, <2>2, JobNames
       DEF OneRow, New, Reopened, Taken, Written, Failed, Asked, Mailed, Screening, OnlyIncluded
  <2>3. CASE j = "single"
    BY <1>3, <2>3, JobNames DEF OneRow, Screening, OnlyIncluded
  <2> QED BY <2>1, <2>2, <2>3 DEF Job
<1> QED BY <1>1, <1>2, <1>3 DEF JobsStep

\* Only what one screening included is summarised, and it is not screened again.
THEOREM SummariesAreScreened == Spec => []OnlyIncluded
<1> DEFINE IInv == Types /\ Screening /\ OnlyIncluded
<1>1. Init => IInv
  BY InitAll, JobNames DEF Init, Absent, Screening, OnlyIncluded
<1>2. IInv /\ [Next]_vars => IInv'
  BY StepTypes, StepScreening
<1>3. IInv => OnlyIncluded
  OBVIOUS
<1> QED BY <1>1, <1>2, <1>3, PTL DEF Spec

\* A wish for delivery reaches the job before, during and after its work.
THEOREM WishesAreKept == Spec => []WantedIsNotParked
<1> DEFINE IInv == Types /\ WantedIsNotParked
<1>1. Init => IInv
  BY InitAll DEF Init, WantedIsNotParked
<1>2. ASSUME Types, WantedIsNotParked, JobsStep PROVE WantedIsNotParked'
  <2>1. CASE wanted' # wanted
    BY <1>2, <2>1 DEF JobsStep, WantedIsNotParked
  <2>2. CASE wanted' = wanted /\ UNCHANGED <<jobs, decided>>
    BY <1>2, <2>2 DEF WantedIsNotParked
  <2>3. CASE wanted' = wanted /\ Screened
    BY <1>2, <2>3 DEF WantedIsNotParked, Screened
  <2>4. ASSUME wanted' = wanted, NEW j \in Job, OneRow(j),
               New(j) \/ Reopened(j) \/ Taken(j) \/ Written(j) \/ Failed(j) \/ Asked(j) \/ Mailed(j)
        PROVE  WantedIsNotParked'
    BY <1>2, <2>4, JobNames
       DEF OneRow, New, Reopened, Taken, Written, Failed, Asked, Mailed, WantedIsNotParked
  <2> QED BY <1>2, <2>1, <2>2, <2>3, <2>4 DEF JobsStep
<1>3. IInv /\ [Next]_vars => IInv'
  BY <1>2, StepTypes
<1>4. IInv => WantedIsNotParked
  OBVIOUS
<1> QED BY <1>1, <1>3, <1>4, PTL DEF Spec

-----------------------------------------------------------------------------
(* Delivery.                                                                 *)

\* Everything before the loop's place is recorded, what it is about to record
\* has been received, or refused without anybody's notice, and is not recorded yet.
Walk ==
    /\ mail.at \in {"part", "record"} =>
         \A p \in Part : p < mail.part => p \in parts[mail.job]
    /\ mail.at = "record" => mail.part \in (seen[mail.job] \cup refused[mail.job]) \ parts[mail.job]

LEMMA MailStep ==
    ASSUME Types, [Next]_vars
    PROVE  Deliver \/ Restart \/ (UNCHANGED mailVars /\ trouble' >= trouble)
<1> trouble \in Nat
  BY DEF Types, TypeOK
<1>1. ASSUME NEW c \in Caller, Recommend(c) PROVE UNCHANGED mailVars /\ trouble' \in {trouble, trouble + 1}
  BY <1>1, Zenon DEF Recommend, Call, CreateRun, AddItem, FinishCollection, QueueFilter, QueueFilterRaises,
                     Trouble, bounds
<1>2. CASE RetryFilter
  BY <1>2 DEF RetryFilter
<1>3. ASSUME NEW deliver \in BOOLEAN, EnqueueSingle(deliver) PROVE UNCHANGED <<mailVars, trouble>>
  BY <1>3, Zenon DEF EnqueueSingle
<1>4. ASSUME NEW w \in Worker, Work(w) PROVE UNCHANGED mailVars /\ trouble' \in {trouble, trouble + 1}
  BY <1>4, Zenon DEF Work, Claim, Finish, GiveUp, Fail, Vanish, Trouble, bounds
<1>5. ASSUME NEW m \in late, CompleteLate(m) PROVE UNCHANGED <<mailVars, trouble>>
  BY <1>5, Zenon DEF CompleteLate, bounds
<1>6. ASSUME NEW j \in Job, LapseLease(j) PROVE UNCHANGED mailVars /\ trouble' \in {trouble, trouble + 1}
  BY <1>6, Zenon DEF LapseLease, Trouble
<1>7. CASE UNCHANGED vars
  BY <1>7 DEF vars, bounds
<1> QED BY <1>1, <1>2, <1>3, <1>4, <1>5, <1>6, <1>7 DEF Next

LEMMA SentFrom ==
    ASSUME JobsStep, NEW j \in Job, jobs'[j].status = "sent"
    PROVE  jobs[j].status = "sent" \/ (mail.at = "part" /\ mail.job = j /\ mail.part > mail.last)
<1>1. CASE UNCHANGED <<jobs, decided>>
  BY <1>1
<1>2. CASE Screened
  <2>1. jobs'["summary"].status = "pending" \/ jobs'["summary"] = jobs["summary"]
    BY <1>2 DEF Screened
  <2> QED BY <1>2, <2>1 DEF Screened, Job
<1>3. ASSUME NEW k \in Job, OneRow(k),
             New(k) \/ Reopened(k) \/ Taken(k) \/ Written(k) \/ Failed(k) \/ Asked(k) \/ Mailed(k)
      PROVE  jobs[j].status = "sent" \/ (mail.at = "part" /\ mail.job = j /\ mail.part > mail.last)
  BY <1>3 DEF OneRow, New, Reopened, Taken, Written, Failed, Asked, Mailed
<1> QED BY <1>1, <1>2, <1>3 DEF JobsStep

\* The delivery loop only adds to the records, and only what has been received.
LEMMA RecordsGrow ==
    ASSUME Types, Types', Walk, [Next]_vars
    PROVE  /\ \A j \in Job : parts[j] \subseteq parts'[j]
           /\ (\A j \in Job : parts[j] \subseteq seen[j] \cup refused[j]) =>
                \A j \in Job : parts'[j] \subseteq seen'[j] \cup refused'[j]
<1>0. /\ parts \in [Job -> SUBSET Part]
      /\ seen \in [Job -> SUBSET Part] /\ refused \in [Job -> SUBSET Part]
  BY DEF Types, TypeOK
<1>1. CASE UNCHANGED mailVars
  BY <1>1 DEF mailVars
<1>2. CASE Restart
  BY <1>2 DEF Restart
<1>3. CASE Look \/ LookRaises \/ (\E j \in Job : Open(j)) \/ SkipPart \/ TryRaises \/ Delivered
  BY <1>3 DEF Look, LookRaises, Open, SkipPart, TryRaises, Delivered
<1>4. CASE PostPart \/ PostRaises
  BY <1>0, <1>4 DEF PostPart, PostRaises, Lands, IsRefused
<1>5. CASE RecordPart
  BY <1>0, <1>5 DEF RecordPart, Walk
<1> QED BY <1>1, <1>2, <1>3, <1>4, <1>5, MailStep DEF Deliver

LEMMA StepWalk ==
    ASSUME Types, Types', Walk, [Next]_vars
    PROVE  Walk'
<1>0. /\ parts \in [Job -> SUBSET Part]
      /\ seen \in [Job -> SUBSET Part] /\ refused \in [Job -> SUBSET Part]
      /\ mail.job \in Job /\ mail.part \in Nat /\ AtPart
  BY DEF Types, TypeOK
<1>9. \A p \in Part : p \in Nat /\ p >= 1
  BY PartNumbers DEF Part
<1>1. CASE UNCHANGED mailVars
  BY <1>1 DEF mailVars, Walk
<1>2. CASE Restart
  BY <1>2 DEF Restart, Resting, Walk
<1>3. CASE Look
  BY <1>3 DEF Look, Walk, Types, TypeOK
<1>4. ASSUME NEW j \in Job, Open(j) PROVE Walk'
  <2>1. mail'.at = "part" /\ mail'.part = 1
    BY <1>4 DEF Open
  <2> QED BY <1>9, <2>1 DEF Walk
<1>5. CASE SkipPart
  <2>1. mail'.at = "part" /\ mail'.part = mail.part + 1 /\ mail'.job = mail.job /\ parts' = parts
    BY <1>5 DEF SkipPart, Next1, Types, TypeOK
  <2>2. \A p \in Part : p < mail.part + 1 => p \in parts[mail.job]
    BY <1>0, <1>5, <1>9 DEF SkipPart, Walk
  <2> QED BY <2>1, <2>2 DEF Walk
<1>6. CASE PostPart
  <2>1. /\ mail'.at = "record" /\ mail'.part = mail.part /\ mail'.job = mail.job
        /\ parts' = parts /\ mail.part \in seen'[mail.job] \cup refused'[mail.job]
    BY <1>0, <1>6 DEF PostPart, Lands, IsRefused, Types, TypeOK
  <2> QED BY <1>6, <2>1 DEF PostPart, Walk
<1>7. CASE RecordPart
  <2>1. /\ mail'.at = "part" /\ mail'.part = mail.part + 1 /\ mail'.job = mail.job
        /\ parts'[mail.job] = parts[mail.job] \cup {mail.part}
    BY <1>0, <1>7 DEF RecordPart, Next1, Types, TypeOK
  <2>2. \A p \in Part : p < mail.part + 1 => p \in parts'[mail.job]
    BY <1>0, <1>7, <1>9, <2>1 DEF RecordPart, Walk
  <2> QED BY <2>1, <2>2 DEF Walk
<1>8. CASE LookRaises \/ PostRaises \/ TryRaises \/ Delivered
  <2>1. mail' \in {GivenUp, Ended}
    BY <1>8 DEF LookRaises, PostRaises, TryRaises, Delivered, Caught
  <2>2. mail'.at \notin {"part", "record"}
    BY <2>1 DEF GivenUp, Ended, Resting
  <2> QED BY <2>2 DEF Walk
<1> QED BY <1>1, <1>2, <1>3, <1>4, <1>5, <1>6, <1>7, <1>8, MailStep DEF Deliver

LEMMA StepWhole ==
    ASSUME Types, Types', Walk, SentIsWhole, [Next]_vars
    PROVE  SentIsWhole'
<1>1. JobsStep
  BY StepTypes
<1>2. \A j \in Job : parts[j] \subseteq parts'[j]
  BY RecordsGrow
<1>4. \A j \in Job : parts'[j] \subseteq seen'[j] \cup refused'[j]
  <2>1. \A j \in Job : parts[j] \subseteq seen[j] \cup refused[j]
    BY DEF SentIsWhole
  <2> QED BY <2>1, RecordsGrow
<1>3. ASSUME NEW j \in Job, jobs'[j].status = "sent" PROVE 1 .. TextParts \subseteq parts'[j]
  <2>1. CASE jobs[j].status = "sent"
    BY <1>2, <2>1 DEF SentIsWhole
  <2>2. CASE mail.at = "part" /\ mail.job = j /\ mail.part > mail.last
    <3>1. mail.last >= TextParts /\ mail.part \in Nat /\ mail.last \in Nat
      BY <2>2, PartNumbers DEF Types, TypeOK, AtPart
    <3>2. \A p \in 1 .. TextParts : p \in Part /\ p < mail.part
      BY <2>2, <3>1, PartNumbers DEF Part
    <3> QED BY <1>2, <2>2, <3>2 DEF Walk
  <2> QED BY <1>1, <1>3, <2>1, <2>2, SentFrom
<1> QED BY <1>3, <1>4 DEF SentIsWhole

\* A job that counts as sent has had its whole text posted, and each part that is
\* recorded was received by the chat or refused in an answer that nobody read.
THEOREM SentJobsAreWhole == Spec => []SentIsWhole
<1> DEFINE IInv == Types /\ Walk /\ SentIsWhole
<1>1. Init => IInv
  BY InitAll DEF Init, Absent, Resting, Walk, SentIsWhole
<1>2. IInv /\ [Next]_vars => IInv'
  BY StepTypes, StepWalk, StepWhole
<1>3. IInv => SentIsWhole
  OBVIOUS
<1> QED BY <1>1, <1>2, <1>3, PTL DEF Spec

-----------------------------------------------------------------------------
(* Copies.                                                                   *)

LEMMA RecordedFinite ==
    ASSUME Types
    PROVE  IsFiniteSet(Recorded) /\ Cardinality(Recorded) \in Nat
<1>1. IsFiniteSet(Part)
  BY PartNumbers, FS_Interval DEF Part
<1>2. IsFiniteSet(Job)
  <2>1. IsFiniteSet({} \cup {"filter"})
    BY FS_EmptySet, FS_AddElement
  <2>2. IsFiniteSet(({} \cup {"filter"}) \cup {"summary"})
    BY <2>1, FS_AddElement
  <2>3. IsFiniteSet((({} \cup {"filter"}) \cup {"summary"}) \cup {"single"})
    BY <2>2, FS_AddElement
  <2>4. Job = (({} \cup {"filter"}) \cup {"summary"}) \cup {"single"}
    BY DEF Job
  <2> QED BY <2>3, <2>4
<1>3. IsFiniteSet(Job \X Part)
  BY <1>1, <1>2, FS_Product
<1>4. IsFiniteSet(Recorded)
  BY <1>3, FS_Subset DEF Recorded
<1> QED BY <1>4, FS_CardinalityType

LEMMA StepCopies ==
    ASSUME Types, Types', Walk, CopiesExplained, [Next]_vars
    PROVE  CopiesExplained'
<1>0. copies \in Nat /\ trouble \in Nat /\ Cardinality(Recorded) \in Nat
  BY RecordedFinite DEF Types, TypeOK
<1>1. CASE UNCHANGED mailVars /\ trouble' >= trouble
  <2>1. Recorded' = Recorded
    BY <1>1 DEF Recorded, mailVars
  <2>2. trouble' \in Nat
    BY DEF Types, TypeOK
  <2> QED BY <1>0, <1>1, <2>1, <2>2 DEF CopiesExplained, mailVars
<1>2. CASE Restart
  <2>1. Recorded' = Recorded
    BY <1>2 DEF Recorded, Restart
  <2>2. copies' = copies /\ mail'.at = "rest"
    BY <1>2 DEF Restart, Resting
  <2>3. CASE mail.at = "ended"
    BY <1>0, <1>2, <2>1, <2>2, <2>3 DEF Restart, CopiesExplained
  <2>4. CASE mail.at # "ended"
    BY <1>0, <1>2, <2>1, <2>2, <2>4 DEF Restart, Trouble, CopiesExplained
  <2> QED BY <2>3, <2>4
<1>3. CASE Look \/ (\E j \in Job : Open(j)) \/ SkipPart \/ Delivered
  <2>1. Recorded' = Recorded
    BY <1>3 DEF Recorded, Look, Open, SkipPart, Delivered
  <2>2. copies' = copies /\ trouble' = trouble /\ mail.at # "record"
    BY <1>3 DEF Look, Open, SkipPart, Delivered, bounds
  <2> QED BY <1>0, <2>1, <2>2 DEF CopiesExplained
<1>4. CASE PostPart
  <2>1. Recorded' = Recorded
    BY <1>4 DEF Recorded, PostPart
  <2>2. /\ \/ copies' = copies + 1 /\ trouble' = trouble
           \/ copies' = copies /\ trouble' = trouble + 1
        /\ mail.at = "part" /\ mail'.at = "record"
    BY <1>4 DEF PostPart, Lands, IsRefused, Trouble, Types, TypeOK
  <2> QED BY <1>0, <2>1, <2>2 DEF CopiesExplained
<1>5. CASE PostRaises
  <2>1. Recorded' = Recorded
    BY <1>5 DEF Recorded, PostRaises
  <2>2. copies' \in {copies, copies + 1} /\ trouble' = trouble + 1 /\ mail.at = "part"
    BY <1>5 DEF PostRaises, Lands, Trouble
  <2>3. mail'.at # "record"
    BY <1>5 DEF PostRaises, Caught, GivenUp, Ended, Resting
  <2> QED BY <1>0, <2>1, <2>2, <2>3 DEF CopiesExplained
<1>6. CASE RecordPart
  <2>1. mail.at = "record" /\ mail.job \in Job /\ mail.part \in Part /\ mail.part \notin parts[mail.job]
    BY <1>6 DEF RecordPart, Walk, Types, TypeOK, AtPart
  <2>2. Recorded' = Recorded \cup {<<mail.job, mail.part>>} /\ <<mail.job, mail.part>> \notin Recorded
    BY <1>6, <2>1 DEF RecordPart, Recorded, Types, TypeOK
  <2>3. Cardinality(Recorded') = Cardinality(Recorded) + 1
    BY <2>2, RecordedFinite, FS_AddElement
  <2>4. copies' = copies /\ trouble' = trouble /\ mail'.at = "part"
    BY <1>6 DEF RecordPart, Next1, bounds, Types, TypeOK
  <2> QED BY <1>0, <2>1, <2>3, <2>4 DEF CopiesExplained
<1>7. CASE LookRaises \/ TryRaises
  <2>1. Recorded' = Recorded
    BY <1>7 DEF Recorded, LookRaises, TryRaises
  <2>2. copies' = copies /\ trouble' = trouble + 1
    BY <1>7 DEF LookRaises, TryRaises, Trouble
  <2>3. mail'.at # "record"
    BY <1>7 DEF LookRaises, TryRaises, Caught, GivenUp, Ended, Resting
  <2> QED BY <1>0, <2>1, <2>2, <2>3 DEF CopiesExplained
<1> QED BY <1>1, <1>2, <1>3, <1>4, <1>5, <1>6, <1>7, MailStep DEF Deliver

\* Every message beyond the recorded parts has a failure or a crash of its own.
THEOREM CopiesAreExplained == Spec => []CopiesExplained
<1> DEFINE IInv == Types /\ Walk /\ CopiesExplained
<1>1. Init => IInv
  <2>1. ASSUME Init PROVE CopiesExplained
    <3>1. copies = 0 /\ trouble = 0 /\ Cardinality(Recorded) \in Nat
      BY <2>1, InitAll, RecordedFinite DEF Init
    <3> QED BY <3>1 DEF CopiesExplained
  <2>2. Init => Walk
    BY DEF Init, Resting, Walk
  <2> QED BY <2>1, <2>2, InitAll
<1>2. IInv /\ [Next]_vars => IInv'
  BY StepTypes, StepWalk, StepCopies
<1>3. IInv => CopiesExplained
  OBVIOUS
<1> QED BY <1>1, <1>2, <1>3, PTL DEF Spec

-----------------------------------------------------------------------------
(* The run's status on the dashboard.                                        *)

\* Before a second call there is at most one, the screening is queued at its
\* end, and where it stands gives the status of the run.
OneCall ==
    calls <= 1 =>
        /\ \A c \in Caller : caller[c] # "idle" =>
              /\ calls = 1 /\ jobs["filter"].status = "none"
              /\ \A d \in Caller : caller[d] # "idle" => d = c
        /\ calls = 0 => jobs["filter"].status = "none"

\* Neither a screening nor a summary is ever parked.
Lanes ==
    /\ jobs["filter"].status \notin {"ready", "sent"}
    /\ jobs["summary"].status # "completed"
    /\ jobs["filter"].status # "completed" => jobs["summary"].status = "none"

Followed == Types /\ Lanes /\ OneCall /\ RunFollowsJobs

LEMMA StepLanes ==
    ASSUME Lanes, JobsStep
    PROVE  Lanes'
<1>1. CASE UNCHANGED <<jobs, decided>>
  BY <1>1 DEF Lanes
<1>2. CASE Screened
  <2>1. jobs'["summary"].status = "pending" \/ jobs'["summary"] = jobs["summary"]
    BY <1>2 DEF Screened
  <2> QED BY <1>2, <2>1 DEF Screened, Lanes
<1>3. ASSUME NEW j \in Job, OneRow(j),
             New(j) \/ Reopened(j) \/ Taken(j) \/ Written(j) \/ Failed(j) \/ Asked(j) \/ Mailed(j)
      PROVE  Lanes'
  <2>1. CASE j = "filter"
    BY <1>3, <2>1, JobNames DEF OneRow, New, Reopened, Taken, Written, Failed, Asked, Mailed, Lanes
  <2>2. CASE j = "summary"
    BY <1>3, <2>2, JobNames DEF OneRow, New, Reopened, Taken, Written, Failed, Asked, Mailed, Lanes
  <2>3. CASE j = "single"
    BY <1>3, <2>3, JobNames DEF OneRow, Lanes
  <2> QED BY <2>1, <2>2, <2>3 DEF Job
<1> QED BY <1>1, <1>2, <1>3 DEF JobsStep

\* Only a call makes callers busy, and only the queueing of a screening by a call
\* makes its job.
LEMMA StepOneCall ==
    ASSUME Followed, Types', JobsStep, [Next]_vars
    PROVE  OneCall'
<1> SUFFICES ASSUME calls' <= 1 PROVE OneCall'
  BY DEF OneCall
<1>0. calls \in Nat /\ caller \in [Caller -> {"idle", "create", "empty", "fetched", "queue"}]
  BY DEF Followed, Types, TypeOK
<1>1. ASSUME NEW c \in Caller, Recommend(c) PROVE OneCall'
  <2>1. CASE Call(c)
    <3>1. calls = 0 /\ calls' = 1 /\ jobs' = jobs
      BY <1>0, <2>1 DEF Call, jobVars
    <3>2. \A d \in Caller : caller[d] = "idle"
      BY <3>1 DEF Followed, OneCall
    <3>3. jobs["filter"].status = "none"
      BY <3>1 DEF Followed, OneCall
    <3> QED BY <1>0, <2>1, <3>1, <3>2, <3>3 DEF Call, OneCall
  <2>2. CASE ~Call(c)
    <3>1. /\ calls' = calls /\ caller[c] # "idle"
          /\ \A d \in Caller \ {c} : caller'[d] = caller[d]
      BY <1>0, <1>1, <2>2, Zenon
         DEF Recommend, CreateRun, AddItem, FinishCollection, QueueFilter, QueueFilterRaises, bounds
    <3>2. calls = 1 /\ \A d \in Caller \ {c} : caller[d] = "idle"
      BY <3>1 DEF Followed, OneCall
    <3>3. jobs' = jobs \/ caller'[c] = "idle"
      BY <1>0, <1>1, <2>2, Zenon
         DEF Recommend, CreateRun, AddItem, FinishCollection, QueueFilter, QueueFilterRaises, jobVars
    <3>4. jobs["filter"].status = "none"
      BY <3>1, <3>2 DEF Followed, OneCall
    <3> QED BY <3>1, <3>2, <3>3, <3>4 DEF OneCall
  <2> QED BY <2>1, <2>2
<1>2. ASSUME UNCHANGED calls, caller' = caller \/ caller' = [c \in Caller |-> "idle"]
      PROVE  OneCall'
  <2>0. ASSUME caller' = caller, jobs["filter"].status = "none"
        PROVE  jobs'["filter"].status = "none"
    <3>1. caller' = caller
      BY <2>0
    <3>2. jobs["filter"].status = "none"
      BY <2>0
    <3>3. CASE UNCHANGED <<jobs, decided>>
      BY <3>2, <3>3
    <3>4. CASE Screened
      BY <3>2, <3>4 DEF Screened
    <3>5. ASSUME NEW j \in Job, OneRow(j),
                 New(j) \/ Reopened(j) \/ Taken(j) \/ Written(j) \/ Failed(j) \/ Asked(j) \/ Mailed(j)
          PROVE  jobs'["filter"].status = "none"
      BY <3>1, <3>2, <3>5, JobNames
         DEF OneRow, New, Reopened, Taken, Written, Failed, Asked, Mailed
    <3> QED BY <3>3, <3>4, <3>5 DEF JobsStep
  <2>1. ASSUME NEW c \in Caller, caller'[c] # "idle"
        PROVE  jobs'["filter"].status = "none"
    <3>1. caller' = caller /\ caller[c] # "idle"
      BY <1>2, <2>1
    <3> QED BY <1>2, <2>0, <3>1 DEF Followed, OneCall
  <2>2. calls = 0 => jobs'["filter"].status = "none"
    <3>1. SUFFICES ASSUME calls = 0 PROVE jobs'["filter"].status = "none"
      OBVIOUS
    <3>2. \A c \in Caller : caller[c] = "idle"
      BY <3>1 DEF Followed, OneCall
    <3>3. caller' = caller
      BY <1>0, <1>2, <3>2
    <3> QED BY <2>0, <3>1, <3>3 DEF Followed, OneCall
  <2> QED BY <1>2, <2>1, <2>2 DEF Followed, OneCall
<1>3. CASE RetryFilter
  BY <1>2, <1>3 DEF RetryFilter
<1>4. ASSUME NEW deliver \in BOOLEAN, EnqueueSingle(deliver) PROVE OneCall'
  <2>1. UNCHANGED <<calls, caller>>
    BY <1>4, Zenon DEF EnqueueSingle
  <2> QED BY <1>2, <2>1
<1>5. ASSUME NEW w \in Worker, Work(w) PROVE OneCall'
  <2>1. UNCHANGED <<calls, caller>>
    BY <1>5, Zenon DEF Work, Claim, Finish, GiveUp, Fail, Vanish, bounds
  <2> QED BY <1>2, <2>1
<1>6. ASSUME NEW m \in late, CompleteLate(m) PROVE OneCall'
  <2>1. UNCHANGED <<calls, caller>>
    BY <1>6, Zenon DEF CompleteLate, bounds
  <2> QED BY <1>2, <2>1
<1>7. ASSUME NEW j \in Job, LapseLease(j) PROVE OneCall'
  BY <1>2, <1>7 DEF LapseLease
<1>8. CASE Deliver
  <2>1. UNCHANGED <<calls, caller>>
    BY <1>8, Zenon DEF Deliver, Look, LookRaises, Open, SkipPart, PostPart, PostRaises, RecordPart, TryRaises,
                       Delivered, bounds
  <2> QED BY <1>2, <2>1
<1>9. CASE Restart
  BY <1>2, <1>9 DEF Restart
<1>10. CASE UNCHANGED vars
  BY <1>2, <1>10 DEF vars, bounds
<1> QED BY <1>1, <1>3, <1>4, <1>5, <1>6, <1>7, <1>8, <1>9, <1>10 DEF Next

\* What the screening and the summary say of the run.
Told(filter, summary) ==
    CASE filter = "none" -> {"none", "running", "collected", "failed"}
      [] filter \in {"pending", "processing"} -> {"filter_queued"}
      [] filter = "failed" -> {"filter_failed"}
      [] filter = "completed" /\ summary = "none" -> {"filtered"}
      [] filter = "completed" /\ summary = "ready" -> {"summary_ready"}
      [] filter = "completed" /\ summary = "sent" -> {"sent"}
      [] OTHER -> {"summary_queued"}

LEMMA ToldEarly ==
    ASSUME NEW u
    PROVE  /\ Told("none", u) = {"none", "running", "collected", "failed"}
           /\ Told("pending", u) = {"filter_queued"}
           /\ Told("processing", u) = {"filter_queued"}
           /\ Told("failed", u) = {"filter_failed"}
BY DEF Told

LEMMA ToldLate ==
    /\ Told("completed", "none") = {"filtered"}
    /\ Told("completed", "pending") = {"summary_queued"}
    /\ Told("completed", "processing") = {"summary_queued"}
    /\ Told("completed", "failed") = {"summary_queued"}
    /\ Told("completed", "ready") = {"summary_ready"}
    /\ Told("completed", "sent") = {"sent"}
BY DEF Told

LEMMA FollowsTold ==
    RunFollowsJobs <=> (calls <= 1 => run \in Told(jobs["filter"].status, jobs["summary"].status))
BY DEF RunFollowsJobs, Told

\* A row that keeps its status, or is not one of the run's, tells the same.
LEMMA SameTold ==
    ASSUME RunFollowsJobs, UNCHANGED <<run, calls>>,
           Told(jobs'["filter"].status, jobs'["summary"].status)
             = Told(jobs["filter"].status, jobs["summary"].status)
    PROVE  RunFollowsJobs'
<1>1. RunFollowsJobs' <=> (calls' <= 1 => run' \in Told(jobs'["filter"].status, jobs'["summary"].status))
  BY DEF RunFollowsJobs, Told
<1> QED BY <1>1, FollowsTold

\* The same in terms of what the rows become.
LEMMA TellsFollows ==
    ASSUME calls' <= 1 => run' \in Told(jobs'["filter"].status, jobs'["summary"].status)
    PROVE  RunFollowsJobs'
<1>1. RunFollowsJobs' <=> (calls' <= 1 => run' \in Told(jobs'["filter"].status, jobs'["summary"].status))
  BY DEF RunFollowsJobs, Told
<1> QED BY <1>1

\* A step of a call: until the screening is queued its job does not exist.
LEMMA RecommendFollows ==
    ASSUME Followed, NEW c \in Caller, Recommend(c)
    PROVE  RunFollowsJobs'
<1>0. calls \in Nat /\ jobs \in [Job -> Row]
  BY DEF Followed, Types, TypeOK
<1>1. CASE Call(c)
  <2>1. calls' = calls + 1 /\ UNCHANGED <<run, jobs>>
    BY <1>1 DEF Call, jobVars
  <2>2. calls' <= 1 => run' \in Told(jobs'["filter"].status, jobs'["summary"].status)
    BY <1>0, <2>1, FollowsTold DEF Followed
  <2> QED BY <2>2, TellsFollows
<1>2. CASE ~Call(c)
  <2> DEFINE early == {"none", "running", "collected", "failed"}
  <2>1. calls' = calls /\ caller[c] # "idle"
    BY <1>2, Zenon
       DEF Recommend, CreateRun, AddItem, FinishCollection, QueueFilter, QueueFilterRaises, bounds
  <2>2. calls <= 1 => jobs["filter"].status = "none"
    BY <2>1 DEF Followed, OneCall
  <2>3. calls <= 1 => run \in early
    BY <2>2, FollowsTold, ToldEarly, ToldLate DEF Followed
  <2>4. CASE QueueFilter(c) /\ jobs["filter"].status = "none"
    <3>1. jobs' = [jobs EXCEPT !["filter"] = [Absent EXCEPT !.status = "pending", !.notes = items]]
          /\ run' = "filter_queued"
      BY <2>4 DEF QueueFilter, NewJob
    <3>2. jobs'["filter"].status = "pending"
      BY <1>0, <3>1, JobNames DEF Absent
    <3>3. run' \in Told(jobs'["filter"].status, jobs'["summary"].status)
      BY <3>1, <3>2, ToldEarly, ToldLate
    <3> QED BY <3>3, TellsFollows
  <2>5. CASE QueueFilter(c) /\ jobs["filter"].status # "none"
    BY <2>1, <2>2, <2>5 DEF RunFollowsJobs
  <2>6. CASE ~QueueFilter(c)
    <3>1. jobs' = jobs
      BY <1>2, <2>6, Zenon DEF Recommend, CreateRun, AddItem, FinishCollection, QueueFilterRaises, jobVars
    <3>2. run' \in {run, "running", "collected", "failed"}
      BY <1>2, <2>6 DEF Recommend, CreateRun, AddItem, FinishCollection, QueueFilterRaises, jobVars
    <3>3. calls' <= 1 => run' \in Told(jobs'["filter"].status, jobs'["summary"].status)
      BY <2>1, <2>2, <2>3, <3>1, <3>2, ToldEarly, ToldLate
    <3> QED BY <3>3, TellsFollows
  <2> QED BY <2>4, <2>5, <2>6
<1> QED BY <1>1, <1>2

\* Completing a screening or a summary.
LEMMA CompleteFollows ==
    ASSUME Followed, UNCHANGED calls, NEW j \in Job, NEW t \in Nat, Complete(j, t)
    PROVE  RunFollowsJobs'
<1> DEFINE f == jobs["filter"].status
           u == jobs["summary"].status
<1>0. jobs \in [Job -> Row] /\ TypeOK
  BY DEF Followed, Types, TypeOK
<1>1. CASE j = "filter"
  <2>1. CompleteFilter(t) /\ f = "processing"
    BY <1>1 DEF Complete, CompleteFilter, MayComplete, Holds
  <2>2. u = "none"
    BY <2>1 DEF Followed, Lanes
  <2>3. PICK d \in [jobs["filter"].notes -> Decision] :
          LET included == {n \in DOMAIN d : d[n] = "include"}
              summarise == included # {} /\ jobs["summary"].status = "none"
          IN
          /\ jobs' = [k \in Job |->
                        CASE k = "filter" -> Done(jobs[k], "completed", t)
                          [] k = "summary" /\ summarise ->
                               [Absent EXCEPT !.status = "pending", !.notes = included]
                          [] OTHER -> jobs[k]]
          /\ run' = IF included # {} THEN "summary_queued" ELSE "filtered"
    BY <2>1 DEF CompleteFilter
  <2> DEFINE included == {n \in DOMAIN d : d[n] = "include"}
  <2>4. jobs'["filter"].status = "completed"
    <3>1. Done(jobs["filter"], "completed", t).status = "completed"
      BY <1>0, JobNames DEF Done, Row
    <3> QED BY <2>3, <3>1, JobNames
  <2>5. CASE included = {}
    <3>1. jobs'["summary"].status = "none" /\ run' = "filtered"
      BY <2>2, <2>3, <2>5, JobNames
    <3>2. run' \in Told(jobs'["filter"].status, jobs'["summary"].status)
      BY <2>4, <3>1, ToldEarly, ToldLate
    <3> QED BY <3>2, TellsFollows
  <2>6. CASE included # {}
    <3>1. jobs'["summary"].status = "pending" /\ run' = "summary_queued"
      BY <2>2, <2>3, <2>6, JobNames DEF Absent
    <3>2. run' \in Told(jobs'["filter"].status, jobs'["summary"].status)
      BY <2>4, <3>1, ToldEarly, ToldLate
    <3> QED BY <3>2, TellsFollows
  <2> QED BY <2>5, <2>6
<1>2. CASE j = "summary"
  <2>1. CompleteText(j, t) /\ u = "processing"
    BY <1>2 DEF Complete, CompleteText, MayComplete, Holds
  <2>2. f = "completed"
    BY <2>1 DEF Followed, Lanes
  <2>3. calls <= 1 => run = "summary_queued"
    BY <2>1, <2>2, FollowsTold, ToldEarly, ToldLate DEF Followed
  <2>4. jobs'["filter"].status = "completed" /\ jobs'["summary"].status = "ready"
    <3>1. Done(jobs["summary"], "ready", t).status = "ready"
      BY <1>0, JobNames DEF Done, Row
    <3> QED BY <1>0, <1>2, <2>1, <2>2, <3>1, JobNames DEF CompleteText
  <2>5. calls <= 1 => run' = "summary_ready"
    BY <1>2, <2>1, <2>3 DEF CompleteText
  <2>6. calls' <= 1 => run' \in Told(jobs'["filter"].status, jobs'["summary"].status)
    BY <2>4, <2>5, ToldEarly, ToldLate
  <2> QED BY <2>6, TellsFollows
<1>3. CASE j = "single"
  <2>1. CompleteText(j, t)
    BY <1>3 DEF Complete
  <2>2. jobs'["filter"] = jobs["filter"] /\ jobs'["summary"] = jobs["summary"] /\ run' = run
    BY <1>0, <1>3, <2>1, JobNames DEF CompleteText
  <2> QED BY <2>2, SameTold DEF Followed
<1> QED BY <1>1, <1>2, <1>3 DEF Job

LEMMA WorkFollows ==
    ASSUME Followed, NEW w \in Worker, Work(w)
    PROVE  RunFollowsJobs'
<1> DEFINE f == jobs["filter"].status
           u == jobs["summary"].status
<1>0. /\ jobs \in [Job -> Row] /\ worker[w].job \in Job /\ worker[w].token \in Nat
      /\ RunFollowsJobs
  BY DEF Followed, Types, TypeOK
<1>1. ASSUME NEW j \in Job, Claim(w, j) PROVE RunFollowsJobs'
  <2>1. UNCHANGED <<run, calls>> /\ jobs' = [jobs EXCEPT ![j] = Claimed(@)]
    BY <1>1, Zenon DEF Claim
  <2>2. jobs[j].status \in {"pending", "processing"} /\ jobs'[j].status = "processing"
    <3>1. Claimable(j)
      BY <1>1, Zenon DEF Claim
    <3>2. jobs[j].status \in {"pending", "processing"}
      BY <3>1 DEF Claimable
    <3>3. Claimed(jobs[j]).status = "processing"
      BY <1>0, RowClaimed
    <3>4. jobs'[j] = Claimed(jobs[j])
      BY <1>0, <2>1
    <3> QED BY <3>2, <3>3, <3>4
  <2>3. \A k \in Job \ {j} : jobs'[k] = jobs[k]
    BY <1>0, <2>1
  <2>4. u # "none" => f = "completed"
    BY DEF Followed, Lanes
  <2>5. Told(jobs'["filter"].status, jobs'["summary"].status) = Told(f, u)
    <3>1. CASE j = "filter"
      BY <2>2, <2>3, <3>1, JobNames, ToldEarly, ToldLate
    <3>2. CASE j = "summary"
      BY <2>2, <2>3, <2>4, <3>2, JobNames, ToldEarly, ToldLate
    <3>3. CASE j = "single"
      BY <2>3, <3>3, JobNames
    <3> QED BY <3>1, <3>2, <3>3 DEF Job
  <2> QED BY <1>0, <2>1, <2>5, SameTold
<1>2. CASE Finish(w)
  <2>1. UNCHANGED calls
    BY <1>2, Zenon DEF Finish, bounds
  <2>2. CASE Complete(worker[w].job, worker[w].token)
    BY <1>0, <2>1, <2>2, CompleteFollows
  <2>3. CASE Refused(worker[w].job, worker[w].token)
    BY <1>0, <2>1, <2>3 DEF Refused, RunFollowsJobs, jobVars
  <2> QED BY <1>2, <2>2, <2>3 DEF Finish
<1>3. CASE GiveUp(w) \/ Vanish(w)
  BY <1>0, <1>3 DEF GiveUp, Vanish, RunFollowsJobs, jobVars
<1>4. CASE Fail(w)
  <2> DEFINE j == worker[w].job
             final == jobs[j].attempts >= MaxAttempts
  <2>1. UNCHANGED calls
    BY <1>4, Zenon DEF Fail, bounds
  <2>2. CASE ~Holds(j, worker[w].token)
    <3>1. UNCHANGED <<jobs, run>>
      BY <1>4, <2>2 DEF Fail
    <3> QED BY <1>0, <2>1, <3>1 DEF RunFollowsJobs
  <2>3. CASE Holds(j, worker[w].token)
    <3>1. /\ jobs' = [jobs EXCEPT ![j].status = IF final THEN "failed" ELSE "pending"]
          /\ run' = IF final /\ j = "filter" /\ run = "filter_queued" THEN "filter_failed" ELSE run
      BY <1>4, <2>3 DEF Fail
    <3>2. jobs[j].status = "processing" /\ jobs'[j].status = IF final THEN "failed" ELSE "pending"
      BY <1>0, <2>3, <3>1 DEF Holds, Row
    <3>3. \A k \in Job \ {j} : jobs'[k] = jobs[k]
      BY <1>0, <3>1
    <3> HIDE DEF final
    <3>4. CASE j = "filter"
      <4>1. calls <= 1 => run = "filter_queued"
        BY <1>0, <3>2, <3>4, FollowsTold, ToldEarly, ToldLate
      <4>2. calls' <= 1 => run' \in Told(jobs'["filter"].status, jobs'["summary"].status)
        BY <2>1, <3>1, <3>2, <3>4, <4>1, ToldEarly, ToldLate
      <4> QED BY <4>2, TellsFollows
    <3>5. CASE j = "summary"
      <4>1. f = "completed"
        BY <3>2, <3>5 DEF Followed, Lanes
      <4>2. Told(jobs'["filter"].status, jobs'["summary"].status) = Told(f, u)
        BY <3>2, <3>3, <3>5, <4>1, JobNames, ToldEarly, ToldLate
      <4>3. run' = run
        BY <3>1, <3>5
      <4> QED BY <1>0, <2>1, <4>2, <4>3, SameTold
    <3>6. CASE j = "single"
      <4>1. jobs'["filter"] = jobs["filter"] /\ jobs'["summary"] = jobs["summary"] /\ run' = run
        BY <3>1, <3>3, <3>6, JobNames
      <4> QED BY <1>0, <2>1, <4>1, SameTold
    <3> QED BY <1>0, <3>4, <3>5, <3>6 DEF Job
  <2> QED BY <2>2, <2>3
<1> QED BY <1>1, <1>2, <1>3, <1>4 DEF Work

LEMMA DeliveredFollows ==
    ASSUME Followed, Delivered
    PROVE  RunFollowsJobs'
<1> DEFINE j == mail.job
<1>0. jobs \in [Job -> Row] /\ j \in Job /\ RunFollowsJobs /\ UNCHANGED calls
  BY DEF Followed, Types, TypeOK, Delivered, bounds
<1>1. CASE jobs[j].status # "ready"
  BY <1>0, <1>1 DEF Delivered, RunFollowsJobs
<1>2. CASE jobs[j].status = "ready"
  <2>1. /\ jobs' = [jobs EXCEPT ![j].status = "sent"]
        /\ run' = IF j = "summary" /\ run \in {"summary_ready", "summary_queued"} THEN "sent" ELSE run
    BY <1>2 DEF Delivered
  <2>2. jobs'[j].status = "sent" /\ \A k \in Job \ {j} : jobs'[k] = jobs[k]
    BY <1>0, <2>1 DEF Row
  <2>3. j # "filter"
    BY <1>2 DEF Followed, Lanes
  <2>4. CASE j = "summary"
    <3>1. jobs["filter"].status = "completed"
      BY <1>2, <2>4 DEF Followed, Lanes
    <3>2. calls <= 1 => run = "summary_ready"
      BY <1>0, <1>2, <2>4, <3>1, FollowsTold, ToldEarly, ToldLate
    <3>3. calls' <= 1 => run' \in Told(jobs'["filter"].status, jobs'["summary"].status)
      BY <1>0, <2>1, <2>2, <2>4, <3>1, <3>2, JobNames, ToldEarly, ToldLate
    <3> QED BY <3>3, TellsFollows
  <2>5. CASE j = "single"
    <3>1. jobs'["filter"] = jobs["filter"] /\ jobs'["summary"] = jobs["summary"] /\ run' = run
      BY <2>1, <2>2, <2>5, JobNames
    <3> QED BY <1>0, <3>1, SameTold
  <2> QED BY <1>0, <2>3, <2>4, <2>5 DEF Job
<1> QED BY <1>1, <1>2

LEMMA StepFollows ==
    ASSUME Followed, [Next]_vars
    PROVE  RunFollowsJobs'
<1>0. RunFollowsJobs /\ jobs \in [Job -> Row]
  BY DEF Followed, Types, TypeOK
<1>1. ASSUME NEW c \in Caller, Recommend(c) PROVE RunFollowsJobs'
  BY <1>1, RecommendFollows
<1>2. CASE RetryFilter
  <2>1. /\ jobs["filter"].status = "failed" /\ calls' = calls
        /\ jobs' = [jobs EXCEPT !["filter"] = Unclaimed(@)]
        /\ run' = IF run = "filter_failed" THEN "filter_queued" ELSE run
    BY <1>2, Zenon DEF RetryFilter
  <2>2. jobs'["filter"].status = "pending"
    BY <1>0, <2>1, RowUnclaimed, JobNames
  <2>3. calls <= 1 => run = "filter_failed"
    BY <1>0, <2>1, FollowsTold, ToldEarly, ToldLate
  <2>4. calls' <= 1 => run' \in Told(jobs'["filter"].status, jobs'["summary"].status)
    BY <2>1, <2>2, <2>3, ToldEarly, ToldLate
  <2> QED BY <2>4, TellsFollows
<1>3. ASSUME NEW deliver \in BOOLEAN, EnqueueSingle(deliver) PROVE RunFollowsJobs'
  <2>1. UNCHANGED <<run, calls>>
    BY <1>3, Zenon DEF EnqueueSingle
  <2>2. jobs'["filter"] = jobs["filter"] /\ jobs'["summary"] = jobs["summary"]
    BY <1>0, <1>3, JobNames DEF EnqueueSingle, NewJob
  <2> QED BY <1>0, <2>1, <2>2, SameTold
<1>4. ASSUME NEW w \in Worker, Work(w) PROVE RunFollowsJobs'
  BY <1>4, WorkFollows
<1>5. ASSUME NEW m \in late, CompleteLate(m) PROVE RunFollowsJobs'
  <2>0. m.job \in Job /\ m.token \in Nat
    BY DEF Followed, Types, TypeOK
  <2>1. UNCHANGED calls
    BY <1>5, Zenon DEF CompleteLate, bounds
  <2>2. CASE Complete(m.job, m.token)
    BY <2>0, <2>1, <2>2, CompleteFollows
  <2>3. CASE Refused(m.job, m.token)
    BY <1>0, <2>1, <2>3 DEF Refused, RunFollowsJobs, jobVars
  <2> QED BY <1>5, <2>2, <2>3 DEF CompleteLate
<1>6. CASE Delivered
  BY <1>6, DeliveredFollows
<1>7. CASE (\E j \in Job : LapseLease(j)) \/ Restart \/ UNCHANGED vars
  <2>1. UNCHANGED <<jobs, run, calls>>
    BY <1>7 DEF LapseLease, Restart, vars, jobVars, bounds
  <2> QED BY <1>0, <2>1 DEF RunFollowsJobs
<1>8. CASE Deliver /\ ~Delivered
  <2>1. UNCHANGED <<jobs, run, calls>>
    BY <1>8, Zenon
       DEF Deliver, Look, LookRaises, Open, SkipPart, PostPart, PostRaises, RecordPart, TryRaises, jobVars, bounds
  <2> QED BY <1>0, <2>1 DEF RunFollowsJobs
<1> QED BY <1>1, <1>2, <1>3, <1>4, <1>5, <1>6, <1>7, <1>8 DEF Next

\* Until a second call the status of the run is that of its jobs.
THEOREM RunStatusFollows == Spec => []RunFollowsJobs
<1>1. ASSUME Init PROVE Followed
  <2>1. jobs["filter"].status = "none" /\ jobs["summary"].status = "none"
    BY <1>1, JobNames DEF Init, Absent
  <2>2. run = "none" /\ \A c \in Caller : caller[c] = "idle"
    BY <1>1 DEF Init
  <2>3. Lanes
    BY <2>1 DEF Lanes
  <2>4. OneCall
    BY <2>1, <2>2 DEF OneCall
  <2>5. run \in Told(jobs["filter"].status, jobs["summary"].status)
    BY <2>1, <2>2, ToldEarly
  <2>6. RunFollowsJobs
    BY <2>5, FollowsTold
  <2> QED BY <1>1, <2>3, <2>4, <2>6, InitAll DEF Followed
<1>2. Followed /\ [Next]_vars => Followed'
  BY StepTypes, StepLanes, StepOneCall, StepFollows DEF Followed
<1>3. Followed => RunFollowsJobs
  BY DEF Followed
<1> QED BY <1>1, <1>2, <1>3, PTL DEF Spec

=============================================================================
