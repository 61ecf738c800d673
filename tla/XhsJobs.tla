------------------------------- MODULE XhsJobs -------------------------------
(***************************************************************************)
(* The job queue of xhs-intel: the notes of one recommendation run are     *)
(* collected, screened by a model (job "filter"), the included ones are    *)
(* summarised (job "summary"), and the delivery loop posts the summary to  *)
(* Feishu part by part.  Beside it the analysis of one single note (job    *)
(* "single"), which is delivered when somebody asks for that.              *)
(*                                                                         *)
(* Every method of the store is one BEGIN IMMEDIATE transaction, hence one *)
(* atomic step.  The AI workers are other processes that reach the store   *)
(* over HTTP: their calls may be lost, their answers may be lost, and a    *)
(* call they gave up may still be carried out later.                       *)
(***************************************************************************)
EXTENDS Naturals, FiniteSets

CONSTANTS
    Worker,       \* loops of the local AI workers
    Lane,         \* what each asks for: "", "interactive" or "batch"
    Caller,       \* threads that run a recommendation call of the same key
    Note,         \* notes the feed may show
    TextParts,    \* messages the text of a summary takes
    LinkParts,    \* at most so many more carry the signed links
    MaxAttempts,  \* attempts after which a failure is final (5)
    MaxCalls,     \* bound: recommendation calls
    MaxAsks,      \* bound: requests for the single note, retries of the filter
    MaxTrouble    \* bound: lost calls, failures, refusals, lapses, deaths

ASSUME XhsAssumption ==
    /\ Lane \in [Worker -> {"", "interactive", "batch"}]
    /\ IsFiniteSet(Note)
    /\ TextParts \in Nat \ {0}
    /\ LinkParts \in Nat
    /\ MaxAttempts \in Nat \ {0}
    /\ MaxCalls \in Nat /\ MaxAsks \in Nat /\ MaxTrouble \in Nat

Job == {"filter", "summary", "single"}
Part == 1 .. TextParts + LinkParts
Decision == {"include", "leave"}        \* review and exclude are both left out

VARIABLES
    jobs,      \* the table of jobs; token is lease_token, taken counts claims
    leased,    \* jobs in process whose lease_until is still ahead
    run,       \* status of the recommendation run
    items,     \* recommendation_items: the notes reserved for the run
    decided,   \* note_screenings: the decision on each note, "none" before
    wanted,    \* deliver_to_feishu in the payload of the single-note job
    caller,    \* where each recommendation call is
    worker,    \* what each worker does: [at, job, token]
    late,      \* calls of complete that their worker no longer waits for
    mail,      \* the delivery loop, one thread: [at, batch, job, part, last]
    parts,     \* delivery_parts: parts of each job recorded as sent
    seen,      \* parts of each job the chat has received, recorded or not
    refused,   \* parts the web hook refused, in an answer that counted as sent
    copies,    \* messages the chat has received in all
    calls, asks, trouble

jobVars == <<jobs, leased, run, items, decided, wanted>>
mailVars == <<mail, parts, seen, refused, copies>>
bounds == <<calls, asks, trouble>>
vars == <<jobVars, caller, worker, late, mailVars, bounds>>

Idle == [at |-> "idle", job |-> "single", token |-> 0]
Resting == [at |-> "rest", batch |-> {}, job |-> "single", part |-> 1, last |-> 0]
Ended == [Resting EXCEPT !.at = "ended"]
Absent == [status |-> "none", token |-> 0, taken |-> 0, attempts |-> 0,
           notes |-> {}, by |-> 0]

Init ==
    /\ jobs = [j \in Job |-> Absent]
    /\ leased = {}
    /\ run = "none"
    /\ items = {}
    /\ decided = [n \in Note |-> "none"]
    /\ wanted = FALSE
    /\ caller = [c \in Caller |-> "idle"]
    /\ worker = [w \in Worker |-> Idle]
    /\ late = {}
    /\ mail = Resting
    /\ parts = [j \in Job |-> {}]
    /\ seen = [j \in Job |-> {}]
    /\ refused = [j \in Job |-> {}]
    /\ copies = 0
    /\ calls = 0 /\ asks = 0 /\ trouble = 0

Trouble == trouble < MaxTrouble /\ trouble' = trouble + 1
Ask == asks < MaxAsks /\ asks' = asks + 1

-----------------------------------------------------------------------------
(* Recommendation calls: run_recommendation and collect_recommendations.   *)

Duplicates == {"summary_queued", "filtered", "filter_queued", "collected", "running"}

\* A call looks at the run first and returns at once when it is under way.
Call(c) ==
    /\ caller[c] = "idle"
    /\ calls < MaxCalls
    /\ run \notin Duplicates
    /\ calls' = calls + 1
    /\ caller' = [caller EXCEPT ![c] = "create"]
    /\ UNCHANGED <<jobVars, worker, late, mailVars, asks, trouble>>

\* create_recommendation_run: a run that exists by now is left as it is.
CreateRun(c) ==
    /\ caller[c] = "create"
    /\ run' = IF run = "none" THEN "running" ELSE run
    /\ caller' = [caller EXCEPT ![c] = "empty"]
    /\ UNCHANGED <<jobs, leased, items, decided, wanted, worker, late, mailVars, bounds>>

\* add_recommendation_item: the note is reserved for the run.
AddItem(c, n) ==
    /\ caller[c] \in {"empty", "fetched"}
    /\ items' = items \cup {n}
    /\ caller' = [caller EXCEPT ![c] = "fetched"]
    /\ UNCHANGED <<jobs, leased, run, decided, wanted, worker, late, mailVars, bounds>>

\* Mutant of FinishCollection: the status of the collection goes into the run.
FinishWithResult(c) ==
    /\ caller[c] \in {"empty", "fetched"}
    /\ run' = IF caller[c] = "fetched" THEN "partial" ELSE "failed"
    /\ caller' = [caller EXCEPT ![c] = IF @ = "fetched" THEN "queue" ELSE "idle"]
    /\ UNCHANGED <<jobs, leased, items, decided, wanted, worker, late, mailVars, bounds>>

\* finish_recommendation_collection sets the status whatever it was.  With
\* something fetched the call goes on to queue the screening, failed or not.
FinishCollection(c) ==
    /\ caller[c] \in {"empty", "fetched"}
    /\ \/ run' = "collected" /\ UNCHANGED trouble
       \/ run' = "failed" /\ Trouble
    /\ caller' = [caller EXCEPT ![c] = IF @ = "fetched" THEN "queue" ELSE "idle"]
    /\ UNCHANGED <<jobs, leased, items, decided, wanted, worker, late, mailVars, calls, asks>>

NewJob(j, notes) == [jobs EXCEPT ![j] = [Absent EXCEPT !.status = "pending", !.notes = notes]]

\* queue_recommendation_filter: a run whose job exists is left as it is.
QueueFilter(c) ==
    /\ caller[c] = "queue"
    /\ IF jobs["filter"].status = "none"
       THEN /\ jobs' = NewJob("filter", items)
            /\ run' = "filter_queued"
       ELSE UNCHANGED <<jobs, run>>
    /\ caller' = [caller EXCEPT ![c] = "idle"]
    /\ UNCHANGED <<leased, items, decided, wanted, worker, late, mailVars, bounds>>

\* The transaction raises (the database is locked): filter_error, no job.
QueueFilterRaises(c) ==
    /\ caller[c] = "queue"
    /\ Trouble
    /\ caller' = [caller EXCEPT ![c] = "idle"]
    /\ UNCHANGED <<jobVars, worker, late, mailVars, calls, asks>>

Unclaimed(row) == [row EXCEPT !.status = "pending", !.attempts = 0, !.token = 0]

\* Mutant of RetryFilter: the job alone is reset.
RetryJobOnly ==
    /\ jobs["filter"].status = "failed"
    /\ Ask
    /\ jobs' = [jobs EXCEPT !["filter"] = Unclaimed(@)]
    /\ UNCHANGED <<leased, run, items, decided, wanted, caller, worker, late, mailVars, calls, trouble>>

\* retry_recommendation_filter, on the dashboard.
RetryFilter ==
    /\ jobs["filter"].status = "failed"
    /\ Ask
    /\ jobs' = [jobs EXCEPT !["filter"] = Unclaimed(@)]
    /\ run' = IF run = "filter_failed" THEN "filter_queued" ELSE run
    /\ UNCHANGED <<leased, items, decided, wanted, caller, worker, late, mailVars, calls, trouble>>

\* Mutant of EnqueueSingle: a finished analysis is not made ready again.
EnqueueSingleOnce(deliver) ==
    LET row == jobs["single"] IN
    /\ Ask
    /\ wanted' = (wanted \/ deliver)
    /\ jobs' = CASE row.status = "none" -> NewJob("single", {})
                 [] row.status = "failed" -> [jobs EXCEPT !["single"] = Unclaimed(@)]
                 [] OTHER -> jobs
    /\ UNCHANGED <<leased, run, items, decided, caller, worker, late, mailVars, calls, trouble>>

\* enqueue_single_note: new, again for delivery, or again after a failure.
EnqueueSingle(deliver) ==
    LET row == jobs["single"]  want == wanted \/ deliver IN
    /\ Ask
    /\ wanted' = want
    /\ jobs' = CASE row.status = "none" -> NewJob("single", {})
                 [] row.status = "failed" -> [jobs EXCEPT !["single"] = Unclaimed(@)]
                 [] row.status = "completed" /\ want -> [jobs EXCEPT !["single"].status = "ready"]
                 [] OTHER -> jobs
    /\ UNCHANGED <<leased, run, items, decided, caller, worker, late, mailVars, calls, trouble>>

-----------------------------------------------------------------------------
(* AI workers: claim, complete and fail.                                   *)

Serves(w, j) ==
    CASE Lane[w] = "interactive" -> j = "single"
      [] Lane[w] = "batch" -> j # "single"
      [] OTHER -> TRUE

\* Mutant of Claimable: a job whose worker died is not taken up again.
ClaimablePending(j) == jobs[j].status = "pending"

Claimable(j) ==
    \/ jobs[j].status = "pending"
    \/ jobs[j].status = "processing" /\ j \notin leased

\* A single note goes first, unless a failure has delayed it; of the other two
\* jobs one waits for the other.
Precedes(j) ==
    /\ j # "single"
    /\ Claimable("single")
    /\ jobs["single"].status = "pending" => jobs["single"].attempts = 0

Claimed(row) == [row EXCEPT !.status = "processing", !.token = row.taken + 1,
                            !.taken = row.taken + 1, !.attempts = row.attempts + 1]

\* claim; the answer, with the token, may be lost.
Claim(w, j) ==
    /\ worker[w].at = "idle"
    /\ Serves(w, j)
    /\ Claimable(j)
    /\ Lane[w] = "" => ~Precedes(j)
    /\ jobs' = [jobs EXCEPT ![j] = Claimed(@)]
    /\ leased' = leased \cup {j}
    /\ \/ /\ worker' = [worker EXCEPT ![w] = [at |-> "work", job |-> j, token |-> jobs[j].taken + 1]]
          /\ UNCHANGED trouble
       \/ Trouble /\ UNCHANGED worker
    /\ UNCHANGED <<run, items, decided, wanted, caller, late, mailVars, calls, asks>>

\* Mutant of Holds: the token alone is compared.
HoldsToken(j, t) == jobs[j].token = t

Holds(j, t) == jobs[j].token = t /\ jobs[j].status = "processing"
\* Mutant of MayComplete: any worker settles a job in process.
MayCompleteAny(j, t) == jobs[j].status = "processing" /\ j \in leased

MayComplete(j, t) == Holds(j, t) /\ j \in leased

Done(row, status, t) == [row EXCEPT !.status = status, !.by = t]

\* complete of a summary or an analysis by the holder of the lease.
CompleteText(j, t) ==
    /\ j # "filter"
    /\ MayComplete(j, t)
    /\ jobs' = [jobs EXCEPT ![j] =
                  Done(@, IF j = "single" /\ ~wanted THEN "completed" ELSE "ready", t)]
    /\ leased' = leased \ {j}
    /\ run' = IF j = "summary" /\ run = "summary_queued" THEN "summary_ready" ELSE run
    /\ UNCHANGED <<items, decided, wanted>>

\* complete_filter: the screening covers the notes of the job's payload.
CompleteFilter(t) ==
    /\ MayComplete("filter", t)
    /\ \E d \in [jobs["filter"].notes -> Decision] :
         LET included == {n \in DOMAIN d : d[n] = "include"}
             summarise == included # {} /\ jobs["summary"].status = "none"
         IN
         /\ decided' = [n \in Note |-> IF n \in DOMAIN d THEN d[n] ELSE decided[n]]
         /\ jobs' = [j \in Job |->
                       CASE j = "filter" -> Done(jobs[j], "completed", t)
                         [] j = "summary" /\ summarise ->
                              [Absent EXCEPT !.status = "pending", !.notes = included]
                         [] OTHER -> jobs[j]]
         /\ run' = IF included # {} THEN "summary_queued" ELSE "filtered"
    /\ leased' = leased \ {"filter"}
    /\ UNCHANGED <<items, wanted>>

\* What a call of complete does to the store, answered 200 or 409.
Complete(j, t) == IF j = "filter" THEN CompleteFilter(t) ELSE CompleteText(j, t)
Refused(j, t) == ~MayComplete(j, t) /\ UNCHANGED jobVars

\* The call is carried out and its answer arrives.
Finish(w) ==
    /\ worker[w].at = "work"
    /\ \/ /\ Complete(worker[w].job, worker[w].token)
          /\ worker' = [worker EXCEPT ![w] = Idle]
       \/ /\ Refused(worker[w].job, worker[w].token)
          /\ worker' = [worker EXCEPT ![w].at = "fail"]
    /\ UNCHANGED <<caller, late, mailVars, bounds>>

\* The model call raises, the result is refused as invalid, or the worker stops
\* waiting: then its call of complete may be lost, or be carried out later.
GiveUp(w) ==
    /\ worker[w].at = "work"
    /\ Trouble
    /\ worker' = [worker EXCEPT ![w].at = "fail"]
    /\ \/ late' = late \cup {[job |-> worker[w].job, token |-> worker[w].token]}
       \/ UNCHANGED late
    /\ UNCHANGED <<jobVars, caller, mailVars, calls, asks>>

CompleteLate(m) ==
    /\ m \in late
    /\ Complete(m.job, m.token) \/ Refused(m.job, m.token)
    /\ late' = late \ {m}
    /\ UNCHANGED <<caller, worker, mailVars, bounds>>

\* fail: for the holder of the token, also after its lease has lapsed.
Fail(w) ==
    LET j == worker[w].job
        final == jobs[j].attempts >= MaxAttempts
    IN
    /\ worker[w].at = "fail"
    /\ IF Holds(j, worker[w].token)
       THEN /\ jobs' = [jobs EXCEPT ![j].status = IF final THEN "failed" ELSE "pending"]
            /\ leased' = leased \ {j}
            /\ run' = IF final /\ j = "filter" /\ run = "filter_queued" THEN "filter_failed" ELSE run
       ELSE UNCHANGED <<jobs, leased, run>>
    /\ worker' = [worker EXCEPT ![w] = Idle]
    /\ UNCHANGED <<items, decided, wanted, caller, late, mailVars, bounds>>

\* A worker dies, or its call of fail is lost.
Vanish(w) ==
    /\ worker[w].at # "idle"
    /\ Trouble
    /\ worker' = [worker EXCEPT ![w] = Idle]
    /\ UNCHANGED <<jobVars, caller, late, mailVars, calls, asks>>

WorkedOn(j) == \E w \in Worker : worker[w].at = "work" /\ worker[w].job = j /\ worker[w].token = jobs[j].token

\* 180 seconds without a heartbeat that arrived.  heartbeat itself renews only
\* a lease that has not run out, so it changes nothing here.
LapseLease(j) ==
    /\ j \in leased
    /\ leased' = leased \ {j}
    /\ IF WorkedOn(j) THEN Trouble ELSE UNCHANGED trouble
    /\ UNCHANGED <<jobs, run, items, decided, wanted, caller, worker, late, mailVars, calls, asks>>

-----------------------------------------------------------------------------
(* The delivery loop: one thread, started with the process.  What raises    *)
(* out of deliver_one is noted with delivery_error; what raises out of       *)
(* ready_deliveries or of delivery_error ends the thread.                    *)

\* ready_deliveries
Look ==
    /\ mail.at = "rest"
    /\ mail.batch = {}
    /\ mail' = [mail EXCEPT !.batch = {j \in Job : jobs[j].status = "ready"}]
    /\ UNCHANGED <<jobVars, caller, worker, late, parts, seen, refused, copies, bounds>>

LookRaises ==
    /\ mail.at = "rest"
    /\ mail.batch = {}
    /\ Trouble
    /\ mail' = Ended
    /\ UNCHANGED <<jobVars, caller, worker, late, parts, seen, refused, copies, calls, asks>>

\* deliver_one cuts the text again, with the links it can sign at this time.
Open(j) ==
    /\ mail.at = "rest"
    /\ j \in mail.batch
    /\ \E k \in TextParts .. TextParts + LinkParts :
         mail' = [at |-> "part", batch |-> mail.batch \ {j}, job |-> j, part |-> 1, last |-> k]
    /\ UNCHANGED <<jobVars, caller, worker, late, parts, seen, refused, copies, bounds>>

Next1 == [mail EXCEPT !.at = "part", !.part = @ + 1]
GivenUp == [Resting EXCEPT !.batch = mail.batch]
Caught == mail' \in {GivenUp, Ended}

Lands ==
    /\ seen' = [seen EXCEPT ![mail.job] = @ \cup {mail.part}]
    /\ copies' = copies + 1
    /\ UNCHANGED refused
IsRefused ==
    /\ refused' = [refused EXCEPT ![mail.job] = @ \cup {mail.part}]
    /\ UNCHANGED <<seen, copies>>

\* delivered_part
SkipPart ==
    /\ mail.at = "part"
    /\ mail.part <= mail.last
    /\ mail.part \in parts[mail.job]
    /\ mail' = Next1
    /\ UNCHANGED <<jobVars, caller, worker, late, parts, seen, refused, copies, bounds>>

\* Mutant of PostPart: what is recorded is not asked.
PostAgain ==
    /\ mail.at = "part"
    /\ mail.part <= mail.last
    /\ Lands
    /\ mail' = [mail EXCEPT !.at = "record"]
    /\ UNCHANGED <<jobVars, caller, worker, late, parts, bounds>>

\* The answer's status is 200.  Its body, which may hold a refusal (a rate limit,
\* a keyword that is missing), is not looked at.
PostPart ==
    /\ mail.at = "part"
    /\ mail.part <= mail.last
    /\ mail.part \notin parts[mail.job]
    /\ \/ Lands /\ UNCHANGED trouble
       \/ IsRefused /\ Trouble
    /\ mail' = [mail EXCEPT !.at = "record"]
    /\ UNCHANGED <<jobVars, caller, worker, late, parts, calls, asks>>

\* Mutant of PostRaises: the loop over the parts goes on.
PostRaisesGoesOn ==
    /\ mail.at = "part"
    /\ mail.part <= mail.last
    /\ mail.part \notin parts[mail.job]
    /\ Trouble
    /\ Lands \/ UNCHANGED <<seen, refused, copies>>
    /\ mail' = Next1
    /\ UNCHANGED <<jobVars, caller, worker, late, parts, calls, asks>>

\* The post raises, whether the chat has the message or not.
PostRaises ==
    /\ mail.at = "part"
    /\ mail.part <= mail.last
    /\ mail.part \notin parts[mail.job]
    /\ Trouble
    /\ Lands \/ UNCHANGED <<seen, refused, copies>>
    /\ Caught
    /\ UNCHANGED <<jobVars, caller, worker, late, parts, calls, asks>>

\* record_delivery
RecordPart ==
    /\ mail.at = "record"
    /\ parts' = [parts EXCEPT ![mail.job] = @ \cup {mail.part}]
    /\ mail' = Next1
    /\ UNCHANGED <<jobVars, caller, worker, late, seen, refused, copies, bounds>>

\* Anything else in deliver_one raises: the result, the links, the address of
\* the web hook, or a statement of the store.
TryRaises ==
    /\ mail.at \in {"part", "record"}
    /\ Trouble
    /\ Caught
    /\ UNCHANGED <<jobVars, caller, worker, late, parts, seen, refused, copies, calls, asks>>

\* delivered
Delivered ==
    /\ mail.at = "part"
    /\ mail.part > mail.last
    /\ LET j == mail.job  ready == jobs[j].status = "ready" IN
       /\ jobs' = IF ready THEN [jobs EXCEPT ![j].status = "sent"] ELSE jobs
       /\ run' = IF ready /\ j = "summary" /\ run \in {"summary_ready", "summary_queued"}
                 THEN "sent" ELSE run
    /\ mail' = GivenUp
    /\ UNCHANGED <<leased, items, decided, wanted, caller, worker, late, parts, seen, refused, copies, bounds>>

\* The edge process dies, or is started again for a delivery loop that has ended;
\* the store stays, the workers too.
Restart ==
    /\ IF mail.at = "ended" THEN UNCHANGED trouble ELSE Trouble
    /\ caller' = [c \in Caller |-> "idle"]
    /\ mail' = Resting
    /\ late' = {}
    /\ UNCHANGED <<jobVars, worker, parts, seen, refused, copies, calls, asks>>

-----------------------------------------------------------------------------
Recommend(c) ==
    \/ Call(c)
    \/ CreateRun(c)
    \/ \E n \in Note : AddItem(c, n)
    \/ FinishCollection(c)
    \/ QueueFilter(c)
    \/ QueueFilterRaises(c)

Work(w) ==
    \/ \E j \in Job : Claim(w, j)
    \/ Finish(w)
    \/ GiveUp(w)
    \/ Fail(w)
    \/ Vanish(w)

Deliver ==
    \/ Look
    \/ LookRaises
    \/ \E j \in Job : Open(j)
    \/ SkipPart
    \/ PostPart
    \/ PostRaises
    \/ RecordPart
    \/ TryRaises
    \/ Delivered

Next ==
    \/ \E c \in Caller : Recommend(c)
    \/ RetryFilter
    \/ \E deliver \in BOOLEAN : EnqueueSingle(deliver)
    \/ \E w \in Worker : Work(w)
    \/ \E m \in late : CompleteLate(m)
    \/ \E j \in Job : LapseLease(j)
    \/ Deliver
    \/ Restart

Spec == Init /\ [][Next]_vars

\* The loops of the edge and of the workers go on, the delivery loop as long as
\* its thread has not ended; what is asked is answered when nothing fails, and
\* MaxTrouble makes failures finitely many.
Fairness ==
    /\ \A w \in Worker : WF_vars((\E j \in Job : Claim(w, j)) \/ Finish(w) \/ Fail(w))
    /\ WF_vars(\E j \in Job : LapseLease(j))
    /\ WF_vars(Look \/ (\E j \in Job : Open(j)) \/ SkipPart \/ PostPart \/ RecordPart \/ Delivered)

FairSpec == Spec /\ Fairness

-----------------------------------------------------------------------------
Row == [status : {"none", "pending", "processing", "ready", "completed", "sent", "failed"},
        token : Nat, taken : Nat, attempts : Nat, notes : SUBSET Note, by : Nat]

\* Every variable keeps its type; a token that is held has been given out.
TypeOK ==
    /\ jobs \in [Job -> Row]
    /\ leased \subseteq Job
    /\ run \in {"none", "running", "collected", "failed", "filter_queued", "filter_failed",
               "filtered", "summary_queued", "summary_ready", "sent"}
    /\ items \subseteq Note
    /\ decided \in [Note -> Decision \cup {"none"}]
    /\ wanted \in BOOLEAN
    /\ caller \in [Caller -> {"idle", "create", "empty", "fetched", "queue"}]
    /\ worker \in [Worker -> [at : {"idle", "work", "fail"}, job : Job, token : Nat]]
    /\ late \subseteq [job : Job, token : Nat]
    /\ mail \in [at : {"rest", "part", "record", "ended"}, batch : SUBSET Job, job : Job,
                 part : Nat, last : 0 .. TextParts + LinkParts]
    /\ parts \in [Job -> SUBSET Part]
    /\ seen \in [Job -> SUBSET Part]
    /\ refused \in [Job -> SUBSET Part]
    /\ copies \in Nat
    /\ calls \in Nat /\ asks \in Nat /\ trouble \in Nat

\* The result of a job is that of the worker who claimed it last: a worker
\* whose job was given to another never settles it, however late its call is
\* carried out (complete, complete_filter and fail compare the token).
LastClaimSettles ==
    \A j \in Job : jobs[j].status \in {"ready", "completed", "sent"} => jobs[j].by = jobs[j].taken

\* A run is summarised once, from the notes that its screening included and from
\* nothing else: a second worker that finishes the same screening with other
\* decisions neither changes them under the summary nor adds a summary.
OnlyIncluded ==
    jobs["summary"].status # "none" =>
        /\ jobs["filter"].status = "completed"
        /\ jobs["summary"].notes = {n \in Note : decided[n] = "include"}

\* As long as one call collected the run, its status on the dashboard is that of
\* its jobs, whichever worker, retry or delivery moved them.
RunFollowsJobs ==
    LET filter == jobs["filter"].status  summary == jobs["summary"].status IN
    calls <= 1 =>
        run \in CASE filter = "none" -> {"none", "running", "collected", "failed"}
                  [] filter \in {"pending", "processing"} -> {"filter_queued"}
                  [] filter = "failed" -> {"filter_failed"}
                  [] filter = "completed" /\ summary = "none" -> {"filtered"}
                  [] filter = "completed" /\ summary = "ready" -> {"summary_ready"}
                  [] filter = "completed" /\ summary = "sent" -> {"sent"}
                  [] OTHER -> {"summary_queued"}

\* Somebody who asked for a single note to be delivered does not find its
\* analysis parked as finished, whether the request came before the claim,
\* during the work or after it.
WantedIsNotParked == wanted => jobs["single"].status # "completed"

\* A job that counts as sent has had every part of its text posted and recorded,
\* even if its links were cut into another number of parts at each try, and a
\* part is recorded only after a post that was answered: the chat has received
\* it, or the answer refused it, which nobody reads.
SentIsWhole ==
    \A j \in Job :
        /\ jobs[j].status = "sent" => 1 .. TextParts \subseteq parts[j]
        /\ parts[j] \subseteq seen[j] \cup refused[j]

Recorded == {x \in Job \X Part : x[2] \in parts[x[1]]}

\* A part that is recorded is not posted again, after however many tries and
\* restarts: every message the chat has received is that of a recorded part, the
\* one being recorded, or has a failure or a crash of its own to explain it.
CopiesExplained ==
    copies <= Cardinality(Recorded) + (IF mail.at = "record" THEN 1 ELSE 0) + trouble

\* Every job that is queued is sent, finished without delivery, or failed for
\* good in the end: an abandoned claim is taken up again, a job that is ready is
\* posted after failed deliveries and after a crash.  Only when the thread that
\* delivers has ended, ready jobs wait for the next start of the process.
EventuallySettled ==
    \A j \in Job :
        jobs[j].status \in {"pending", "processing", "ready"} ~>
            \/ jobs[j].status \in {"completed", "sent", "failed"}
            \/ jobs[j].status = "ready" /\ mail.at = "ended"
=============================================================================
