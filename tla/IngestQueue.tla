------------------------------ MODULE IngestQueue ------------------------------
(* The adapter's ingestion of one chat message (index.mjs) and its ledger     *)
(* rows (ledger.mjs): the ingress stores a job, its assets and an outbox row; *)
(* one worker delivers the outbox to n8n and retries; the operator may ask    *)
(* for a retry; n8n reports back; a restart re-queues what has no outbox row. *)
(* Every await that touches the ledger or the network ends a step.  A query   *)
(* that raises has changed nothing.                                           *)
EXTENDS Naturals, FiniteSets

CONSTANTS
    Handler,     \* deliveries of the message: long connection, poll, replay
    N,           \* its media, by ordinal
    MaxManual,   \* bound: retries the operator asks for
    MaxTrouble   \* bound: crashes, raised queries, lost answers, slow clean-ups

ASSUME IngestAssumption ==
    N \in Nat /\ MaxManual \in Nat /\ MaxTrouble \in Nat

Media == 1..N
Open == {"queued", "uploading", "submitting", "retryable_failed"}
Done == {"completed", "filtered", "analysis_pending"}
JobStatus == {"none", "failed"} \cup Open \cup Done
Asset == [rec : BOOLEAN, parts : BOOLEAN, up : BOOLEAN, done : BOOLEAN, file : BOOLEAN]
Outbox == [st : {"none", "queued", "processing", "retryable_failed", "completed", "failed"},
           tries : 0..2, due : BOOLEAN]
Ingress == [at : {"idle", "create", "record", "parts", "queue", "enqueue", "refuse"},
            files : SUBSET Media, next : 1..N + 1]
Delivering == {"load", "filter", "begin", "assets", "parts", "send", "finalize",
               "finish", "close"}
Settling == {"caught", "mark", "giveup"}
Worker == [at : {"idle"} \cup Delivering \cup Settling, res : SUBSET Media,
           todo : SUBSET Media, parts : SUBSET Media, up : SUBSET Media, files : SUBSET Media,
           fresh : BOOLEAN, keep : BOOLEAN, fix : BOOLEAN]
Slip == {"cut", "overlap", "half"}

VARIABLES
    job,        \* ingestion_jobs.status of the message
    asset,      \* ingestion_assets: recorded, with its part rows; a part uploaded,
                \* completed; file on disk
    outbox,     \* its ingestion_delivery_outbox row; due: claimable by the clock
    analysis,   \* its analysis_jobs row
    ingress,    \* where each delivery of the message is
    worker,     \* where runDeliveryQueue is and what it carries
    retrying,   \* retryJob is between its two statements
    analysing,  \* completeAnalysis is between its two statements
    sent,       \* submissions n8n accepted
    whole,      \* one of them carried every medium
    slips,      \* what went wrong around the rows
    manual, trouble

vars == <<job, asset, outbox, analysis, ingress, worker, retrying, analysing,
          sent, whole, slips, manual, trouble>>
logVars == <<sent, whole, slips, manual, trouble>>
sideVars == <<analysis, retrying, analysing>>

NoAsset == [rec |-> FALSE, parts |-> FALSE, up |-> FALSE, done |-> FALSE, file |-> FALSE]
Away == [at |-> "idle", files |-> {}, next |-> 1]
Idle == [at |-> "idle", res |-> {}, todo |-> {}, parts |-> {}, up |-> {}, files |-> {},
         fresh |-> FALSE, keep |-> FALSE, fix |-> FALSE]

Init ==
    /\ job = "none" /\ analysis = "none"
    /\ asset = [i \in Media |-> NoAsset]
    /\ outbox = [st |-> "none", tries |-> 0, due |-> FALSE]
    /\ ingress = [h \in Handler |-> Away]
    /\ worker = Idle
    /\ retrying = FALSE /\ analysing = FALSE
    /\ sent = 0 /\ whole = FALSE /\ slips = {} /\ manual = 0 /\ trouble = 0

Turn == {i \in worker.todo : \A j \in worker.todo : i <= j}   \* the medium the loop is at
Trouble == trouble < MaxTrouble /\ trouble' = trouble + 1
Storing == \E h \in Handler : ingress[h].at \in {"record", "parts", "queue", "enqueue", "refuse"}

--------------------------------------------------------------------------------
(* The ingress: forwardToN8n up to durable acceptance.                        *)

Goes(h, x) == ingress' = [ingress EXCEPT ![h] = x]

\* A known message is answered as a duplicate, whatever became of its job;
\* else its media are downloaded (a failed download raises, nothing is kept).
Receive(h) ==
    /\ ingress[h].at = "idle"
    /\ IF job # "none" THEN UNCHANGED ingress
       ELSE Goes(h, [Away EXCEPT !.at = "create", !.files = Media])
    /\ UNCHANGED <<job, asset, outbox, worker, sideVars, logVars>>

\* Mutants of AfterRecord: the last asset is left out, or looked for beyond.
AfterRecordEarly(n) == IF n >= N THEN "queue" ELSE "record"
AfterRecordLate(n) == IF n > N + 1 THEN "queue" ELSE "record"
AfterRecord(n) == IF n > N THEN "queue" ELSE "record"

\* Mutant of Unseen: without the unique key a second delivery starts over.
UnseenEver == TRUE
Unseen == job = "none"

\* getOrCreateJob: the unique key lets one insert win.  A late reader is
\* answered as a duplicate, a loser of the race raises and removes its own
\* files: neither touches the ledger.
Creates(h) ==
    /\ ingress[h].at = "create"
    /\ \/ Unseen /\ job' = "queued" /\ Goes(h, [ingress[h] EXCEPT !.at = AfterRecord(1)])
       \/ ~Unseen /\ Goes(h, Away) /\ UNCHANGED job
    /\ UNCHANGED <<asset, outbox, worker, sideVars, logVars>>

\* recordAsset: the row of the asset, then one query for each of its parts, of
\* which the last counts.
Records(h) ==
    LET n == ingress[h].next IN
    /\ ingress[h].at = "record"
    /\ asset' = [asset EXCEPT ![n].rec = TRUE, ![n].file = n \in ingress[h].files]
    /\ Goes(h, [ingress[h] EXCEPT !.at = "parts"])
    /\ UNCHANGED <<job, outbox, worker, sideVars, logVars>>

RecordsParts(h) ==
    LET n == ingress[h].next IN
    /\ ingress[h].at = "parts"
    /\ asset' = [asset EXCEPT ![n].parts = TRUE]
    /\ Goes(h, [ingress[h] EXCEPT !.next = n + 1, !.at = AfterRecord(n + 1)])
    /\ UNCHANGED <<job, outbox, worker, sideVars, logVars>>

Queues(h) ==
    /\ ingress[h].at = "queue"
    /\ job' = "queued" /\ Goes(h, [ingress[h] EXCEPT !.at = "enqueue"])
    /\ UNCHANGED <<asset, outbox, worker, sideVars, logVars>>

Enqueued == [outbox EXCEPT !.st = "queued", !.due = TRUE]

Enqueues(h) ==
    /\ ingress[h].at = "enqueue"
    /\ outbox' = Enqueued /\ Goes(h, Away)
    /\ UNCHANGED <<job, asset, worker, sideVars, logVars>>

\* A query raises.  Before the insert the files go and the error is answered;
\* after it the catch block runs, unless the ledger is still away and the catch
\* block raises as well.
IngressRaises(h) ==
    /\ Trouble
    /\ \/ ingress[h].at = "create" /\ Goes(h, Away) /\ UNCHANGED slips
       \/ /\ ingress[h].at \in {"record", "parts", "queue", "enqueue"}
          /\ Goes(h, [ingress[h] EXCEPT !.at = "refuse"]) /\ slips' = slips \cup {"cut"}
       \/ /\ ingress[h].at \in {"record", "parts", "queue", "enqueue", "refuse"}
          /\ Goes(h, Away) /\ slips' = slips \cup {"cut", "half"}
    /\ UNCHANGED <<job, asset, outbox, worker, sideVars, sent, whole, manual>>

\* Mutant of Refused: the catch block leaves the job as it stands.
RefusedAsIs(j) == j
Refused(j) == "failed"

Refuses(h) ==
    /\ ingress[h].at = "refuse"
    /\ job' = Refused(job)
    /\ asset' = [i \in Media |-> [asset[i] EXCEPT !.file = @ /\ i \notin ingress[h].files]]
    /\ Goes(h, Away)
    /\ UNCHANGED <<outbox, worker, sideVars, logVars>>

--------------------------------------------------------------------------------
(* The worker: runDeliveryQueue around dispatchToN8n.  One run at a time in   *)
(* the process (singleFlight), one row a run.                                 *)

Step(x) == worker' = [worker EXCEPT !.at = x]
Catch == worker' = [Idle EXCEPT !.at = "caught"]

\* Mutant of Claimable: a row whose worker died is never taken over.
ClaimableLive == outbox.due /\ outbox.st \in {"queued", "retryable_failed"}
Claimable == outbox.due /\ outbox.st \in {"queued", "retryable_failed", "processing"}

Claims ==
    /\ worker.at = "idle" /\ Claimable
    /\ outbox' = [outbox EXCEPT !.st = "processing", !.due = FALSE,
                                !.tries = IF @ = 2 THEN 2 ELSE @ + 1]
    /\ Step("load")
    /\ UNCHANGED <<job, asset, ingress, sideVars, logVars>>

Recorded == {i \in Media : asset[i].rec}
Local == Recorded = Media /\ \A i \in Media : asset[i].file
Redownload == outbox.tries > 1 /\ N > 0 /\ ~Local

Redownloads ==
    /\ worker.at = "load" /\ Redownload
    /\ worker' = [worker EXCEPT !.at = "begin", !.res = Media, !.parts = Media,
                                !.files = Media, !.fresh = TRUE]
    /\ UNCHANGED <<job, asset, outbox, ingress, sideVars, logVars>>

\* The source cannot be read again, or a file is gone.
CannotLoad ==
    /\ worker.at = "load"
    /\ Redownload \/ \E i \in Recorded : ~asset[i].file
    /\ Catch
    /\ UNCHANGED <<job, asset, outbox, ingress, sideVars, logVars>>

\* With no asset recorded the text goes alone, or, there being none, the job is
\* filtered: this is asked once, on a first attempt.  (hydrateRemotePartState
\* only spares an upload and is left out.)
Loads ==
    /\ worker.at = "load" /\ ~Redownload /\ \A i \in Recorded : asset[i].file
    /\ \E to \in {"begin"} \cup (IF Recorded = {} /\ N > 0 THEN {"filter"} ELSE {}) :
       worker' = [worker EXCEPT !.at = to, !.res = Recorded,
                               !.parts = {i \in Recorded : asset[i].parts},
                               !.up = {i \in Recorded : asset[i].up}]
    /\ UNCHANGED <<job, asset, outbox, ingress, sideVars, logVars>>

Filters ==
    /\ worker.at = "filter" /\ job' = "filtered" /\ worker' = [Idle EXCEPT !.at = "close"]
    /\ UNCHANGED <<asset, outbox, ingress, sideVars, logVars>>

Begins ==
    /\ worker.at = "begin"
    /\ job' = IF worker.res = {} THEN "queued" ELSE "uploading"
    /\ worker' = [worker EXCEPT !.at = IF worker.res = {} THEN "send" ELSE "assets", !.todo = worker.res]
    /\ UNCHANGED <<asset, outbox, ingress, sideVars, logVars>>

\* The loop goes on behind medium i.
Onward(i) ==
    IF worker.todo = {i} THEN [worker EXCEPT !.at = "send", !.todo = worker.res,
                                             !.files = {}, !.fresh = FALSE]
                         ELSE [worker EXCEPT !.at = "assets", !.todo = @ \ {i}]

\* recordAsset again: a fresh download's file takes the place of the old one.
\* Only a fresh download may know parts that are not recorded.
Rerecords(i) ==
    /\ worker.at = "assets" /\ i \in Turn
    /\ asset' = [asset EXCEPT ![i].rec = TRUE,
                              ![i].file = IF worker.fresh THEN i \in worker.files ELSE @]
    /\ worker' = IF worker.fresh THEN [worker EXCEPT !.at = "parts"] ELSE Onward(i)
    /\ UNCHANGED <<job, outbox, ingress, sideVars, logVars>>

RerecordsParts(i) ==
    /\ worker.at = "parts" /\ i \in Turn
    /\ asset' = [asset EXCEPT ![i].parts = TRUE] /\ worker' = Onward(i)
    /\ UNCHANGED <<job, outbox, ingress, sideVars, logVars>>

Sending == worker.at = "send" /\ Turn \cap worker.up = {}

\* One part of a medium: taken, refused for now (409, 5xx, no JSON), refused
\* for good, or no answer at all.  A part known to be up is not sent again; an
\* asset loaded without (all) its part rows has nothing to finalize.
SkipsPart ==
    /\ worker.at = "send" /\ Turn \cap worker.up # {}
    /\ Step("finalize")
    /\ UNCHANGED <<job, asset, outbox, ingress, sideVars, logVars>>

SendsPart(i) ==
    /\ Sending /\ i \in Turn \cap worker.parts /\ asset[i].file
    /\ job' = "uploading" /\ asset' = [asset EXCEPT ![i].up = TRUE] /\ Step("finalize")
    /\ UNCHANGED <<outbox, ingress, sideVars, logVars>>

\* Refused by the part or text webhook; or no answer, no file to read the part
\* from, or refused by finalize, all of which leave the job's status alone.
SendFails ==
    /\ \/ /\ Sending /\ \A i \in Turn : asset[i].file
          /\ job' \in {"retryable_failed", "failed"}
       \/ (Sending \/ worker.at = "finalize") /\ UNCHANGED job
    /\ Catch
    /\ UNCHANGED <<asset, outbox, ingress, sideVars, logVars>>

\* n8n takes the submission: the last medium's finalize, or the text.
Submitted ==
    /\ sent' = sent + 1 /\ whole' = (whole \/ worker.res = Media)
    /\ UNCHANGED <<slips, manual>>

Finalizes(i) ==
    /\ worker.at = "finalize" /\ i \in Turn
    /\ job' = "submitting" /\ asset' = [asset EXCEPT ![i].done = TRUE]
    /\ IF worker.todo = {i}
       THEN worker' = [Idle EXCEPT !.at = "finish", !.res = worker.res] /\ Submitted /\ UNCHANGED trouble
       ELSE worker' = [worker EXCEPT !.at = "send", !.todo = @ \ {i}] /\ UNCHANGED logVars
    /\ UNCHANGED <<outbox, ingress, sideVars>>

SendsText ==
    /\ worker.at = "send" /\ worker.res = {}
    /\ Submitted /\ Step("finish")
    /\ UNCHANGED <<job, asset, outbox, ingress, sideVars, trouble>>

\* The submission is taken and its answer lost.
AnswerLost ==
    /\ Trouble
    /\ \/ worker.at = "finalize" /\ worker.todo = Turn
       \/ worker.at = "send" /\ worker.res = {}
    /\ Submitted /\ Catch
    /\ UNCHANGED <<job, asset, outbox, ingress, sideVars>>

Finishes ==
    /\ worker.at = "finish"
    /\ job' = "completed" /\ worker' = [Idle EXCEPT !.at = "close"]
    /\ asset' = [i \in Media |-> [asset[i] EXCEPT !.file = @ /\ i \notin worker.res]]
    /\ UNCHANGED <<outbox, ingress, sideVars, logVars>>

Closes ==
    /\ worker.at = "close"
    /\ outbox' = [outbox EXCEPT !.st = "completed", !.due = FALSE] /\ worker' = Idle
    /\ UNCHANGED <<job, asset, ingress, sideVars, logVars>>

\* The catch block: read the job, mark it unless the dispatch did, and put the
\* outbox row back, for a retry unless the job was read as failed.
Catches ==
    /\ worker.at = "caught"
    /\ worker' = [worker EXCEPT !.at = "mark", !.keep = job # "failed",
                                !.fix = job \notin {"failed", "retryable_failed"}]
    /\ UNCHANGED <<job, asset, outbox, ingress, sideVars, logVars>>

Marks ==
    /\ worker.at = "mark" /\ Step("giveup")
    /\ job' = IF worker.fix THEN "retryable_failed" ELSE job
    /\ UNCHANGED <<asset, outbox, ingress, sideVars, logVars>>

GivesUp ==
    /\ worker.at = "giveup" /\ worker' = Idle
    /\ outbox' = [outbox EXCEPT !.st = IF worker.keep THEN "retryable_failed" ELSE "failed", !.due = FALSE]
    /\ UNCHANGED <<job, asset, ingress, sideVars, logVars>>

\* A ledger query raises: the catch block takes over, or is itself left, or the
\* query that loads the job is not guarded by it; the row then waits for its
\* lease to lapse.
WorkerRaises ==
    /\ Trouble
    /\ \/ worker.at \in Delivering \ {"load"} /\ Catch
       \/ worker.at \in Settling \cup {"load"} /\ worker' = Idle
    /\ UNCHANGED <<job, asset, outbox, ingress, sideVars, sent, whole, slips, manual>>

\* available_at or lease_expires_at goes by.
ComesDue ==
    /\ ~outbox.due /\ outbox.st \in {"retryable_failed", "processing"}
    /\ outbox' = [outbox EXCEPT !.due = TRUE]
    /\ UNCHANGED <<job, asset, ingress, worker, sideVars, logVars>>

--------------------------------------------------------------------------------
(* The operator, the clean-up, n8n's report, restarts.                        *)

\* retryJob: two statements.
Retries ==
    /\ ~retrying /\ manual < MaxManual /\ job \in {"failed", "retryable_failed", "queued"}
    /\ job' = "queued" /\ retrying' = TRUE /\ manual' = manual + 1
    /\ slips' = slips \cup (IF worker.at # "idle" THEN {"overlap"} ELSE {})
                       \cup (IF Storing THEN {"cut", "overlap"} ELSE {})
    /\ UNCHANGED <<asset, outbox, analysis, ingress, worker, analysing, sent, whole, trouble>>

RetryEnqueues ==
    /\ retrying /\ retrying' = FALSE
    /\ \/ outbox' = Enqueued /\ UNCHANGED <<slips, trouble>>
       \/ Trouble /\ slips' = slips \cup {"half"} /\ UNCHANGED outbox
    /\ UNCHANGED <<job, asset, analysis, ingress, worker, analysing, sent, whole, manual>>

\* cleanupUnreferencedMedia: a file no open asset names and that has rested for
\* reconcileSeconds.  One still in somebody's hands rests that long only if the
\* work on its message is slow.
CleansUp(i) ==
    /\ \/ /\ asset[i].rec /\ asset[i].done /\ asset[i].file
          /\ asset' = [asset EXCEPT ![i].file = FALSE]
          /\ IF worker.at = "idle" THEN UNCHANGED trouble ELSE Trouble
          /\ UNCHANGED <<ingress, worker>>
       \/ /\ i \in worker.files /\ worker.at \in {"begin", "assets", "parts"} /\ Trouble
          /\ worker' = [worker EXCEPT !.files = @ \ {i}] /\ UNCHANGED <<asset, ingress>>
       \/ /\ Trouble /\ \E h \in Handler :
                i \in ingress[h].files /\ i >= ingress[h].next
                /\ Goes(h, [ingress[h] EXCEPT !.files = @ \ {i}])
          /\ UNCHANGED <<asset, worker>>
    /\ UNCHANGED <<job, outbox, sideVars, sent, whole, slips, manual>>

\* n8n's status callback (queueAnalysisByMessage), and the local analysis
\* queue that closes it in two statements.
Reported ==
    /\ sent > 0 /\ analysis # "completed"
    /\ analysis' = "pending" /\ job' = "analysis_pending"
    /\ UNCHANGED <<asset, outbox, ingress, worker, retrying, analysing, logVars>>

Analysed ==
    /\ \/ ~analysing /\ analysis = "pending" /\ analysis' = "completed" /\ analysing' = TRUE /\ UNCHANGED job
       \/ analysing /\ job' = "completed" /\ analysing' = FALSE /\ UNCHANGED analysis
    /\ UNCHANGED <<asset, outbox, ingress, worker, retrying, logVars>>

\* The process dies and starts again; init enqueues the open jobs that have no
\* outbox row.
Restart ==
    /\ Trouble
    /\ ingress' = [h \in Handler |-> Away] /\ worker' = Idle
    /\ retrying' = FALSE /\ analysing' = FALSE
    /\ outbox' = IF job \in Open /\ outbox.st = "none" THEN Enqueued ELSE outbox
    /\ slips' = slips \cup (IF Storing THEN {"cut"} ELSE {}) \cup (IF retrying THEN {"half"} ELSE {})
    /\ UNCHANGED <<job, asset, analysis, sent, whole, manual>>

--------------------------------------------------------------------------------
IngressStep(h) == Creates(h) \/ Records(h) \/ RecordsParts(h) \/ Queues(h) \/ Enqueues(h) \/ Refuses(h)

WorkerStep ==
    \/ Claims \/ Redownloads \/ CannotLoad \/ Loads \/ Filters \/ Begins
    \/ SkipsPart \/ SendFails \/ SendsText \/ Finishes \/ Closes \/ Catches \/ Marks \/ GivesUp
    \/ \E i \in Media : Rerecords(i) \/ RerecordsParts(i) \/ SendsPart(i) \/ Finalizes(i)

Next ==
    \/ \E h \in Handler : Receive(h) \/ IngressStep(h) \/ IngressRaises(h)
    \/ WorkerStep \/ AnswerLost \/ WorkerRaises \/ ComesDue
    \/ Retries \/ RetryEnqueues \/ \E i \in Media : CleansUp(i)
    \/ Reported \/ Analysed \/ Restart

Spec == Init /\ [][Next]_vars

\* The process runs: handlers, worker and timers go on; and n8n and the source
\* answer now and then: no request about a medium is refused for ever.
FairSpec ==
    /\ Spec
    /\ WF_vars(\E h \in Handler : IngressStep(h)) /\ WF_vars(RetryEnqueues)
    /\ WF_vars(WorkerStep) /\ WF_vars(ComesDue)
    /\ SF_vars(Redownloads)
    /\ \A i \in Media : SF_vars(SendsPart(i)) /\ SF_vars(Finalizes(i))

--------------------------------------------------------------------------------
\* Types.
TypeOK ==
    /\ job \in JobStatus /\ analysis \in {"none", "pending", "completed"}
    /\ asset \in [Media -> Asset] /\ outbox \in Outbox
    /\ ingress \in [Handler -> Ingress] /\ worker \in Worker
    /\ retrying \in BOOLEAN /\ analysing \in BOOLEAN
    /\ sent \in Nat /\ whole \in BOOLEAN /\ slips \subseteq Slip
    /\ manual \in 0..MaxManual /\ trouble \in 0..MaxTrouble

\* A delivery that is closed as completed has submitted the message with every
\* medium, also when assets' files were removed, re-read, half uploaded or
\* half finalized before; unless its ingress was cut short.
ClosedIsWhole ==
    outbox.st = "completed" /\ worker.at = "idle" => whole \/ "cut" \in slips

\* n8n never takes the message more often than once, once more for each retry
\* the operator asked for and once more for each answer, query or process lost:
\* neither duplicate deliveries of the event, nor a row enqueued again under a
\* working worker, nor a lapsed lease adds a submission.
SubmissionsExplained == sent <= 1 + manual + trouble

\* When nobody is at work and the outbox row will not be claimed, the job is
\* not left open: it is done, or shown as failed for the operator to retry;
\* unless an accepted retry overlapped the worker or was cut in half, or the
\* ingress could not even record its failure.
Resting == /\ worker.at = "idle" /\ ~retrying /\ \A h \in Handler : ingress[h].at = "idle"
           /\ outbox.st \in {"none", "completed", "failed"}
Excused == "overlap" \in slips \/ "half" \in slips
NothingStranded == Resting /\ job \in Open => Excused

\* An asset whose file is at hand and whose part rows nobody will complete: its
\* file keeps it from being downloaded again, each attempt finds nothing to send.
Partless ==
    /\ \E i \in Media : asset[i].rec /\ asset[i].file /\ ~asset[i].parts
    /\ worker.at # "parts" /\ \A h \in Handler : ingress[h].at # "parts"

\* A message that has a job is at last submitted, or its job is shown as failed
\* or filtered, whatever n8n refuses and wherever the process restarts: in its
\* ingress, its delivery or their catch blocks; with the same exceptions, and
\* unless a crash fell between the row of an asset and those of its parts.
AcceptedIsSettled ==
    job # "none" ~> (sent > 0 \/ job \in {"failed", "filtered"} \/ Excused \/ Partless)
================================================================================
