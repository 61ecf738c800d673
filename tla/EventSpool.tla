----------------------------- MODULE EventSpool -----------------------------
(***************************************************************************)
(* The Feishu bridge's inbound path: the durable event spool (SQLite, one  *)
(* transaction per method, so each method is one atomic step here) and the *)
(* coroutines that drive it.  Any number of on_message handlers (live      *)
(* frames and private-history re-reads) run beside the single replay loop; *)
(* between two spool calls each of them awaits, so their steps interleave. *)
(*                                                                         *)
(* Time is abstracted: a lease is live until LapseLease, a retry delay     *)
(* runs until BecomeReady.  With Overrun = FALSE a lease outlives the work *)
(* it covers (300 s against three posts of 30 s), unless the process dies. *)
(* With Overrun = TRUE it may lapse under a claimant that is still running *)
(* (a suspended host, a stepped clock), which nothing in the code excludes.*)
(***************************************************************************)
EXTENDS Naturals, FiniteSets

CONSTANTS
    Event,          \* event ids, larkagentx:<chat>:<message>
    Handler,        \* concurrent on_message coroutines
    Replay,         \* the one replay_spool_forever task
    NoEvent,        \* "no job"
    Tries,          \* POST attempts of a handler (3 in the code)
    BatchLimit,     \* rows one replay round reads (20 in the code)
    MaxContent,     \* bound: decodings of one message that ever exist
    Unclear,        \* messages that a later read may decode better
    Recallable,     \* messages their sender may recall
    NonCommand,     \* messages that are no command, in a chat that may be
                    \* configured as a command-only chat at a restart
    Overrun,        \* may a lease lapse under a running claimant?
    DbRaises        \* may a spool call raise (a locked or full database)?

Worker == Handler \cup {Replay}

ASSUME WorkerAssumption == Replay \notin Handler
ASSUME EventAssumption == NoEvent \notin Event /\ IsFiniteSet(Event)
ASSUME BoundAssumption ==
    /\ Tries \in Nat \ {0} /\ BatchLimit \in Nat \ {0} /\ MaxContent \in Nat \ {0}
    /\ Unclear \subseteq Event /\ Recallable \subseteq Event /\ NonCommand \subseteq Event
    /\ Overrun \in BOOLEAN /\ DbRaises \in BOOLEAN

VARIABLES
    \* the database
    status,         \* events.status, "absent" when there is no row
    seq,            \* events.sequence, 0 when there is no row
    body,           \* events.payload_json: the version that is stored
    ready,          \* events whose available_at has been reached
    leased,         \* events whose lease_until is in the future
    cursor,         \* spool_cursor 'drain'
    failedCount,    \* chat_stats.failed_count of the (one) chat
    \* the process
    pc, job, sent, tries,   \* per worker: step, event, payload, attempts made
    batch,                  \* what the replay loop's due() returned
    commandLane,            \* is the chat configured as command-only?
    \* the world
    content,        \* the newest decoding of each message
    recalled,       \* messages recalled by their sender
    accepted        \* accepted[e]: the versions of e the adapter took

dbVars == <<status, seq, body, ready, leased, cursor, failedCount>>
workerVars == <<pc, job, sent, tries>>
worldVars == <<content, recalled, accepted>>
vars == <<dbVars, workerVars, batch, commandLane, worldVars>>

Version == 1..MaxContent
Status == {"absent", "queued", "processing", "delivered", "failed"}
Holding == {"post", "mark", "fail", "refused"}

TypeOK ==
    /\ status \in [Event -> Status]
    /\ seq \in [Event -> Nat]
    /\ body \in [Event -> Version]
    /\ ready \subseteq Event
    /\ leased \subseteq Event
    /\ cursor \in Nat
    /\ failedCount \in Nat
    /\ pc \in [Worker -> {"idle", "claim"} \cup Holding]
    /\ job \in [Worker -> Event \cup {NoEvent}]
    /\ sent \in [Worker -> Version]
    /\ tries \in [Worker -> Nat]
    /\ batch \subseteq [event : Event, body : Version]
    /\ commandLane \in BOOLEAN
    /\ content \in [Event -> Version]
    /\ recalled \subseteq Event
    /\ accepted \in [Event -> SUBSET Version]

Init ==
    /\ status = [e \in Event |-> "absent"]
    /\ seq = [e \in Event |-> 0]
    /\ body = [e \in Event |-> 1]
    /\ ready = {} /\ leased = {}
    /\ cursor = 0 /\ failedCount = 0
    /\ pc = [w \in Worker |-> "idle"]
    /\ job = [w \in Worker |-> NoEvent]
    /\ sent = [w \in Worker |-> 1]
    /\ tries = [w \in Worker |-> 0]
    /\ batch = {}
    /\ commandLane = FALSE
    /\ content = [e \in Event |-> 1]
    /\ recalled = {}
    /\ accepted = [e \in Event |-> {}]

-----------------------------------------------------------------------------
(* Helpers                                                                 *)

\* The event w has claimed and not yet settled.
Holds(w, e) == pc[w] \in Holding /\ job[w] = e

Present(e) == status[e] # "absent"

\* Mutant of NextSeq: the number is taken from the rows still open.
NextSeqOpen ==
    1 + CHOOSE m \in {0} \cup {seq[e] : e \in {f \in Event : status[f] # "delivered"}} :
            \A e \in Event : status[e] # "delivered" => seq[e] <= m

\* COALESCE(MAX(sequence), 0) + 1
NextSeq == 1 + CHOOSE m \in {seq[e] : e \in Event} : \A e \in Event : seq[e] <= m

\* MAX(0, failed_count - 1)
Decrement(n) == IF n > 0 THEN n - 1 ELSE 0

RowNumbers == {seq[e] : e \in Event}

\* Mutant of AdvancesTo: one row per call instead of the whole delivered run.
AdvancesOne(c, st) ==
    c = IF \E e \in Event : seq[e] = cursor + 1 /\ st[e] = "delivered" THEN cursor + 1 ELSE cursor

\* The drain cursor walks over the rows that follow it while they are
\* delivered.  Row numbers have no holes: rows are never deleted.
AdvancesTo(c, st) ==
    /\ c >= cursor
    /\ \A e \in Event : seq[e] \in (cursor + 1)..c => st[e] = "delivered"
    /\ \A e \in Event : seq[e] = c + 1 => st[e] # "delivered"

\* Mutant of IsDue: rows whose claimant died are forgotten.
IsDueNotLapsed(e) == status[e] \in {"queued", "failed"} /\ e \in ready

IsDue(e) ==
    \/ status[e] \in {"queued", "failed"} /\ e \in ready
    \/ status[e] = "processing" /\ e \notin leased

\* due(limit): the oldest due rows, each with the payload it has now.
OldestDue ==
    {e \in Event : /\ IsDue(e)
                   /\ Cardinality({f \in Event : IsDue(f) /\ seq[f] < seq[e]}) < BatchLimit}

DueBatch == {[event |-> e, body |-> body[e]] : e \in OldestDue}

Release(w) ==
    /\ pc' = [pc EXCEPT ![w] = "idle"]
    /\ job' = [job EXCEPT ![w] = NoEvent]
    /\ sent' = [sent EXCEPT ![w] = 1]
    /\ tries' = [tries EXCEPT ![w] = 0]

TakeJob(w, e, v) ==
    /\ pc' = [pc EXCEPT ![w] = "claim"]
    /\ job' = [job EXCEPT ![w] = e]
    /\ sent' = [sent EXCEPT ![w] = v]
    /\ UNCHANGED tries

GoTo(w, step) == pc' = [pc EXCEPT ![w] = step] /\ UNCHANGED <<job, sent, tries>>

-----------------------------------------------------------------------------
(* enqueue, the first spool call of on_message.  mode is "live" for a frame  *)
(* of the connection, "recovered" for a private-history re-read and          *)
(* "correction" for a re-read an operator asked for.                         *)

Mode == {"live", "recovered", "correction"}

EnqueueNew(e, v) ==
    /\ ~Present(e)
    /\ status' = [status EXCEPT ![e] = "queued"]
    /\ seq' = [seq EXCEPT ![e] = NextSeq]
    /\ body' = [body EXCEPT ![e] = v]
    /\ ready' = ready \cup {e}
    /\ UNCHANGED leased

\* refresh: an event that never reached the adapter takes the new payload.
EnqueueRefresh(e, v, mode) ==
    /\ mode # "live"
    /\ status[e] \in {"queued", "failed"}
    /\ body' = [body EXCEPT ![e] = v]
    /\ ready' = ready \cup {e}
    /\ UNCHANGED <<status, seq, leased>>

\* reopen: a delivered event is queued again with the new payload.
EnqueueReopen(e, v, mode) ==
    /\ mode = "correction"
    /\ status[e] = "delivered"
    /\ status' = [status EXCEPT ![e] = "queued"]
    /\ body' = [body EXCEPT ![e] = v]
    /\ ready' = ready \cup {e}
    /\ leased' = leased \ {e}
    /\ UNCHANGED seq

EnqueueKept(e, mode) ==
    /\ \/ status[e] = "processing"
       \/ status[e] = "delivered" /\ mode # "correction"
       \/ status[e] \in {"queued", "failed"} /\ mode = "live"
    /\ UNCHANGED <<status, seq, body, ready, leased>>

Enqueue(e, v, mode) ==
    /\ \/ EnqueueNew(e, v)
       \/ EnqueueRefresh(e, v, mode)
       \/ EnqueueReopen(e, v, mode)
       \/ EnqueueKept(e, mode)
    /\ UNCHANGED <<cursor, failedCount>>

\* on_message up to its first await after enqueue, called with the newest
\* decoding.  A row that is still delivered afterwards is a duplicate and ends
\* the handler.
Receive(w, e, mode) ==
    /\ pc[w] = "idle"
    /\ ~(commandLane /\ e \in NonCommand)
    /\ Enqueue(e, content[e], mode)
    /\ IF status'[e] = "delivered"
       THEN UNCHANGED workerVars
       ELSE TakeJob(w, e, content[e])
    /\ UNCHANGED <<batch, commandLane, worldVars>>

-----------------------------------------------------------------------------
(* claim, and the POST that follows it.                                      *)

\* Mutant of ClaimRefused: a live lease does not keep others out.
ClaimRefusedDelivered(e) == status[e] = "delivered"

ClaimRefused(e) ==
    \/ status[e] = "delivered"
    \/ status[e] = "processing" /\ e \in leased

\* Mutant of Claim: a failure is taken off the count whatever the row's status.
ClaimUncounted(w) ==
    LET e == job[w] IN
    /\ pc[w] = "claim"
    /\ IF ClaimRefused(e)
       THEN Release(w) /\ UNCHANGED dbVars
       ELSE /\ status' = [status EXCEPT ![e] = "processing"]
            /\ leased' = leased \cup {e}
            /\ failedCount' = failedCount - 1
            /\ GoTo(w, "post")
            /\ UNCHANGED <<seq, body, ready, cursor>>
    /\ UNCHANGED <<batch, commandLane, worldVars>>

\* A lease that has run out is taken over, and so is a queued or failed row,
\* whether or not its retry delay has passed.
Claim(w) ==
    LET e == job[w] IN
    /\ pc[w] = "claim"
    /\ IF ClaimRefused(e)
       THEN Release(w) /\ UNCHANGED dbVars
       ELSE /\ status' = [status EXCEPT ![e] = "processing"]
            /\ leased' = leased \cup {e}
            /\ failedCount' = IF status[e] = "failed" THEN Decrement(failedCount) ELSE failedCount
            /\ GoTo(w, "post")
            /\ UNCHANGED <<seq, body, ready, cursor>>
    /\ UNCHANGED <<batch, commandLane, worldVars>>

MaxTries(w) == IF w = Replay THEN 1 ELSE Tries

\* The adapter took the payload and its answer arrived.
PostAccepted(w) ==
    /\ pc[w] = "post"
    /\ accepted' = [accepted EXCEPT ![job[w]] = @ \cup {sent[w]}]
    /\ GoTo(w, "mark")
    /\ UNCHANGED <<dbVars, batch, commandLane, content, recalled>>

\* One attempt raised: refused is HTTP 400, otherwise the network failed,
\* before the adapter took the payload or (landed) after it.
PostRaised(w, landed, refused) ==
    /\ pc[w] = "post"
    /\ ~(landed /\ refused)
    /\ accepted' = IF landed THEN [accepted EXCEPT ![job[w]] = @ \cup {sent[w]}] ELSE accepted
    /\ IF tries[w] + 1 < MaxTries(w)
       THEN tries' = [tries EXCEPT ![w] = @ + 1] /\ UNCHANGED <<pc, job, sent>>
       ELSE GoTo(w, IF refused THEN "refused" ELSE "fail")
    /\ UNCHANGED <<dbVars, batch, commandLane, content, recalled>>

-----------------------------------------------------------------------------
(* mark_delivered, mark_failed, mark_ignored: none of them asks who holds    *)
(* the lease.                                                                *)

SettleAs(e, st) ==
    /\ status' = [status EXCEPT ![e] = st]
    /\ leased' = leased \ {e}

\* Mutant of CloseRow: closing a failed row leaves it counted.
CloseRowCounted(e) ==
    /\ SettleAs(e, "delivered")
    /\ cursor' \in {cursor} \cup RowNumbers
    /\ AdvancesTo(cursor', status')
    /\ UNCHANGED <<seq, body, ready, failedCount>>

\* Both ways of closing an event: delivered to the adapter, or ignored.
CloseRow(e) ==
    /\ SettleAs(e, "delivered")
    /\ failedCount' = IF status[e] = "failed" THEN Decrement(failedCount) ELSE failedCount
    /\ cursor' \in {cursor} \cup RowNumbers
    /\ AdvancesTo(cursor', status')
    /\ UNCHANGED <<seq, body, ready>>

MarkDelivered(w) ==
    /\ pc[w] = "mark"
    /\ CloseRow(job[w])
    /\ Release(w)
    /\ UNCHANGED <<batch, commandLane, worldVars>>

MarkFailed(w) ==
    LET e == job[w] IN
    /\ pc[w] = "fail"
    /\ SettleAs(e, "failed")
    /\ ready' = ready \ {e}
    /\ failedCount' = IF status[e] # "failed" THEN failedCount + 1 ELSE failedCount
    /\ Release(w)
    /\ UNCHANGED <<seq, body, cursor, batch, commandLane, worldVars>>

\* Mutant of DropRecalled: every refused message is taken for a recalled one.
DropRefused(w) ==
    /\ pc[w] = "refused"
    /\ status[job[w]] # "delivered"
    /\ CloseRow(job[w])
    /\ Release(w)
    /\ UNCHANGED <<batch, commandLane, worldVars>>

\* _drop_if_recalled says yes: the message is gone, the row is closed.
DropRecalled(w) ==
    /\ pc[w] = "refused"
    /\ job[w] \in recalled
    /\ status[job[w]] # "delivered"
    /\ CloseRow(job[w])
    /\ Release(w)
    /\ UNCHANGED <<batch, commandLane, worldVars>>

\* _drop_if_recalled says no: not recalled, the gateway could not be asked or
\* was asked too recently, or mark_ignored found the row already delivered.
KeepRefused(w) ==
    /\ pc[w] = "refused"
    /\ GoTo(w, "fail")
    /\ UNCHANGED <<dbVars, batch, commandLane, worldVars>>

-----------------------------------------------------------------------------
(* replay_spool_once: one due() snapshot, then its rows one after another.   *)

ReplayDue ==
    /\ pc[Replay] = "idle" /\ batch = {}
    /\ DueBatch # {}
    /\ batch' = DueBatch
    /\ UNCHANGED <<dbVars, workerVars, commandLane, worldVars>>

IsNext(r) == r \in batch /\ \A q \in batch : seq[r.event] <= seq[q.event]

ReplayPick(r) ==
    /\ pc[Replay] = "idle"
    /\ IsNext(r)
    /\ ~(commandLane /\ r.event \in NonCommand)
    /\ TakeJob(Replay, r.event, r.body)
    /\ batch' = batch \ {r}
    /\ UNCHANGED <<dbVars, commandLane, worldVars>>

\* A row that the command-only chat no longer forwards is closed unclaimed.
ReplayIgnore(r) ==
    /\ pc[Replay] = "idle"
    /\ IsNext(r)
    /\ commandLane /\ r.event \in NonCommand
    /\ IF status[r.event] = "delivered" THEN UNCHANGED dbVars ELSE CloseRow(r.event)
    /\ batch' = batch \ {r}
    /\ UNCHANGED <<workerVars, commandLane, worldVars>>

-----------------------------------------------------------------------------
(* A spool call raises, its transaction is rolled back.  (mark_delivered     *)
(* raising is a post that landed and raised.)                                *)

\* A handler gives up; the replay loop goes on to mark the row failed, which
\* it has not claimed and which another may hold.
ClaimRaises(w) ==
    /\ pc[w] = "claim"
    /\ IF w = Replay THEN GoTo(w, "fail") ELSE Release(w)
    /\ UNCHANGED <<dbVars, batch, commandLane, worldVars>>

IgnoreRaises(r) ==
    /\ pc[Replay] = "idle"
    /\ IsNext(r)
    /\ commandLane /\ r.event \in NonCommand
    /\ pc' = [pc EXCEPT ![Replay] = "fail"]
    /\ job' = [job EXCEPT ![Replay] = r.event]
    /\ batch' = batch \ {r}
    /\ UNCHANGED <<dbVars, sent, tries, commandLane, worldVars>>

\* mark_failed or _drop_if_recalled raises: the row stays as it is, in
\* processing; the handler or the replay round ends.
SettleRaises(w) ==
    /\ pc[w] \in {"fail", "refused"}
    /\ Release(w)
    /\ batch' = IF w = Replay THEN {} ELSE batch
    /\ UNCHANGED <<dbVars, commandLane, worldVars>>

CallRaises ==
    /\ DbRaises
    /\ \/ \E w \in Worker : ClaimRaises(w) \/ SettleRaises(w)
       \/ \E r \in batch : IgnoreRaises(r)

-----------------------------------------------------------------------------
(* Restarts, the passage of time, and what happens outside the bridge.       *)

\* The process dies and comes back: every coroutine is gone, the rows stay,
\* failed_count is derived again from them, the configuration may be new.
Restart ==
    /\ pc' = [w \in Worker |-> "idle"]
    /\ job' = [w \in Worker |-> NoEvent]
    /\ sent' = [w \in Worker |-> 1]
    /\ tries' = [w \in Worker |-> 0]
    /\ batch' = {}
    /\ failedCount' = Cardinality({e \in Event : status[e] = "failed"})
    /\ commandLane' \in BOOLEAN
    /\ UNCHANGED <<status, seq, body, ready, leased, cursor, worldVars>>

\* Mutant of LapseLease: a lease shorter than the work it covers.
LapseEarly(e) ==
    /\ e \in leased
    /\ leased' = leased \ {e}
    /\ UNCHANGED <<status, seq, body, ready, cursor, failedCount, workerVars, batch,
                   commandLane, worldVars>>

LapseLease(e) ==
    /\ e \in leased
    /\ Overrun \/ \A w \in Worker : ~Holds(w, e)
    /\ leased' = leased \ {e}
    /\ UNCHANGED <<status, seq, body, ready, cursor, failedCount, workerVars, batch,
                   commandLane, worldVars>>

BecomeReady(e) ==
    /\ status[e] = "failed" /\ e \notin ready
    /\ ready' = ready \cup {e}
    /\ UNCHANGED <<status, seq, body, leased, cursor, failedCount, workerVars, batch,
                   commandLane, worldVars>>

\* A better decoding of the message becomes available.
Redecode(e) ==
    /\ e \in Unclear /\ content[e] < MaxContent
    /\ content' = [content EXCEPT ![e] = @ + 1]
    /\ UNCHANGED <<dbVars, workerVars, batch, commandLane, recalled, accepted>>

Recall(e) ==
    /\ e \in Recallable \ recalled
    /\ recalled' = recalled \cup {e}
    /\ UNCHANGED <<dbVars, workerVars, batch, commandLane, content, accepted>>

Work(w) ==
    \/ Claim(w)
    \/ PostAccepted(w)
    \/ \E landed, refused \in BOOLEAN : PostRaised(w, landed, refused)
    \/ MarkDelivered(w)
    \/ MarkFailed(w)
    \/ DropRecalled(w)
    \/ KeepRefused(w)

ReplayStep == ReplayDue \/ \E r \in batch : ReplayPick(r) \/ ReplayIgnore(r)

Next ==
    \/ \E w \in Handler, e \in Event, mode \in Mode : Receive(w, e, mode)
    \/ \E w \in Worker : Work(w)
    \/ ReplayStep
    \/ CallRaises
    \/ Restart
    \/ \E e \in Event : LapseLease(e) \/ BecomeReady(e) \/ Redecode(e) \/ Recall(e)

Spec == Init /\ [][Next]_vars

-----------------------------------------------------------------------------
(* Properties                                                                *)

\* Claims exclude each other: between claim and settlement one coroutine at
\* most works on an event, so the adapter never sees two posts of it race.
\* Needs ~Overrun and ~DbRaises.
OneHolder ==
    \A w1, w2 \in Worker, e \in Event : Holds(w1, e) /\ Holds(w2, e) => w1 = w2

\* What OneHolder rests on: whoever works on an event holds its live lease.
HolderLeased ==
    \A w \in Worker, e \in Event : Holds(w, e) => status[e] = "processing" /\ e \in leased

\* A row leaves the spool's care only if the adapter took the event at least
\* once, or its sender recalled it, or the chat no longer forwards it, however
\* the handlers, the replay loop, lapsed leases and restarts interleave.
ClosedWasHanded ==
    \A e \in Event :
        status[e] = "delivered" => accepted[e] # {} \/ e \in recalled \cup NonCommand

\* chat_stats.failed_count, kept by increments in claim, mark_delivered,
\* mark_failed and mark_ignored, is the number of rows that are failed now.
FailedCountExact == failedCount = Cardinality({e \in Event : status[e] = "failed"})

\* The drain cursor never lags: no delivered row follows it directly, whatever
\* order rows were closed, reopened or failed in.
CursorNotLagging ==
    \A e \in Event : seq[e] = cursor + 1 => status[e] # "delivered"

\* What it rests on: sequences are 1, 2, ..., N, each given once, whatever was
\* closed, reopened or refused before the next message came in.  (A number given
\* twice would make enqueue raise: the column is UNIQUE.)
SeqDense ==
    /\ \E n \in {0} \cup RowNumbers :
        /\ \A e \in Event : seq[e] \in 0..n /\ (seq[e] = 0 <=> ~Present(e))
        /\ \A k \in 1..n : \E e \in Event : seq[e] = k
    /\ \A e, f \in Event : Present(e) /\ seq[e] = seq[f] => e = f

StageOf(st) ==
    CASE st = "absent" -> "absent"
      [] st = "queued" -> "queued"
      [] st \in {"processing", "failed"} -> "trying"
      [] st = "delivered" -> "closed"

\* The spool's promise: the rows, read as stages of a delivery queue.
DQ == INSTANCE DeliveryQueue WITH
        stage <- [e \in Event |-> StageOf(status[e])],
        handed <- {e \in Event : accepted[e] # {}},
        excused <- recalled \cup NonCommand

\* At-least-once delivery: a closed event comes back only through a correction
\* and nothing is posted of an event that is not open.  Needs ~Overrun and
\* ~DbRaises.
Refines == DQ!DQSpec

\* Scheduling: every coroutine goes on (asyncio runs what is runnable, each
\* post ends within its timeout), the replay loop comes round again and time
\* passes.  The adapter, asked about one event again and again, takes it in
\* the end (or the gateway confirms that it was recalled).
Fairness ==
    /\ \A w \in Worker : WF_vars(Work(w))
    /\ WF_vars(ReplayStep)
    /\ \A e \in Event :
        /\ WF_vars(LapseLease(e))
        /\ WF_vars(BecomeReady(e))
        /\ SF_vars(\E w \in Worker : job[w] = e /\ (PostAccepted(w) \/ DropRecalled(w)))

FairSpec == Spec /\ Fairness

\* Restarts, operators' corrections, leases that lapse under their owner and
\* spool calls that raise are finitely many.
Settled ==
    <>[][/\ ~Restart /\ ~CallRaises
         /\ \A w \in Worker, e \in Event : Holds(w, e) => ~LapseLease(e)
         /\ ~\E w \in Handler, e \in Event : EnqueueReopen(e, content[e], "correction")]_vars

\* Nothing that was taken in is stranded: after any number of crashes, in
\* whatever step they hit, each row is closed in the end.
EventuallyClosed ==
    Settled => \A e \in Event : Present(e) ~> status[e] = "delivered"
=============================================================================
