# Verification of the trading harness

TLA+ specifications of the stateful parts of this repository, TLC
configurations that check them on small instances, and TLAPS proofs of their
main properties for every value of the constants. Paths are relative to the
repository's source tree, `src/`.

## 1. Inventory

The repository is a collection of services around one flow. Analysts post
messages in Feishu groups; the **bridge** (`feishu-relay/bridge`, Python)
receives them over LarkAgentX and hands each one to the **adapter**
(`feishu-relay/adapter`, Node), which relays it to other groups, records it in
PostgreSQL and queues it for import. The **quant service** (`quant-service`,
Python) watches the market, keeps evidence, sends alerts, and settles trials
and paper trades. **xhs-intel** collects and summarises notes and reports to
Feishu. Everything else is presentation, deployment and numerical research.

| Component | State it keeps | Operations | Talks to | What is hard | What makes it correct |
|---|---|---|---|---|---|
| Inbound event spool and replay (`bridge/event_spool.py`, `bridge.py` `on_message`, `replay_spool_once`) | SQLite rows with status, sequence, payload, lease, retry time; drain cursor; failure count | enqueue (new, refresh, reopen), claim, mark delivered / failed / ignored, due | connection (frames), adapter (HTTP), gateway (is it recalled?) | many coroutines on one row, crash after a claim, lapsed leases, lost answers, settlements that do not check the lease | at-least-once delivery; one worker per event; nothing closed unsent; counters and cursor that match the rows; every row closed in the end |
| Position tracking and private repair (`event_spool.py`, `bridge.py`) | last and last recovered position, coverage, recoveries; chunks in flight | record position / ignored / recovered, gap ranges; gap, tail, notification and startup repairs | private history gateway, `on_message` | frames out of order, concurrent repairs, crashes between position and row, gateway that fails or has a message not yet or never | no message lost between two seen positions without a visible gap; a gap closed only once its message is safe; tail and gaps read back in the end |
| Outbound send gate (`bridge/send_gate.py`, `bridge.py` `send`, `urgent_alerts.py`) | SQLite audit of sends | begin (idempotency key, limits), finish, reopening | send RPC | threads between check and send, clock read outside the lock, crash between begin and finish, a second process | limits in every window; a message that landed is not sent again under its key; no key blocked for ever |
| Bridge owner lock | one `flock` | acquire | bridge start | the databases are opened before it | one bridge runs |
| Bridge connection, login, archive, target registry | session, archive files | protocol decoding, HTTP API | Feishu | network | mostly I/O |
| Group relay (`adapter/group-relay.mjs`, `ledger.mjs`) | PostgreSQL row per source message: status, attempts, target message ids; writer fence | claim, mark, filter, correct, retry; fan-out; official-API repair; poll | bridge, Feishu API | four loops on one row, five-minute takeover, partial fan-out, unconditional marks | each target gets a message once unless a correction asks otherwise; failed targets are retried |
| Ledger outbox, knowledge-base and Baidu queues (`ledger.mjs`, `index.mjs`) | queue rows with leases | enqueue, claim, complete, fail, retry | n8n, remote archive | leases without fencing, re-enqueue while processing | every job is dispatched; a settled job is not settled by a stale worker |
| Summary listener, delivery check (adapter) | last seen time | poll, compare | Feishu API | paging | read-mostly |
| XHS store and workers (`xhs-intel`) | SQLite jobs with lease tokens, delivery parts | claim, heartbeat, complete, fail, deliver parts | local workers, web hook | lost leases, repeated results, crash between part and record | only the present token settles; a recorded part is not sent again |
| Leased background loops (`quant-service/app/runtime_tasks.py`, `runtime_leases.py`) | a lease row per loop | acquire, renew, release, supervise | PostgreSQL | renewal that hangs, takeover | one owner runs a loop |
| Intraday evidence spool (`quant-service/app/intraday_evidence_spool.py`) | segment files: open, sealed, done, quarantined | write, seal, discover, replay, split, archive | PostgreSQL | two spool objects on one directory, torn files, crash between any two file operations | an observation that was written reaches the database or stays readable, unless its own file was hit |
| Alert outbox (`intraday_alert_delivery_service.py`) | delivery rows, health events | create, claim due, attempt, streak | adapter | attempt longer than its lease, streak counted concurrently | every alert is posted or exhausts its attempts; a streak raises one event |
| Paper trading, T+1 settlement | positions, cash; pure price walk | execute, settle | market data | boundaries of the roll | what the rules say of blocked sales |
| Post-close refresh, trials, episodes, claim reviews | workflow rows | stages | database | long workflows | stage order |
| Storage tiering, archives, pool watchdog, rate limits | files, objects | move, verify, delete | object store | partial moves | nothing deleted unverified |
| Operational scripts (supervisor, collaboration branches) | processes, git branches | start, restart, merge | OS, git | | |
| Front ends, n8n workflows, deployment, analytics numerics | | | | | |

`PROJECT.json` lists the same components with what is modelled of each, and the
hazards of the code at their lines, each with the properties that cover it or a
note on why none does.

## 2. Modules

| Module | Contents |
|---|---|
| `DeliveryQueue` | abstract specification: what the bridge's spool promises, at-least-once delivery |
| `EventSpool`, `EventSpoolProofs` | the spool and the coroutines around it; refines `DeliveryQueue` |
| `PositionRepair`, `PositionRepairProofs` | position tables and the four kinds of repair |
| `SendGate`, `SendGateProofs` | the send audit and the requests that go through it |
| `GroupRelay`, `GroupRelayProofs` | the adapter's forwarding of one message to its target groups |
| `IngestQueue`, `IngestQueueProofs` | the adapter's ingestion of one message, from acceptance to n8n |
| `XhsJobs`, `XhsJobsProofs` | the job queue of xhs-intel, its workers and its delivery loop |
| `EvidenceSpool`, `EvidenceSpoolProofs` | the segment files of the intraday evidence |
| `MC...` | model values and symmetry for TLC |

The bridge's and the adapter's modules follow a message from the web socket on:
`PositionRepair` says that it gets a row, `EventSpool` that the row is handed to
the adapter, `GroupRelay` and `IngestQueue` what the adapter makes of it, and
`SendGate` what the bridge sends in return. Each takes the next one for an
environment that may accept, refuse or lose what it is given, and whose own
module shows that being given the same thing twice does no harm.

Operators called "Mutant of ..." are the defects each property was tried
against; no behaviour of a specification uses them.

### EventSpool

Each method of `EventSpool` takes the object's lock and commits one SQLite
transaction, so each is one atomic step. The coroutines that call them await
between calls, so their steps interleave: a worker is a `pc` (`idle`, `claim`,
`post`, `mark`, `fail`, `refused`) with the event and the payload it carries.
`Handler` is any number of `on_message` calls, `Replay` the one replay loop,
whose `batch` is what `due` returned: identities *and payloads*, read before
the claims.

| Code | Action |
|---|---|
| `enqueue` with its three `ON CONFLICT` outcomes, then the early return for a duplicate | `Receive` (`EnqueueNew`, `EnqueueRefresh`, `EnqueueReopen`, `EnqueueKept`) |
| `claim` | `Claim` |
| one attempt of `post_json` and what it raises | `PostAccepted`, `PostRaised` |
| `mark_delivered`, `_advance_cursor_locked` | `MarkDelivered`, `CloseRow`, `AdvancesTo` |
| `mark_failed` | `MarkFailed` |
| `_drop_if_recalled`, `mark_ignored` | `DropRecalled`, `KeepRefused`, `ReplayIgnore` |
| `replay_spool_once` | `ReplayDue`, `ReplayPick`, `ReplayIgnore` |
| a claim, an ignore or a settlement that raises, and the `except` around it | `CallRaises` (`ClaimRaises`, `IgnoreRaises`, `SettleRaises`) |
| a new process, `_reconcile_active_failure_counts_locked` | `Restart` |
| `lease_until`, `available_at` going by | `LapseLease`, `BecomeReady` |

Abstractions. Time is a set of live leases and a set of rows whose retry delay
is over. `Overrun = FALSE` says a lease (300 s) outlives the work it covers
(three posts of at most 30 s and a query) unless the process dies; nothing in
the code enforces that when a host is suspended or its clock stepped, which is
what `Overrun = TRUE` models. `DbRaises` says whether spool calls may raise; the
replay loop's `except` marks the row failed even if it was the claim that
raised, and so takes it from a handler that holds it, which is why the exclusion
of claims is stated for `~DbRaises` only. A payload is a version number:
`Redecode` makes a better decoding available to later reads. `due` orders by
`created_at`, which is the order of the sequence numbers for rows that a handler
creates. An unreadable payload, the counters shown on the dashboard and the
database's own migration are left out.

### PositionRepair

One chat. `last`, `lastRecovered`, `coverage`, `recovered` and `kept` are the
tables; a `Reader` is an `on_message` call (`Live`) or a repair (`GapTask`,
`TailTask`, `Startup`) and is `idle`, waiting for the gateway (`pull`), between
two of the messages it got (`read`), between position and row (`keep`), or
between row and recovery record (`settle`).

| Code | Action |
|---|---|
| `on_message` of a frame: `record_position`, scheduling the gap it opens; `record_ignored` for a chat that only takes commands | `Frame`, `FrameIgnored` |
| `enqueue` or `record_filtered` | `Keep`, `KeepFails` |
| `_schedule_private_gap`, `_run_scheduled_private_gap` | `OpenedBy`, `AskGap` |
| `_repair_chat_tail` (timer and notification) | `AskTail` |
| `repair_known_private_gaps` | `ReadKnownGaps`, `AskKnownGap` |
| `repair_private_positions`: `pull_history`, the loop, `record_recovered_position` | `Pull`, `ReadNext`, `Settle`, `SettleFails`, `Finish` |
| `position_gap_ranges` | `GapRanges`, `KnownRanges` |
| the process dies, the tables stay | `Restart` |

Abstractions. Positions are 1 to `MaxPos`. `Echo` positions (the account's own
messages, and any that are dropped after their position was recorded) need no
row. Delivery to the adapter is `EventSpool`'s subject; here it is `Settle` or
`SettleFails`. The set of chunks in flight, which keeps a chunk from being
scheduled twice, is not needed since `gaps` is a set. `CrashInWindow` and
`EnqueueFails` say whether the process may die, or the database refuse, between
a message's position and its row.

### SendGate

`audit` is the table in the order of its ids; `begin` and `finish` are atomic
under the gate's lock. A request is `idle`, `send` (has a row, has called the
RPC), then `acknowledged` or `raised`. Three histories say what the code cannot
know: `landed`, the rows whose message the chat received; `lost`, those among
them whose call raised nevertheless; `unsettled`, the rows whose request ended
in an error of the database.

| Code | Action |
|---|---|
| `begin`: admitted; refused, replayed or raised without effect | `Begin`; no step |
| `begin` whose commit raises | `BeginRaises` |
| the RPC answers, or raises before or after the message landed | `SendAcknowledged`, `SendRaised` |
| `finish`; `finish` that raises out of `send` or of its `except` block | `Finish`; `FinishRaises` |
| crash and new process | `Restart` |
| a second bridge opens the table, turning pending rows to unknown, before the owner lock refuses it | `SecondStart` |

The clock is arbitrary: `Begin` takes any time, because `begin` reads it before
it takes the lock and the wall clock may be stepped. A statement that raises has
had no effect, or stays in the connection's open transaction and is committed
with the next one (`FinishRaises` may write the result or not); that a crash
undoes such a statement is left out. `Text` stands for the content hash and the
message replied to. The in-memory allowance of urgent alerts and the text of
refusals are not modelled.

### GroupRelay

One message of a source group and its row in `feishu_group_relay_messages`. A
caller is a request (`Handler`: live ingress, official repair, retry request) or
the `Tick`, which runs the retry queue and then the poll; every `await` on the
ledger or on a target ends a step. A content is its version: 0 the placeholder
that the web socket carries for a card, 1 what the group shows, higher ones its
edits. `rested` stands for `updated_at`: the failure backoff, or the five minutes
of a claim, are over.

| Code | Action |
|---|---|
| `processInbound`, `repairFromOfficial`: filter, placeholder, correction | `InboundFiltered`, `InboundRead`, `Reopen`, `ReopenRefused` |
| `claimRelayMessage` | `Claim`, `ClaimRefused`, `Claimable` |
| `relayPayload`, `priorTargetMessages` | `Payload`, `PendingTargets` |
| `relayOne`, `sendMessage` to one target | `Sent`, `Refused`, `AnswerLost` |
| `processClaimed`: settlement, and its `catch` | `Settle`, `Outcome`, `PayloadRaises`, `SettleRaises` |
| a request or a process dies, or a claim outlives five minutes | `Abandon`, `Rest` |
| `retryFailed` | `RetryRead` |
| `pollSource`: new, edited, recalled, filtered, skipped | `Fetch`, `ReadPage`, `PollClaims`, `PollEdited`, `PollRecalled`, `PollFiltered`, `PollSkipped` |

Abstractions. Copies are counted, not shown: edits and recalls of copies that a
target already has do not add one. The relay is taken to be enabled and its
source group resolvable, and this instance to be the writer. Whether a poll or a
repair reads the message again is left open (`Fetch` may happen and need not):
both read a bounded window. A web hook takes no `uuid`; a chat of the
official interface keeps the first copy of a `uuid` only as far as the code
gives the same one again.

### IngestQueue

One message with media `1..N`: its job, its assets, its outbox row and its
analysis row. `Handler` is any number of deliveries of the event (long
connection, poll, replay), `worker` the one `runDeliveryQueue`, which is guarded
by the single flight. A query that raises has changed nothing; `recordAsset` is two
steps, the asset's row and the rows of its parts, of which the last counts. `slips` records
three accidents the properties make exceptions for: an ingress cut short
(`cut`), a retry accepted while the worker had the job (`overlap`), a retry of
which only the first statement was carried out (`half`).

| Code | Action |
|---|---|
| `forwardToN8n`: duplicate check, `getOrCreateJob`, `recordAsset`, `updateJob`, `enqueueDelivery`, catch block | `Receive`, `Creates`, `Records`, `RecordsParts`, `Queues`, `Enqueues`, `IngressRaises`, `Refuses` |
| `claimDeliveries`, reading or downloading the media | `Claims`, `Loads`, `Redownloads`, `CannotLoad`, `Filters` |
| `dispatchToN8n`: parts, finalization, text | `Begins`, `Rerecords`, `RerecordsParts`, `SkipsPart`, `SendsPart`, `SendFails`, `Finalizes`, `SendsText`, `AnswerLost`, `Finishes` |
| `completeDelivery`; the catch block and `failDelivery` | `Closes`; `Catches`, `Marks`, `GivesUp`, `WorkerRaises` |
| the operator's retry, two statements | `Retries`, `RetryEnqueues` |
| `cleanupUnreferencedMedia` | `CleansUp` |
| n8n's callback, the local analysis queue | `Reported`, `Analysed` |
| crash, and `init`'s enqueueing of open jobs without an outbox row | `Restart` |
| `available_at` and `lease_until` going by | `ComesDue` |

### XhsJobs

One recommendation run with its two jobs (`filter`, `summary`) and beside it the
analysis of one note (`single`). Each method of the store is one `BEGIN
IMMEDIATE` transaction and one step. Workers are other processes behind HTTP:
the answer to `claim` may be lost, a call of `complete` may be lost, or be
carried out after its worker gave it up (`late`), `fail` may be lost, a worker
may die. A token is the number of the claim that drew it; `leased` holds the
jobs whose `lease_until` is ahead.

| Code | Action |
|---|---|
| `run_recommendation`, `collect_recommendations` | `Call`, `CreateRun`, `AddItem`, `FinishCollection`, `QueueFilter`, `QueueFilterRaises` |
| `retry_recommendation_filter`, `enqueue_single_note` | `RetryFilter`, `EnqueueSingle` |
| `claim`, with lanes and order | `Claim` (`Serves`, `Claimable`, `Precedes`) |
| `complete`, `complete_filter` and their refusals | `Finish`, `CompleteLate` (`CompleteText`, `CompleteFilter`, `Refused`) |
| the model raises or the result is refused; `fail` | `GiveUp`, `Fail` |
| lost calls, deaths, missing heartbeats | `Vanish`, `LapseLease` |
| `delivery_loop`, `deliver_one` | `Look`, `Open`, `SkipPart`, `PostPart`, `RecordPart`, `Delivered` |
| the post raises; another call of `deliver_one` raises; `delivery_error` notes it or raises and ends the thread | `PostRaises`; `TryRaises`; `Caught` |
| `ready_deliveries` raises and ends the thread | `LookRaises` |
| the edge process dies, or is stopped, and starts again | `Restart` |

A post that returns has landed (`seen`) or was refused in the body of an answer
with status 200 (`refused`), which `deliver_one` does not read.

Abstractions. A text takes `TextParts` messages and its signed links up to
`LinkParts` more, chosen anew at each try, since links are signed when the text
is cut. The retry delay of a failed job and the limit of ten jobs a round are
left out: a job may be taken up at once, and a round takes all. `review` and
`exclude` are one decision: both keep a note out of the summary.

### EvidenceSpool

The files of one segment key, `disk[directory][file]` being a sequence of lines
or absent, and every file operation a step, so that another process, an I/O
error or a death comes between any two. A process is a writer (`shared_spool`)
or a replay pass, which opens a spool object of its own; each object has its
table of open segments (`seg`) and of what it wrote (`memory`).

| Code | Action |
|---|---|
| `write`: known, refused, a new segment, header, append | `WriteKnown`, `WriteRefused`, `WriteCreate`, `WriteHeader`, `WriteExtend`, `WriteAppend` |
| `_seal`: due, read, footer, rename | `SealDue`, `SealRead`, `SealFooter`, `SealRename`, `SealRefused` |
| `_discover_open_segments` | `DiscoverSegment`, `DiscoverHeadless`, `DiscoverTorn`, `DiscoverFails` (empty file, undecodable bytes), `DiscoverUnread` (the read raises) |
| `replay_pending`: list, take, insert, split, archive | `ListPending`, `TakeSegment`, `TakeCorrupt`, `TakeFails`, `TakeUnread`, `TakeDone`, `Insert`, `InsertRaised`, `SplitDone`, `Archive`, `EndPass` |
| `quarantine` | `Quarantine`, `QuarantineRaises` |
| `cleanup_done` | `CleanupDone` |
| `OSError`, a full disk; the process dies | `Raise`; `Crash` |

The writer is the long-running service, which the passes of another process's
30-second loop (`docs/work/streams/W026-intraday-ssd-writeback.md`) neither wait
for nor stop: a pass may start at any time, and discovers a segment whether or
not somebody still appends to it. A file that no pass will read again is `away`:
quarantined (the copy may hold the text or only the file's name, and nothing
reads it), replaced by `os.replace`, or cleaned up. `hurt` collects the files
that an error or a death hit, in writing, sealing or reading, and those a pass
took up while another object had them open; the properties say what holds of all
others.

Abstractions. Opening, writing and syncing a line is one step, whose failure may
leave a whole, a torn (`Torn`) or an undecodable line (`Cut`); that a reader sees
half of another's append, and that a writer goes on writing to a file that was
renamed or unlinked since it was opened, is not shown (such files are `hurt` in
the model, too). `splitlines` also splits at U+0085, U+2028 and U+2029, which
`ensure_ascii=False` leaves in a text: they are assumed not to occur.

## 3. Runs

Constants that are deployment values in the code (a batch of 20, a window of
many positions, 32 ranges, 3 tries, 5 attempts) are small numbers on the same
side of each comparison the code makes. Crashes, raised calls and lost answers
are bounded by `MaxTrouble` where their number would make the state space
infinite.

| Run | Question | Bounds, and why they are enough |
|---|---|---|
| `EventSpoolPrompt` | are claims exclusive, does the spool implement `DeliveryQueue`? | two handlers and the replay loop, so that two live calls and a replay meet on one row; two events, so that batch, sequence and cursor matter; one is recallable and may be decoded better later, one may fall under a command-only configuration |
| `EventSpoolOverrun` | what still holds when leases lapse under their owner and spool calls raise; is every row closed in the end? | a handler and the replay loop on two events with a batch of two, so that a snapshot outlives the row it was read from |
| `PositionRepairSafe` | can a message slip between positions, or a gap close too early? | four positions with one own and one ignored message; two frames, a gap repair, both tail repairs and the startup repair at once; chunks of two positions |
| `PositionRepairLive` | does the tail repair reach what a silent connection never announced, are gaps read back after a start? | four positions, one that the gateway never returns; a window of two, longer than the unreadable run; crashes between position and row and failing calls make gaps |
| `PositionRepairCrash` | does the first safety property survive a crash between position and row? (no) | three positions |
| `SendGateSafe` | limits, keys, what becomes of pending rows | two requests, two chats, one key, one text, three rows, four clock values; limits of one per chat and two in all, so each is reached on its own |
| `GroupRelaySafe` | does a sent row mean what it says, are copies explained, is each row settled? | a request and the tick (each claims against the other), two targets of which one is a web hook, a placeholder, two contents of which one is filtered, one reopening, one crash, lost answer, overrun claim or raised call |
| `GroupRelayReplaced` | does the full card replace the placeholder? (no) | one target, no trouble at all |
| `IngestQueueSafe` | is what n8n gets whole and counted, is a job ever stranded? | two deliveries of one message, two media, one retry, one crash, raised query, lost answer or slow clean-up |
| `EvidenceSpoolSafe` | is written evidence ever lost, archived too early or kept back? | two observations and three files, segments of two records, batches of one (so that a pass splits a segment); a writer and a pass side by side; one I/O error or death |
| `EvidenceSpoolShared` | is written evidence readable while a writer and a pass share the directory? (no) | as before without any trouble |
| `XhsJobsSafe` | who settles a job, what is summarised, what counts as sent, does every job end? | a worker for batches and one for everything, so that two meet on one job; two calls of the run, two requests for the note or retries; a text with one part and one more with links, so that a second try may be cut shorter; two failures, refusals, lost calls, lapses or crashes; final after two attempts |

With two events and a batch of two the limit of `due` never takes effect, and
with four positions neither does the number of ranges `position_gap_ranges`
returns: what rows or gaps at the head of those lists do to the others is not
checked.

The three violation runs each check a sentence of a document, a comment or a
test that the code does not keep; section 5 quotes them.

### Fairness

`EventSpoolOverrun` assumes weak fairness of every worker's next step (asyncio
runs what is runnable and each post has a timeout), of the replay loop (it
sleeps and comes round for ever), and of leases and delays running out. It
assumes strong fairness of the adapter: an event that is posted again and again
is accepted, or confirmed recalled, in the end. Restarts, raised calls, leases
that lapse under their owner and operators' corrections must be finitely many
(`Settled`). Without the adapter's fairness the property is false and ought to
be.

`PositionRepairLive` assumes weak fairness of the repairs and of the periodic
tail repair, and strong fairness of the gateway and of the table write for each
position: what is asked for again and again is returned at some time unless it
is in `Unreadable`. `TailReached` further supposes that the process stays up
from some time on, `GapsReadBack` that the startup repair finishes in infinitely
many processes (it runs once in each).

`GroupRelaySafe`: weak fairness of each call's next step (every request has a
timeout) and of time passing, strong fairness of the tick's reading of the retry
queue, which comes round, and of each target, which accepts a send now and then.
No poll or repair need read the message. The retry queue reads failed rows only
(`ledger.mjs:569-576`), and a redelivery of a message whose row is `processing`
is answered as in flight (`index.mjs:1464`), so that a row whose caller died may
stay as it is: `EventuallySettled` excuses rows that do (`Stranded`).

`IngestQueueSafe`: handlers, worker and timers go on; n8n and the source of the
media answer each kind of request now and then (strong fairness for each
medium). `AcceptedIsSettled` excuses an asset without part rows (`Partless`).

`EvidenceSpoolSafe`: a started operation goes on, passes come round and go on,
the database accepts an insert at times. The writer need neither write nor end.
`EventuallyStored` supposes that the disk does not stay full (`Room`); errors
and deaths are finitely many because `MaxTrouble` bounds them.

`XhsJobsSafe`: weak fairness of each worker's claim, answer and failure report,
of leases running out, and of the delivery loop as long as its thread lives.
Failures are finitely many because `MaxTrouble` bounds them; leases of workers
that died lapse without being counted. Nothing restarts a delivery thread that
has ended but a new process, which is not assumed to come: `EventuallySettled`
excuses jobs that are ready then.

## 4. Proofs

All theorems hold for every value of the constants under the named assumptions
of the modules (finite sets where a cardinality is taken, `Replay` not a
handler, positive limits, disjoint kinds of readers).

`EventSpoolProofs`
- `TypeCorrect`, `RowsDense`: types, and row numbers 1..N, each given once.
  Density is what makes "walk while the next row is delivered" terminate at the
  first open row, so the cursor theorem rests on it.
- `ClaimsExclude`, `HoldersAreLeased`, for `~Overrun` and `~DbRaises`: inductive
  as a conjunction. A worker between claim and settlement holds a live lease,
  and `claim` refuses such rows; `OneHolder` alone is not inductive because
  another's settlement takes the lease away.
- `ClosedRowsWereHanded`, `FailedCountIsExact`, `CursorKeepsUp`: without any
  assumption on leases or on calls that raise. The first needs that a worker at
  `mark` has had its event accepted; the second a lemma on the cardinality of a
  set of rows when one of them changes its status.
- `ImplementsDeliveryQueue`, for `~Overrun` and `~DbRaises`: every step maps to
  a step of `DeliveryQueue` or a stutter. `PostAccepted` needs the row to be
  open, which is `HolderLeased`.

`PositionRepairProofs`
- `RepairTypeCorrect`; `RecoveredIsDurable` (with crashes and failing calls
  anywhere; the strengthening is that a reader at `settle` works on a position
  that is kept or needs no row).
- `NoMessageSlips`, for `~CrashInWindow` and `~EnqueueFails`: the strengthening
  is that every covered position is kept, needs no row, or is in hand. A
  position between two covered ones that is not covered then lies in a gap: the
  proof picks the nearest covered neighbours on both sides.

`SendGateProofs`
- `GateTypeCorrect`; `LimitsHold`; `LandedIsNotRepeated`, for any number of
  threads, an arbitrary clock and statements that raise; `PendingRowsAreExplained`.
  The third has a strengthening of three parts. `OpenRows`: a row that a request
  may still finish has a result that counts, and no two requests will finish the
  same one. `FailedIsLost`: of the rows whose message landed only those are marked
  failed whose call raised. `KeyKept`: a row that is not failed is not followed
  by another of its key while the key is remembered; for this the latest row of a
  key is the only one whose result `begin` has to look at.

`GroupRelayProofs`
- `RelayTypeCorrect`; `SentReachesAll`: whatever a caller has in `done`, and
  whatever the row records, was posted, and a caller's `done` and `todo` make up
  all targets, through edits, take-overs and lost answers.
- `CopiesAreBounded`: counting. For each target the strengthening bounds the
  copies posted together with those still to come, one from each caller at work
  that has not reached it and one more if the row can be claimed without an
  accident and does not record it, by one plus reopenings plus accidents.

`IngestQueueProofs`
- `IngestTypeCorrect`; `SubmissionsAreBounded`; `NothingIsStranded`. For the
  last two the strengthening has three parts: `Order` (one ingress at most has the job, and
  the worker is at a given step only with the outbox row and job to match),
  `Budget` (submissions made, plus those that the outbox row, the ingress and a
  retry in progress can still cause, are at most one, plus retries, plus
  accidents), `Ends` (who gives the row up leaves the job closed or failed).
- `ClosedDeliveriesAreWhole`, on top of it: unless the ingress was cut short,
  no row and no retry exists before its media loop has recorded the last medium
  (`Filed`, `Apart`), so the worker loads every medium or downloads all of them
  again, carries the same set to the last submission (`Carried`), and closes
  only after it (`Told`). `Unheard` says that nothing is sent, reported or
  analysed before there is a job.

`XhsJobsProofs`
- `XhsTypeCorrect`; the others share a lemma that every step is a
  `JobsStep`: it leaves the jobs alone, completes the screening, or changes one
  row in one of seven ways (new, reset, claimed, completed, failed, made ready on
  request, sent), so that an invariant of the jobs is examined against these and
  not against thirty actions.
- `LastClaimWins`: tokens are the numbers of claims, nobody holds a later one
  than the row, and a row in process carries the last one.
- `SummariesAreScreened`: the decisions are those of the last screening, which
  was completed once; a row that is completed is not claimed again.
- `RunStatusFollows`: with the lanes (a screening is never `ready`, a summary
  never parked as `completed`, no summary before its screening) and the fact
  that until a second call only one caller is under way, and only before the
  screening exists.
- `WishesAreKept`, `SentJobsAreWhole`, `CopiesAreExplained`. The second needs
  that the delivery loop at part *k* has the parts before *k* recorded; the
  third is a count of recorded parts against copies.

`EvidenceSpoolProofs`
- `EvidenceTypeCorrect`, processes side by side included. `Types` says it per
  variable, `Controls` relates a spool object's step to its segment and its
  observation. It needs that `NoFile` is neither a file's name nor a sequence
  of lines (`EvidenceAssumption`, `FileAssumption`). The module also holds the
  lemmas on lines: what `RecordsOf`, `Begun` and `Valid` make of an appended
  record, a footer and a line that broke off.

Only model-checked: the liveness properties (`EventuallyClosed`, `TailReached`,
`GapsReadBack`, `EventuallySettled` of two modules, `AcceptedIsSettled`,
`EventuallyStored`), which need fairness and `ENABLED`, out of the prover's
reach; and two invariants of `EvidenceSpool`, `LossConfined` and
`ArchivedIsSafe`. Every other invariant and action property of a passing run has
a theorem.

## 5. Where the documents and the code differ

Shown by a run:

1. *A crash can lose a message and hide the loss* (`PositionRepairCrash`).
   `event_spool.py:518` says that a restart does not lose the ranges that need
   backfill. The position is committed before the row; a crash between the two
   leaves a covered position without a row, which no repair asks for.
2. *A replay can quarantine evidence that is still being written*
   (`EvidenceSpoolShared`). `intraday_evidence_spool.py:3-6` says that a capture
   writes a validated envelope before returning and that a replay can safely
   retry. A pass in another process counts the rows of the writer's segment,
   the writer appends one more, and the pass seals it with the old count.
3. *The full card does not replace its placeholder* (`GroupRelayReplaced`).
   `group-relay.test.mjs:190` expects the replay to send the card, with a ledger
   that knows no backoff. `resetRelayMessageForRetry` reopens the row with the
   placeholder and `updated_at=now()`, so the replay's own claim is refused and
   the retry queue sends the placeholder again.

Observed while modelling, in behaviours of the models but without a run:

- `replay_spool_once` posts the payload that `due` returned before the claim. A
  re-read that decodes the message better in between is stored, and its row is
  then closed without the better payload having been posted
  (`event_spool.py:717` describes the refresh).
- A start repairs the 32 oldest ranges of gaps; ranges that can never be read
  stay at the head of that list and hide later ones. `GapsReadBack` supposes
  fewer unreadable gaps than that.
- `SendGate`: a send that landed and raised is recorded as `failed`, and its
  idempotency key is admitted again (`LandedOnce` excepts these sends). If
  `finish` raises, the row may stay pending until the next start: its key is
  answered as still under way, and it counts against the limits.
- `EvidenceSpool`: a segment left empty by a death or a full disk before its
  header was written, or one with a line cut inside a character, makes every
  later pass raise (`DiscoverFails`, `TakeFails`); `EventuallyStored` excuses
  exactly this. A read that fails condemns a file that may be valid, and the
  quarantine keeps only its name if it cannot read it either. When writer and
  pass share a segment, the second rename can replace the file the first one
  sealed, and a pass can archive a file that others have added to.
- `GroupRelay`: the `catch` of `processClaimed` marks a row failed with no
  targets even if the fan-out went out, and the retry sends to all again; a
  filter applied during a send is overwritten by the mark that follows it; a row
  whose caller died stays `processing` until a poll or a repair reads the message.
- `IngestQueue`: after a database error behind the job row, the message's
  redelivery is answered as a duplicate; the operator's retry goes on with it, or
  a restart if the job could not even be marked failed; a crash during acceptance makes the first attempt submit the
  assets recorded by then; a retry accepted while the worker has the job is
  swallowed by the worker's own mark; a crash between `completeAnalysis`'s two
  statements leaves the job pending; a job whose finalization is refused is
  tried again for ever, and so is one with an asset whose file was stored and
  whose part rows were not (a crash inside `recordAsset`): the file keeps it from
  being downloaded again, and the dispatch finds nothing to send.
- `XhsJobs`: a refusal that the web hook sends with status 200 is recorded as a
  part sent, and the job becomes `sent`. An exception of `ready_deliveries`, or
  of `delivery_error` in the `except` block, ends the only delivery thread while
  the process goes on; ready jobs then wait for the next start.
- `XhsJobs`: a second call of a run that is `summary_ready`, `sent` or `failed`
  collects again and sets it back to `collected`; the notes it reserves are
  never screened, since the screening job exists. A crash while collecting
  leaves the run `running`, and a raised `queue_recommendation_filter` leaves it
  `collected`; every later call counts either as a duplicate. A summary that
  fails for good leaves its run `summary_queued`: only screenings have an
  endpoint for a retry (`Store.retry_job` has no caller).

## 6. Not modelled

The components of section 1 without a module: see their notes in
`PROJECT.json`. Most of the repository is presentation, one-off analysis,
provider adapters and numerical research, whose files keep no state that several
actors change. Within the modelled components:

- bridge: decoding of frames and payloads, the HTTP interface and its
  authorisation, telemetry, migrations of old databases, manual repairs (the
  same `repair_private_positions` on a given range), the urgent alerts'
  in-memory allowance;
- `GroupRelay`: the window in which two source messages count as equivalent,
  what a chat shows after edits and recalls, the writer fence between two
  deployments, upgraded summaries, action cards;
- `IngestQueue`: several messages and the rule that text goes before media, two
  adapter processes at once, the pruning of history, a query that commits and
  raises nevertheless, a manual relay without message id, the Baidu and
  paper-knowledge-base queues;
- `EvidenceSpool`: several segment keys and the gating of streams, text that a
  half-written line glues to the next one, the bound on memory, the SSH
  transfer to the edge host;
- `XhsJobs`: the lanes that screen notes and profiles (of the same shape as
  `complete_filter`), the daily digest, jobs that commands create ready to be
  sent, the start-up pass that repairs runs of an older release, several runs
  side by side.

## 7. Plan

1. `LeasedLoop`: `supervise_leased_loop` over its lease row; at most one owner
   runs while renewals answer in time.
2. The Baidu and paper-knowledge-base queues of the adapter, against one
   abstract queue that `IngestQueue` and `XhsJobs` implement too.
3. `AlertOutbox` (attempts longer than their lease, streaks counted
   concurrently); `Settlement` (`walk_exit` as a function against a reference
   definition).
4. Lemmas shared by the proofs of the queues (fenced claims, counts of rows),
   when the second queue of item 2 has its module.
