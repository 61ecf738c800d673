--------------------------- MODULE PositionRepair ---------------------------
(***************************************************************************)
(* How the bridge notices that the chat connection skipped messages and    *)
(* reads them back.  Every message of a chat has a position; the spool     *)
(* keeps, per chat, a cursor (last_position), the positions it has seen    *)
(* (position_coverage) and the ones it read back (position_recoveries).    *)
(* Live frames record a position and schedule a repair of the gap it opens;*)
(* a notification or a timer pulls the window behind the cursor; a start   *)
(* pulls the gaps the tables still show.  Each pull asks a gateway that    *)
(* may fail or not have the message yet.  One chat is modelled: nothing is *)
(* shared between chats but the process.                                   *)
(***************************************************************************)
EXTENDS Naturals, FiniteSets

CONSTANTS
    MaxPos,         \* bound: messages ever posted in the chat
    Live,           \* concurrent on_message calls for frames of the connection
    GapTask,        \* scheduled gap repairs that run at the same time
    TailTask,       \* tail repairs: the periodic one and the notification's
    Startup,        \* repair_known_private_gaps
    Window,         \* positions one tail repair asks for
    ChunkSize,      \* positions one gap request asks for
    RangeLimit,     \* gaps position_gap_ranges returns (32 in the code)
    Echo,           \* the account's own messages, dropped once recorded
    Ignored,        \* messages a command-only chat does not forward
    Unreadable,     \* messages the history gateway never returns (recalled)
    CrashInWindow,  \* may the process die between a message's position and row?
    EnqueueFails    \* may enqueue raise (an error of the database)?

Pos == 1..MaxPos
Repairer == GapTask \cup TailTask \cup {Startup}
Reader == Live \cup Repairer

ASSUME PositionAssumption ==
    /\ MaxPos \in Nat /\ Window \in Nat \ {0} /\ ChunkSize \in Nat \ {0} /\ RangeLimit \in Nat \ {0}
    /\ Echo \subseteq Pos /\ Ignored \subseteq Pos /\ Unreadable \subseteq Pos
    /\ CrashInWindow \in BOOLEAN /\ EnqueueFails \in BOOLEAN
ASSUME ReaderAssumption ==
    /\ Live \cap Repairer = {} /\ GapTask \cap TailTask = {}
    /\ Startup \notin GapTask \cup TailTask

VARIABLES
    \* the database
    last,           \* position_stats.last_position, 0 when there is none
    lastRecovered,  \* position_stats.last_recovered_position, 0 when there is none
    coverage,       \* positions in position_coverage
    recovered,      \* positions in position_recoveries
    kept,           \* positions whose message has a row in events or filtered_events
    \* the process
    step, cur,      \* per reader: where it is, the position on_message works on
    todo,           \* per repairer: positions asked for, then those it got
    gaps,           \* chunks scheduled by live frames, not yet started
    started, plan,  \* has the startup repair read its ranges, which are left
    \* the world
    head            \* position of the newest message

tables == <<last, lastRecovered, coverage, recovered, kept>>
repair == <<todo, gaps, started, plan>>
vars == <<tables, step, cur, repair, head>>

TypeOK ==
    /\ last \in 0..MaxPos /\ lastRecovered \in 0..MaxPos /\ head \in 0..MaxPos
    /\ coverage \subseteq Pos /\ recovered \subseteq Pos /\ kept \subseteq Pos
    /\ step \in [Reader -> {"idle", "pull", "read", "keep", "settle"}]
    /\ cur \in [Reader -> 0..MaxPos]
    /\ \A r \in Reader : step[r] \in {"keep", "settle"} => cur[r] # 0
    /\ todo \in [Repairer -> SUBSET Pos]
    /\ gaps \subseteq Pos \X Pos /\ plan \subseteq Pos \X Pos
    /\ started \in BOOLEAN

Init ==
    /\ last = 0 /\ lastRecovered = 0
    /\ coverage = {} /\ recovered = {} /\ kept = {}
    /\ step = [r \in Reader |-> "idle"] /\ cur = [r \in Reader |-> 0]
    /\ todo = [r \in Repairer |-> {}]
    /\ gaps = {} /\ plan = {} /\ started = FALSE
    /\ head = 0

-----------------------------------------------------------------------------
(* Helpers                                                                 *)

Larger(a, b) == IF a >= b THEN a ELSE b
Smaller(a, b) == IF a <= b THEN a ELSE b

\* Mutant of Chunks: the end of the range is exclusive.
ChunksShort(first, end) ==
    {<<c, Smaller(end, c + ChunkSize) - 1>> :
        c \in {d \in first..end : (d - first) % ChunkSize = 0}}

\* _private_repair_chunks
Chunks(first, end) ==
    {<<c, Smaller(end, c + ChunkSize - 1)>> :
        c \in {d \in first..end : (d - first) % ChunkSize = 0}}

\* The gaps between covered neighbours, as position_gap_ranges walks them.
GapRanges ==
    {<<n[1] + 1, n[2] - 1>> : n \in
        {ab \in coverage \X coverage :
            /\ ab[2] - ab[1] > 1
            /\ \A q \in coverage : q <= ab[1] \/ q >= ab[2]}}

\* ... of which it returns the first ones.
KnownRanges ==
    {g \in GapRanges : Cardinality({f \in GapRanges : f[1] < g[1]}) < RangeLimit}

GapPositions == UNION {g[1]..g[2] : g \in GapRanges}

\* record_position, and what on_message makes of an error in it.
RecordPosition(p) ==
    /\ last' = Larger(last, p)
    /\ coverage' = coverage \cup {p}
    /\ UNCHANGED <<lastRecovered, recovered, kept>>

\* record_ignored: the cursor moves, the position is not covered.
RecordIgnored(p) ==
    /\ last' = Larger(last, p)
    /\ UNCHANGED <<lastRecovered, coverage, recovered, kept>>

\* The gap a position opens behind it, when the cursor was set.
OpenedBy(p) == IF last # 0 /\ p > last + 1 THEN Chunks(last + 1, p - 1) ELSE {}

Proceed(r, s, p) == step' = [step EXCEPT ![r] = s] /\ cur' = [cur EXCEPT ![r] = p]

-----------------------------------------------------------------------------
(* on_message for a frame of the connection.  Frames come in any order, more *)
(* than once or never.  recording = FALSE: the spool call raised, which is   *)
(* logged and otherwise passed over.                                         *)

Frame(h, p, recording) ==
    /\ step[h] = "idle" /\ p <= head /\ p \notin Ignored
    /\ IF recording
       THEN RecordPosition(p) /\ gaps' = gaps \cup OpenedBy(p)
       ELSE UNCHANGED <<tables, gaps>>
    /\ IF p \in Echo THEN UNCHANGED <<step, cur>> ELSE Proceed(h, "keep", p)
    /\ UNCHANGED <<todo, started, plan, head>>

\* A gap that an ignored message opens is logged and not scheduled.
FrameIgnored(h, p) ==
    /\ step[h] = "idle" /\ p <= head /\ p \in Ignored
    /\ RecordIgnored(p)
    /\ UNCHANGED <<step, cur, repair, head>>

\* Mutant of AfterKeep: the repair forgets which position it works on.
AfterKeepDropped(r) == Proceed(r, IF r \in Live THEN "idle" ELSE "settle", 0)

AfterKeep(r) == IF r \in Live THEN Proceed(r, "idle", 0) ELSE Proceed(r, "settle", cur[r])

\* enqueue or record_filtered: the message has its row, a new one is indexed.
Keep(r) ==
    /\ step[r] = "keep"
    /\ kept' = kept \cup {cur[r]}
    /\ coverage' = IF cur[r] \in kept THEN coverage ELSE coverage \cup {cur[r]}
    /\ AfterKeep(r)
    /\ UNCHANGED <<last, lastRecovered, recovered, repair, head>>

\* enqueue raised (a payload over the limit, an error of the database).
KeepFails(r) ==
    /\ EnqueueFails
    /\ step[r] = "keep"
    /\ Proceed(r, IF r \in Live THEN "idle" ELSE "read", 0)
    /\ UNCHANGED <<tables, repair, head>>

-----------------------------------------------------------------------------
(* repair_private_positions: ask, pull, then on_message for one position     *)
(* after another in their order, each followed by record_recovered_position. *)

Ask(r, positions) ==
    /\ step[r] = "idle"
    /\ todo' = [todo EXCEPT ![r] = positions]
    /\ Proceed(r, "pull", 0)

AskGap(r, chunk) ==
    /\ chunk \in gaps
    /\ Ask(r, chunk[1]..chunk[2])
    /\ gaps' = gaps \ {chunk}
    /\ UNCHANGED <<tables, started, plan, head>>

\* Mutant of TailStart: the tail starts at what was read back, not observed.
TailStartRecovered == lastRecovered + 1

TailStart == Larger(last, lastRecovered) + 1

\* _repair_chat_tail: the window behind the cursor, once there is a cursor.
AskTail(r) ==
    /\ TailStart > 1
    /\ Ask(r, Pos \cap (TailStart..(TailStart + Window - 1)))
    /\ UNCHANGED <<tables, gaps, started, plan, head>>

\* repair_known_private_gaps runs once per process.
ReadKnownGaps ==
    /\ ~started /\ started' = TRUE
    /\ plan' = UNION {Chunks(g[1], g[2]) : g \in KnownRanges}
    /\ UNCHANGED <<tables, step, cur, todo, gaps, head>>

AskKnownGap(chunk) ==
    /\ chunk \in plan /\ \A c \in plan : chunk[1] <= c[1]
    /\ Ask(Startup, chunk[1]..chunk[2])
    /\ plan' = plan \ {chunk}
    /\ UNCHANGED <<tables, gaps, started, head>>

\* What the gateway may return of the positions it is asked for: it need not
\* have indexed a message yet, and a failed call returns nothing.
Pull(r, got) ==
    /\ step[r] = "pull"
    /\ got \subseteq {p \in todo[r] : p <= head} \ Unreadable
    /\ todo' = [todo EXCEPT ![r] = got]
    /\ Proceed(r, "read", 0)
    /\ UNCHANGED <<tables, gaps, started, plan, head>>

IsNextRead(r, p) == p \in todo[r] /\ \A q \in todo[r] : p <= q

\* on_message(recovered=True) up to the spool row; no gap is scheduled.
ReadNext(r, p, recording) ==
    /\ step[r] = "read" /\ IsNextRead(r, p)
    /\ todo' = [todo EXCEPT ![r] = @ \ {p}]
    /\ IF ~recording
       THEN UNCHANGED tables
       ELSE IF p \in Ignored THEN RecordIgnored(p) ELSE RecordPosition(p)
    /\ CASE p \in Ignored -> UNCHANGED <<step, cur>>
         [] p \in Echo \ Ignored -> Proceed(r, "settle", p)
         [] OTHER -> Proceed(r, "keep", p)
    /\ UNCHANGED <<gaps, started, plan, head>>

\* Mutant of Settle: a position counts as read back whatever became of it.
SettleEarly(r) ==
    /\ step[r] \in {"keep", "settle"}
    /\ coverage' = coverage \cup {cur[r]}
    /\ recovered' = recovered \cup {cur[r]}
    /\ lastRecovered' = cur[r]
    /\ Proceed(r, "read", 0)
    /\ UNCHANGED <<last, kept, repair, head>>

\* The message was delivered, known or filtered: record_recovered_position.
Settle(r) ==
    /\ step[r] = "settle"
    /\ IF cur[r] \in recovered
       THEN UNCHANGED tables
       ELSE /\ recovered' = recovered \cup {cur[r]}
            /\ coverage' = coverage \cup {cur[r]}
            /\ lastRecovered' = cur[r]
            /\ UNCHANGED <<last, kept>>
    /\ Proceed(r, "read", 0)
    /\ UNCHANGED <<repair, head>>

\* Its delivery failed, or the record did: the repair goes on without it.
SettleFails(r) ==
    /\ step[r] = "settle"
    /\ Proceed(r, "read", 0)
    /\ UNCHANGED <<tables, repair, head>>

Finish(r) ==
    /\ step[r] = "read" /\ todo[r] = {}
    /\ Proceed(r, "idle", 0)
    /\ UNCHANGED <<tables, repair, head>>

-----------------------------------------------------------------------------
Post ==
    /\ head < MaxPos
    /\ head' = head + 1
    /\ UNCHANGED <<tables, step, cur, repair>>

Restart ==
    /\ CrashInWindow \/ \A r \in Reader : step[r] # "keep"
    /\ step' = [r \in Reader |-> "idle"] /\ cur' = [r \in Reader |-> 0]
    /\ todo' = [r \in Repairer |-> {}]
    /\ gaps' = {} /\ plan' = {} /\ started' = FALSE
    /\ UNCHANGED <<tables, head>>

Repairing(r) ==
    \/ \E got \in SUBSET todo[r] : Pull(r, got)
    \/ \E p \in todo[r], recording \in BOOLEAN : ReadNext(r, p, recording)
    \/ Settle(r)
    \/ SettleFails(r)
    \/ Finish(r)

Asking ==
    \/ \E r \in GapTask, chunk \in gaps : AskGap(r, chunk)
    \/ \E r \in TailTask : AskTail(r)
    \/ ReadKnownGaps
    \/ \E chunk \in plan : AskKnownGap(chunk)

Next ==
    \/ \E h \in Live, p \in Pos, recording \in BOOLEAN : Frame(h, p, recording)
    \/ \E h \in Live, p \in Pos : FrameIgnored(h, p)
    \/ \E r \in Reader : Keep(r) \/ KeepFails(r)
    \/ \E r \in Repairer : Repairing(r)
    \/ Asking
    \/ Post
    \/ Restart

Spec == Init /\ [][Next]_vars

-----------------------------------------------------------------------------
(* Properties                                                                *)

InHand(p) == \E r \in Reader : step[r] = "keep" /\ cur[r] = p

\* position_gap_ranges is "derived from the durable event and recovery rows: a
\* restart does not lose the ranges that still need private backfill": between
\* the positions the bridge has seen, each message it should forward has its
\* row, or is being handled, or lies in a gap the tables still show.  The
\* position is recorded before the row: needs ~CrashInWindow and ~EnqueueFails.
NothingSlipsThrough ==
    \A p \in Pos \ (Echo \cup Ignored) :
        (\E a, b \in coverage : a <= p /\ p <= b) =>
            p \in kept \/ InHand(p) \/ p \in GapPositions

\* A position is in the recoveries only once its message is durable (or needs
\* no row), so that a recovered gap can be forgotten: in no interleaving of
\* live frames, concurrent repairs and crashes is one closed too early.
RecoveredIsKept == recovered \subseteq kept \cup Echo

\* Repairers go on; now and then the gateway returns all it can of what it is
\* asked for, and the database records what was read.
Fairness(R) ==
    \A r \in R :
        /\ WF_vars(Repairing(r)) /\ WF_vars(Keep(r))
        /\ SF_vars(Pull(r, {p \in todo[r] : p <= head} \ Unreadable))
        /\ SF_vars(\E p \in Pos : ReadNext(r, p, TRUE))

\* private_tail_repair_forever asks again and again; the startup repair goes
\* through in a process that stays up long enough.
RepairSpec ==
    /\ Spec /\ Fairness(TailTask \cup {Startup})
    /\ \A r \in TailTask : WF_vars(AskTail(r))

\* The connection may stay silent for ever: a readable message is still reached
\* by the cursor, once the chat has one and the process stays up.
TailReached ==
    <>[][~Restart]_vars =>
        \A p \in Pos \ Unreadable :
            (last > 0 /\ p <= head) ~> (p <= last \/ p <= lastRecovered)

\* A gap the tables show is read back, if a start's repair goes through again
\* and again.  Needs RangeLimit to exceed the gaps that cannot be read.
GapsReadBack ==
    []<><<step[Startup] = "read" /\ Finish(Startup) /\ plan = {}>>_vars =>
        \A p \in Pos \ (Unreadable \cup Ignored) : p \in GapPositions ~> p \notin GapPositions
=============================================================================
