------------------------------ MODULE GroupRelay ------------------------------
(* The group relay of the adapter (group-relay.mjs) and its ledger rows       *)
(* (ledger.mjs): one message of a source group, forwarded once to each target *)
(* group.  Request handlers (live ingress, official repair, retry request)    *)
(* and the periodic tick (retry queue, then poll) work on the row side by     *)
(* side; every await of the code ends a step here.                            *)
(*                                                                            *)
(* A content is its version: 0 the placeholder the web socket carries for a   *)
(* card, 1 what the source group shows, higher ones its edits.  The row's     *)
(* updated_at is kept as `rested`: whether the failure backoff, or the five   *)
(* minutes of a claim, are over.                                              *)
EXTENDS Naturals, FiniteSets

CONSTANTS
    Target,       \* target groups
    Webhook,      \* those reached by a web hook, which takes no uuid
    Handler,      \* requests the adapter serves
    Tick,         \* the periodic task
    Blocked,      \* contents that the source's filters hold back
    MaxVer,       \* bound: edits at the source
    MaxReopened,  \* bound: times a sent row is reopened
    MaxTrouble    \* bound: crashes, lost answers, raises, overrun claims

ASSUME RelayAssumption ==
    /\ Webhook \subseteq Target /\ Tick \notin Handler /\ IsFiniteSet(Handler)
    /\ MaxVer \in Nat \ {0} /\ MaxReopened \in Nat /\ MaxTrouble \in Nat
    /\ Blocked \subseteq 0..MaxVer

Caller == Handler \cup {Tick}
Version == 0..MaxVer
Closed == {"sent", "filtered_system", "skipped_bootstrap"}
Open == {"failed", "processing"}
Status == Closed \cup Open \cup {"none", "unsupported"}
Row == [status : Status, ver : Version, upd : Version, done : SUBSET Target, gone : BOOLEAN]
Sight == [known : BOOLEAN, upd : Version, gone : BOOLEAN]
Message == [ver : Version, upd : Version, gone : BOOLEAN]
Source == [ver : 1..MaxVer, gone : BOOLEAN]
Place == {"idle", "reopen", "claim", "payload", "sending", "fetched", "paged"}
Flag == {"plain", "replace", "correction"}

VARIABLES
    source,    \* the message in its group: version, and whether recalled
    row,       \* feishu_group_relay_messages; status "none": no row
    rested,    \* its updated_at is as old as a new claim wants it
    posted,    \* copies that reached each target
    at,        \* the await each caller is at
    msg,       \* the message it carries: version, update time (0: none), recalled
    flag,      \* replace a placeholder, correct, or neither
    seen,      \* what the poll has read of the row
    todo,      \* targets without an answer yet
    done,      \* targets recorded or reached
    failure,   \* what the sends met so far
    wanted,    \* the version the row was reopened for and not yet sent since
    reopened, trouble

callVars == <<at, msg, flag, seen, todo, done, failure>>
countVars == <<wanted, reopened, trouble>>
vars == <<source, row, rested, posted, at, msg, flag, seen, todo, done, failure,
          wanted, reopened, trouble>>

NoRow == [status |-> "none", ver |-> 0, upd |-> 0, done |-> {}, gone |-> FALSE]
NoSight == [known |-> FALSE, upd |-> 0, gone |-> FALSE]
NoMsg == [ver |-> 0, upd |-> 0, gone |-> FALSE]

Init ==
    /\ source = [ver |-> 1, gone |-> FALSE]
    /\ row = NoRow /\ rested = FALSE
    /\ posted = [t \in Target |-> 0]
    /\ at = [c \in Caller |-> "idle"]
    /\ msg = [c \in Caller |-> NoMsg]
    /\ flag = [c \in Caller |-> "plain"]
    /\ seen = [c \in Caller |-> NoSight]
    /\ todo = [c \in Caller |-> {}]
    /\ done = [c \in Caller |-> {}]
    /\ failure = [c \in Caller |-> "none"]
    /\ wanted = 0 /\ reopened = 0 /\ trouble = 0

Set(f, c, x) == [f EXCEPT ![c] = x]

\* Mutant of Return: the targets of one message are kept for the next.
ReturnLoaded(c) ==
    /\ at' = Set(at, c, "idle") /\ msg' = Set(msg, c, NoMsg)
    /\ flag' = Set(flag, c, "plain") /\ seen' = Set(seen, c, NoSight)
    /\ failure' = Set(failure, c, "none")
    /\ UNCHANGED <<todo, done>>

\* A caller forgets what it carried.
Return(c) ==
    /\ at' = Set(at, c, "idle") /\ msg' = Set(msg, c, NoMsg)
    /\ flag' = Set(flag, c, "plain") /\ seen' = Set(seen, c, NoSight)
    /\ todo' = Set(todo, c, {}) /\ done' = Set(done, c, {})
    /\ failure' = Set(failure, c, "none")

Trouble == trouble < MaxTrouble /\ trouble' = trouble + 1

Working(c) == at[c] \in {"payload", "sending"}

-----------------------------------------------------------------------------
(* The source group and the clock                                            *)

Edit ==
    /\ ~source.gone /\ source.ver < MaxVer
    /\ source' = [source EXCEPT !.ver = @ + 1]
    /\ UNCHANGED <<row, rested, posted, callVars, countVars>>

Recall ==
    /\ ~source.gone
    /\ source' = [source EXCEPT !.gone = TRUE]
    /\ UNCHANGED <<row, rested, posted, callVars, countVars>>

\* The backoff of a failed row ends, or five minutes pass over a claim; over
\* one that its owner is still working on only as trouble.
Rest ==
    /\ row.status \in Open /\ ~rested
    /\ rested' = TRUE
    /\ IF row.status = "processing" /\ \E c \in Caller : Working(c)
       THEN Trouble ELSE UNCHANGED trouble
    /\ UNCHANGED <<source, row, posted, callVars, wanted, reopened>>

-----------------------------------------------------------------------------
(* Ledger statements                                                         *)

\* filterRelayMessage: whatever the row's status was.
Filtered(m) ==
    /\ row' = [row EXCEPT !.status = "filtered_system", !.ver = m.ver, !.gone = FALSE,
                          !.upd = IF m.upd = 0 THEN @ ELSE m.upd]
    /\ rested' = FALSE

\* Mutant of Claimable: a claim is taken over, a failed row is not claimed.
ClaimableStale == row.status = "none" \/ (row.status = "processing" /\ rested)

\* The WHERE of claimRelayMessage.
Claimable == row.status = "none" \/ (row.status \in Open /\ rested)

\* markRelayMessage: by id alone.
Marked(status, targets) ==
    /\ row' = [row EXCEPT !.status = status, !.done = targets]
    /\ rested' = FALSE

\* updateRelaySourceMessage: stores what the source group shows now.
Updated(m) ==
    /\ row' = [row EXCEPT !.ver = m.ver, !.upd = m.upd, !.gone = m.gone]
    /\ rested' = FALSE

\* sourceEdited on the row as it was read.
Edited(m, existing) == m.upd > 1 /\ m.upd > existing.upd

-----------------------------------------------------------------------------
(* processInbound and repairFromOfficial: the row is read, reopened if the    *)
(* request may replace what was sent, then claimed                            *)

Replaces(how, m) == how = "replace" /\ row.status = "sent" /\ row.ver = 0
Corrects(how, m) == how = "correction" /\ row.status = "sent" /\ row.ver # m.ver

\* The web socket may be late and may carry a placeholder; the official API
\* says what the group shows and when it was edited.
Carried(v, official) ==
    [ver |-> v, upd |-> IF official THEN source.ver ELSE 0, gone |-> FALSE]

InboundFiltered(c) ==
    /\ at[c] = "idle"
    /\ \E v \in 0..source.ver \cap Blocked, official \in BOOLEAN :
        /\ official => v = source.ver /\ ~source.gone
        /\ Filtered(Carried(v, official))
    /\ UNCHANGED <<source, posted, callVars, countVars>>

\* getRelayMessage; a row that is closed and not to be sent anew ends the call.
InboundRead(c, v, how, official) ==
    /\ at[c] = "idle" /\ v \notin Blocked
    /\ official => v = source.ver /\ ~source.gone /\ how # "correction"
    /\ LET m == Carried(v, official)
           again == Replaces(how, m) \/ Corrects(how, m) IN
       /\ row.status \in Closed => again
       /\ again => reopened + Cardinality({d \in Caller : at[d] = "reopen"}) < MaxReopened
       /\ at' = Set(at, c, IF again THEN "reopen" ELSE "claim")
       /\ msg' = Set(msg, c, m)
       /\ flag' = Set(flag, c, IF again THEN how ELSE "plain")
    /\ UNCHANGED <<source, row, rested, posted, seen, todo, done, failure, countVars>>

\* resetRelayMessageForRetry leaves the content and starts a backoff;
\* correctRelayMessage stores the new content, ready to be claimed.
Reopen(c) ==
    /\ at[c] = "reopen" /\ row.status = "sent" /\ reopened < MaxReopened
    /\ IF flag[c] = "replace"
       THEN /\ row' = [row EXCEPT !.status = "failed", !.done = {}]
            /\ rested' = FALSE
       ELSE /\ row' = [row EXCEPT !.status = "failed", !.done = {}, !.ver = msg[c].ver]
            /\ rested' = TRUE
    /\ wanted' = msg[c].ver /\ reopened' = reopened + 1
    /\ at' = Set(at, c, "claim")
    /\ UNCHANGED <<source, posted, msg, flag, seen, todo, done, failure, trouble>>

ReopenRefused(c) ==
    /\ at[c] = "reopen" /\ row.status # "sent"
    /\ Return(c)
    /\ UNCHANGED <<source, row, rested, posted, countVars>>

-----------------------------------------------------------------------------
(* claim, fan-out and settlement: claimRelayMessage and processClaimed        *)

\* The row returned carries the targets reached by earlier claims.
Claim(c) ==
    /\ at[c] = "claim" /\ Claimable
    /\ row' = [row EXCEPT !.status = "processing", !.ver = msg[c].ver,
                          !.upd = IF msg[c].upd = 0 THEN @ ELSE msg[c].upd]
    /\ rested' = FALSE
    /\ at' = Set(at, c, "payload")
    /\ done' = Set(done, c, row.done)
    /\ msg' = [msg EXCEPT ![c].upd = 0] /\ flag' = Set(flag, c, "plain")
    /\ UNCHANGED <<source, posted, seen, todo, failure, countVars>>

ClaimRefused(c) ==
    /\ at[c] = "claim" /\ ~Claimable
    /\ Return(c)
    /\ UNCHANGED <<source, row, rested, posted, countVars>>

\* Mutant of PendingTargets: the fan-out starts over.
PendingTargetsAll(c) == Target

PendingTargets(c) == Target \ done[c]

\* relayPayload: downloads, uploads and layout.
Payload(c) ==
    /\ at[c] = "payload"
    /\ at' = Set(at, c, "sending")
    /\ todo' = Set(todo, c, PendingTargets(c))
    /\ msg' = Set(msg, c, NoMsg)
    /\ UNCHANGED <<source, row, rested, posted, flag, seen, done, failure, countVars>>

\* It raises, and the targets reached before are forgotten.
PayloadRaises(c) ==
    /\ at[c] = "payload" /\ Trouble
    /\ \E s \in {"failed", "unsupported"} : Marked(s, {})
    /\ Return(c)
    /\ UNCHANGED <<source, posted, wanted, reopened>>

\* One rejection for key words makes the whole attempt a permanent failure.
Worse(c, why) == IF failure[c] = "filtered_system" THEN failure[c] ELSE why

Answered(c, t) == todo' = Set(todo, c, todo[c] \ {t})

\* A send that is answered.  The message API gives the first copy's id back
\* while it remembers the uuid.
Sent(c, t) ==
    /\ at[c] = "sending" /\ t \in todo[c]
    /\ \E n \in {0, 1} :
        /\ n = 0 => t \notin Webhook /\ posted[t] > 0
        /\ posted' = Set(posted, t, posted[t] + n)
    /\ Answered(c, t) /\ done' = Set(done, c, done[c] \cup {t})
    /\ UNCHANGED <<source, row, rested, at, msg, flag, seen, failure, countVars>>

\* A send refused, for want of the web hook's key words or for another reason.
Refused(c, t) ==
    /\ at[c] = "sending" /\ t \in todo[c]
    /\ \E why \in {"failed", "filtered_system"} :
        /\ why = "filtered_system" => t \in Webhook
        /\ failure' = Set(failure, c, Worse(c, why))
    /\ Answered(c, t)
    /\ UNCHANGED <<source, row, rested, posted, at, msg, flag, seen, done, countVars>>

\* A send that arrived and whose answer did not.
AnswerLost(c, t) ==
    /\ at[c] = "sending" /\ t \in todo[c] /\ Trouble
    /\ posted' = Set(posted, t, posted[t] + 1)
    /\ failure' = Set(failure, c, Worse(c, "failed"))
    /\ Answered(c, t)
    /\ UNCHANGED <<source, row, rested, at, msg, flag, seen, done, wanted, reopened>>

\* Mutant of Outcome: a fan-out that reached one target counts as sent.
OutcomePartial(c) ==
    IF failure[c] = "none" \/ done[c] # {} THEN "sent" ELSE failure[c]

Outcome(c) == IF failure[c] = "none" THEN "sent" ELSE failure[c]

Settle(c) ==
    /\ at[c] = "sending" /\ todo[c] = {}
    /\ Marked(Outcome(c), done[c])
    /\ wanted' = IF Outcome(c) = "sent" THEN 0 ELSE wanted
    /\ Return(c)
    /\ UNCHANGED <<source, posted, reopened, trouble>>

\* Recording the outcome, or a call after it, raises: the catch block marks the
\* row failed without its targets.
SettleRaises(c) ==
    /\ at[c] = "sending" /\ todo[c] = {} /\ Trouble
    /\ Marked("failed", {})
    /\ Return(c)
    /\ UNCHANGED <<source, posted, wanted, reopened>>

\* A database call raises out of the handler, or the process dies.
Abandon(c) ==
    /\ at[c] = "claim" \/ Working(c)
    /\ Trouble
    /\ Return(c)
    /\ UNCHANGED <<source, row, rested, posted, wanted, reopened>>

-----------------------------------------------------------------------------
(* retryFailed: relayRetryQueue reads the rows, each is claimed later with    *)
(* the message it had then                                                    *)

RetryRead(c) ==
    /\ at[c] = "idle"
    /\ row.status = "failed" /\ rested /\ ~row.gone
    /\ at' = Set(at, c, "claim")
    /\ msg' = Set(msg, c, [ver |-> row.ver, upd |-> row.upd, gone |-> FALSE])
    /\ UNCHANGED <<source, row, rested, posted, flag, seen, todo, done, failure, countVars>>

-----------------------------------------------------------------------------
(* pollSource: a page of history, the rows of its messages, then one message  *)
(* after the other.  History is read from the cursor on, less an overlap, and *)
(* now and then a wider window: nothing says that a page holds this message.  *)

Fetch ==
    /\ at[Tick] = "idle"
    /\ at' = Set(at, Tick, "fetched")
    /\ msg' = Set(msg, Tick, [ver |-> source.ver, upd |-> source.ver, gone |-> source.gone])
    /\ UNCHANGED <<source, row, rested, posted, flag, seen, todo, done, failure, countVars>>

ReadPage ==
    /\ at[Tick] = "fetched"
    /\ at' = Set(at, Tick, "paged")
    /\ seen' = Set(seen, Tick, [known |-> row.status # "none", upd |-> row.upd, gone |-> row.gone])
    /\ UNCHANGED <<source, row, rested, posted, msg, flag, todo, done, failure, countVars>>

Known == seen[Tick].known

PollFiltered ==
    /\ at[Tick] = "paged" /\ ~msg[Tick].gone /\ msg[Tick].ver \in Blocked
    /\ Filtered(msg[Tick]) /\ Return(Tick)
    /\ UNCHANGED <<source, posted, countVars>>

\* skipRelayMessage: recalled, or older than the window of a reconciling or
\* first poll; it inserts unless there is a row by now.
PollSkipped ==
    /\ at[Tick] = "paged" /\ ~Known
    /\ msg[Tick].ver \notin Blocked \/ msg[Tick].gone
    /\ row' = IF row.status # "none" THEN row
              ELSE [row EXCEPT !.status = "skipped_bootstrap", !.ver = msg[Tick].ver,
                               !.upd = msg[Tick].upd, !.gone = msg[Tick].gone]
    /\ Return(Tick)
    /\ UNCHANGED <<source, rested, posted, countVars>>

PollRecalled ==
    /\ at[Tick] = "paged" /\ Known /\ msg[Tick].gone
    /\ IF seen[Tick].gone THEN UNCHANGED <<row, rested>> ELSE Updated(msg[Tick])
    /\ Return(Tick)
    /\ UNCHANGED <<source, posted, countVars>>

\* The copies recorded are edited in place; the row is not claimed.
PollEdited ==
    /\ at[Tick] = "paged" /\ Known /\ ~msg[Tick].gone
    /\ msg[Tick].ver \notin Blocked /\ Edited(msg[Tick], seen[Tick])
    /\ Updated(msg[Tick]) /\ Return(Tick)
    /\ UNCHANGED <<source, posted, countVars>>

PollClaims ==
    /\ at[Tick] = "paged" /\ ~msg[Tick].gone
    /\ msg[Tick].ver \notin Blocked /\ ~(Known /\ Edited(msg[Tick], seen[Tick]))
    /\ at' = Set(at, Tick, "claim") /\ seen' = Set(seen, Tick, NoSight)
    /\ UNCHANGED <<source, row, rested, posted, msg, flag, todo, done, failure, countVars>>

-----------------------------------------------------------------------------
Step(c) ==
    \/ Reopen(c) \/ ReopenRefused(c) \/ Claim(c) \/ ClaimRefused(c)
    \/ Payload(c) \/ Settle(c)
    \/ \E t \in Target : Sent(c, t) \/ Refused(c, t)

Poll == Fetch \/ ReadPage \/ PollFiltered \/ PollSkipped \/ PollRecalled \/ PollEdited \/ PollClaims

Inbound(c) ==
    \/ InboundFiltered(c)
    \/ \E v \in 0..source.ver, how \in Flag, official \in BOOLEAN :
        InboundRead(c, v, how, official)

Fails(c) ==
    \/ PayloadRaises(c) \/ SettleRaises(c) \/ Abandon(c)
    \/ \E t \in Target : AnswerLost(c, t)

Next ==
    \/ Edit \/ Recall \/ Rest \/ Poll
    \/ \E c \in Handler : Inbound(c)
    \/ \E c \in Caller : RetryRead(c) \/ Step(c) \/ Fails(c)

Spec == Init /\ [][Next]_vars

\* The tick runs its retry queue again and again, and every call ends; each
\* target accepts a send now and then.  No poll needs to read the message.
Fairness ==
    /\ WF_vars(Rest)
    /\ SF_vars(RetryRead(Tick)) /\ WF_vars(Poll /\ at[Tick] # "idle")
    /\ \A c \in Caller : WF_vars(Step(c))
    /\ \A t \in Target : SF_vars(\E c \in Caller : Sent(c, t))

FairSpec == Spec /\ Fairness

-----------------------------------------------------------------------------
\* Every variable keeps its type; a caller has targets only while it forwards.
TypeOK ==
    /\ source \in Source /\ row \in Row /\ rested \in BOOLEAN
    /\ posted \in [Target -> Nat]
    /\ at \in [Caller -> Place] /\ flag \in [Caller -> Flag]
    /\ msg \in [Caller -> Message]
    /\ seen \in [Caller -> Sight]
    /\ todo \in [Caller -> SUBSET Target] /\ done \in [Caller -> SUBSET Target]
    /\ failure \in [Caller -> {"none", "failed", "filtered_system"}]
    /\ \A c \in Caller : ~Working(c) => todo[c] = {} /\ done[c] = {}
    /\ wanted \in Version /\ reopened \in 0..MaxReopened /\ trouble \in 0..MaxTrouble

\* A row marked sent has reached every target, whoever among the callers that
\* claimed it, failed it or lost it recorded which target.
SentReachedAll ==
    row.status = "sent" => row.done = Target /\ \A t \in Target : posted[t] > 0

\* A target gets a second copy only if the row was reopened, or after a crash,
\* a lost answer, a claim that overran its five minutes or a call that raised.
CopiesExplained == \A t \in Target : posted[t] <= 1 + reopened + trouble

\* The caller that claimed the row has died, and the retry queue reads failed
\* rows only: a request or a poll would have to bring the message again.
Stranded == row.status = "processing" /\ \A c \in Caller : ~Working(c)

\* A row the relay has begun to forward ends sent, filtered or unsupported,
\* unless its message is recalled or the row stays stranded.
EventuallySettled ==
    row.status \in Open ~> (row.status \notin Open \/ source.gone \/ []Stranded)

\* Once a request has reopened a sent row to send another content, no caller
\* sends an older one in its place.
ReplacementIsSent == \A c \in Caller : at[c] = "payload" => msg[c].ver >= wanted
=============================================================================
