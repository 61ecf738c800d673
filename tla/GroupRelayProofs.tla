-------------------------- MODULE GroupRelayProofs --------------------------
(***************************************************************************)
(* Proofs about GroupRelay, for any targets, handlers, contents and        *)
(* bounds.  That a sent row has reached every target needs the targets     *)
(* each caller accounts for: what it has recorded was posted (Recorded),   *)
(* and while no send has failed, what is recorded and what is still to do  *)
(* make up all targets (Accounted).  That copies are bounded needs the     *)
(* copies that may still come (Budget): one of each caller at work that    *)
(* has not reached the target, and one more if the row can be claimed      *)
(* without trouble and does not record the target.                         *)
(***************************************************************************)
EXTENDS GroupRelay, FiniteSetTheorems, TLAPS

-----------------------------------------------------------------------------
(* Types                                                                   *)

DataOK ==
    /\ source \in Source /\ row \in Row /\ rested \in BOOLEAN
    /\ posted \in [Target -> Nat]

CallOK ==
    /\ at \in [Caller -> Place] /\ flag \in [Caller -> Flag]
    /\ msg \in [Caller -> Message] /\ seen \in [Caller -> Sight]
    /\ todo \in [Caller -> SUBSET Target] /\ done \in [Caller -> SUBSET Target]
    /\ failure \in [Caller -> {"none", "failed", "filtered_system"}]
    /\ \A c \in Caller : ~Working(c) => todo[c] = {} /\ done[c] = {}

CountOK == wanted \in Version /\ reopened \in 0..MaxReopened /\ trouble \in 0..MaxTrouble

Types == DataOK /\ CallOK /\ CountOK

\* What the ledger's statements leave in the row.
LEMMA FilteredRow ==
    ASSUME row \in Row, NEW m \in Message, Filtered(m)
    PROVE  /\ row' \in Row /\ rested' \in BOOLEAN
           /\ row'.status = "filtered_system" /\ row'.done = row.done
BY DEF Filtered, Row, Message, Status, Closed

LEMMA MarkedRow ==
    ASSUME row \in Row, NEW s \in Status, NEW ts \in SUBSET Target, Marked(s, ts)
    PROVE  row' \in Row /\ rested' \in BOOLEAN /\ row'.status = s /\ row'.done = ts
BY DEF Marked, Row

LEMMA UpdatedRow ==
    ASSUME row \in Row, NEW m \in Message, Updated(m)
    PROVE  /\ row' \in Row /\ rested' \in BOOLEAN
           /\ row'.status = row.status /\ row'.done = row.done
BY DEF Updated, Row, Message

LEMMA ReopenedRow ==
    ASSUME row \in Row, NEW c \in Caller, msg[c] \in Message, Reopen(c)
    PROVE  row' \in Row /\ rested' \in BOOLEAN /\ row'.status = "failed" /\ row'.done = {}
BY DEF Reopen, Row, Message, Status, Open

LEMMA ClaimedRow ==
    ASSUME row \in Row, NEW c \in Caller, msg[c] \in Message, Claim(c)
    PROVE  /\ row' \in Row /\ rested' \in BOOLEAN
           /\ row'.status = "processing" /\ row'.done = row.done
BY DEF Claim, Row, Message, Status, Open

LEMMA SkippedRow ==
    ASSUME row \in Row, msg[Tick] \in Message, PollSkipped
    PROVE  row' \in Row /\ row'.done = row.done /\ row'.status \in {row.status, "skipped_bootstrap"}
BY DEF PollSkipped, Row, Message, Status, Closed

\* A caller that returns keeps every caller's types.
LEMMA ReturnType == ASSUME CallOK, NEW c \in Caller, Return(c) PROVE CallOK'
<1>1. /\ at' \in [Caller -> Place] /\ flag' \in [Caller -> Flag]
      /\ todo' \in [Caller -> SUBSET Target] /\ done' \in [Caller -> SUBSET Target]
      /\ failure' \in [Caller -> {"none", "failed", "filtered_system"}]
  BY DEF CallOK, Return, Set, Place, Flag
<1>2. NoMsg \in Message /\ NoSight \in Sight
  BY RelayAssumption DEF NoMsg, NoSight, Message, Sight, Version
<1>3. msg' \in [Caller -> Message] /\ seen' \in [Caller -> Sight]
  BY <1>2 DEF CallOK, Return, Set
<1>4. ASSUME NEW d \in Caller, ~Working(d)' PROVE todo'[d] = {} /\ done'[d] = {}
  <2>1. CASE d = c
    BY <2>1 DEF CallOK, Return, Set
  <2>2. CASE d # c
    BY <1>4, <2>2 DEF CallOK, Return, Set, Working
  <2> QED BY <2>1, <2>2
<1> QED BY <1>1, <1>3, <1>4 DEF CallOK

LEMMA CarriedMessage ==
    ASSUME source \in Source, NEW v \in 0..source.ver, NEW official \in BOOLEAN
    PROVE  Carried(v, official) \in Message
BY RelayAssumption DEF Carried, Source, Message, Version

LEMMA InitType == Init => Types
<1> SUFFICES ASSUME Init PROVE Types
  OBVIOUS
<1>1. NoMsg \in Message /\ NoSight \in Sight /\ NoRow \in Row
  BY RelayAssumption DEF NoMsg, NoSight, NoRow, Message, Sight, Row, Version, Status
<1>2. DataOK
  <2>1. 1 \in 1..MaxVer
    BY RelayAssumption
  <2>2. source \in Source
    BY <2>1 DEF Init, Source
  <2>3. posted \in [Target -> Nat]
    BY DEF Init
  <2> QED BY <1>1, <2>2, <2>3 DEF Init, DataOK
<1>3. CallOK
  <2>1. /\ at \in [Caller -> Place] /\ flag \in [Caller -> Flag]
        /\ failure \in [Caller -> {"none", "failed", "filtered_system"}]
    BY DEF Init, Place, Flag
  <2>2. msg \in [Caller -> Message] /\ seen \in [Caller -> Sight]
    BY <1>1 DEF Init
  <2>3. /\ todo \in [Caller -> SUBSET Target] /\ done \in [Caller -> SUBSET Target]
        /\ \A c \in Caller : todo[c] = {} /\ done[c] = {}
    BY DEF Init
  <2> QED BY <2>1, <2>2, <2>3 DEF CallOK
<1>4. CountOK
  BY RelayAssumption DEF Init, CountOK, Version
<1> QED BY <1>2, <1>3, <1>4 DEF Types

\* A source that moves on, a row that rests.
LEMMA ClockType == ASSUME Types, Edit \/ Recall \/ Rest PROVE Types'
<1>1. CallOK' /\ wanted' \in Version /\ reopened' \in 0..MaxReopened
  BY DEF Types, CallOK, CountOK, Working, Edit, Recall, Rest, callVars, countVars
<1>2. CASE Edit
  <2>1. source' \in Source
    BY <1>2, RelayAssumption DEF Types, DataOK, Source, Edit
  <2> QED BY <1>1, <1>2, <2>1 DEF Types, DataOK, CountOK, Edit, countVars
<1>3. CASE Recall
  <2>1. source' \in Source
    BY <1>3 DEF Types, DataOK, Source, Recall
  <2> QED BY <1>1, <1>3, <2>1 DEF Types, DataOK, CountOK, Recall, countVars
<1>4. CASE Rest
  BY <1>1, <1>4, RelayAssumption DEF Types, DataOK, CountOK, Rest, Trouble
<1> QED BY <1>2, <1>3, <1>4

\* A request that reads the row, filters it or reopens it.
LEMMA InboundType == ASSUME Types, NEW c \in Caller, Inbound(c) PROVE Types'
<1>1. CASE InboundFiltered(c)
  <2>1. PICK v \in 0..source.ver \cap Blocked, official \in BOOLEAN : Filtered(Carried(v, official))
    BY <1>1 DEF InboundFiltered
  <2>2. row' \in Row /\ rested' \in BOOLEAN
    BY <2>1, CarriedMessage, FilteredRow DEF Types, DataOK
  <2> QED BY <1>1, <2>2
          DEF Types, InboundFiltered, DataOK, CallOK, CountOK, Working, callVars, countVars
<1>2. ASSUME NEW v \in 0..source.ver, NEW how \in Flag, NEW official \in BOOLEAN,
             InboundRead(c, v, how, official)
      PROVE  Types'
  <2>1. Carried(v, official) \in Message
    BY CarriedMessage DEF Types, DataOK
  <2>2. msg' \in [Caller -> Message]
    BY <1>2, <2>1 DEF Types, InboundRead, CallOK, Set
  <2>3. at' \in [Caller -> Place] /\ flag' \in [Caller -> Flag]
    BY <1>2 DEF Types, InboundRead, CallOK, Set, Place, Flag
  <2>4. ASSUME NEW d \in Caller, ~Working(d)' PROVE todo'[d] = {} /\ done'[d] = {}
    BY <1>2, <2>4 DEF Types, InboundRead, CallOK, Set, Working
  <2>5. CallOK'
    BY <1>2, <2>2, <2>3, <2>4 DEF Types, InboundRead, CallOK
  <2> QED BY <1>2, <2>5 DEF Types, InboundRead, DataOK, CountOK, countVars
<1> QED BY <1>1, <1>2 DEF Inbound

\* The steps of a claim, up to its settlement.
LEMMA CallType == ASSUME Types, NEW c \in Caller, Step(c) PROVE Types'
<1>0. DataOK /\ CallOK /\ CountOK /\ msg[c] \in Message
  BY DEF Types, CallOK
<1>1. CASE Reopen(c)
  <2>1. row' \in Row /\ rested' \in BOOLEAN
    BY <1>0, <1>1, ReopenedRow DEF DataOK
  <2>2. wanted' \in Version /\ reopened' \in 0..MaxReopened
    BY <1>0, <1>1, RelayAssumption DEF Reopen, CountOK, Message
  <2>3. at' \in [Caller -> Place] /\ \A d \in Caller : Working(d)' <=> Working(d)
    BY <1>0, <1>1 DEF Reopen, CallOK, Set, Place, Working
  <2> QED BY <1>0, <1>1, <2>1, <2>2, <2>3 DEF Types, Reopen, DataOK, CallOK, CountOK, Working
<1>2. CASE ReopenRefused(c) \/ ClaimRefused(c)
  <2>1. CallOK'
    BY <1>0, <1>2, ReturnType DEF ReopenRefused, ClaimRefused
  <2> QED BY <1>0, <1>2, <2>1 DEF Types, ReopenRefused, ClaimRefused, DataOK, CountOK, countVars
<1>3. CASE Claim(c)
  <2>1. row' \in Row /\ rested' \in BOOLEAN
    BY <1>0, <1>3, ClaimedRow DEF DataOK
  <2>2. row.done \in SUBSET Target
    BY <1>0 DEF DataOK, Row
  <2>3. /\ at' \in [Caller -> Place] /\ flag' \in [Caller -> Flag]
        /\ done' \in [Caller -> SUBSET Target]
    BY <1>0, <1>3, <2>2 DEF Claim, CallOK, Set, Place, Flag
  <2>4. msg' \in [Caller -> Message]
    <3>1. [msg[c] EXCEPT !.upd = 0] \in Message
      BY <1>0, RelayAssumption DEF Message, Version
    <3>2. msg' = [msg EXCEPT ![c] = [msg[c] EXCEPT !.upd = 0]]
      BY <1>0, <1>3 DEF Claim, CallOK
    <3> QED BY <1>0, <3>1, <3>2 DEF CallOK
  <2>5. ASSUME NEW d \in Caller, ~Working(d)' PROVE todo'[d] = {} /\ done'[d] = {}
    BY <1>0, <1>3, <2>5 DEF Claim, CallOK, Set, Working
  <2> QED BY <1>0, <1>3, <2>1, <2>3, <2>4, <2>5 DEF Types, Claim, DataOK, CallOK, CountOK, countVars
<1>4. CASE Payload(c)
  <2>1. at' \in [Caller -> Place]
    BY <1>0, <1>4 DEF Payload, CallOK, Set, Place
  <2>2. todo' \in [Caller -> SUBSET Target]
    BY <1>0, <1>4 DEF Payload, CallOK, Set, PendingTargets
  <2>3. msg' \in [Caller -> Message]
    <3>1. NoMsg \in Message
      BY RelayAssumption DEF NoMsg, Message, Version
    <3> QED BY <1>0, <1>4, <3>1 DEF Payload, CallOK, Set
  <2>4. ASSUME NEW d \in Caller, ~Working(d)' PROVE todo'[d] = {} /\ done'[d] = {}
    BY <1>0, <1>4, <2>4 DEF Payload, CallOK, Set, Working
  <2> QED BY <1>0, <1>4, <2>1, <2>2, <2>3, <2>4
          DEF Types, Payload, DataOK, CallOK, CountOK, countVars
<1>5. CASE Settle(c)
  <2>1. Outcome(c) \in Status /\ done[c] \in SUBSET Target
    BY <1>0 DEF Outcome, CallOK, Status, Closed, Open
  <2>2. row' \in Row /\ rested' \in BOOLEAN
    BY <1>0, <1>5, <2>1, MarkedRow DEF Settle, DataOK
  <2>3. CallOK'
    BY <1>0, <1>5, ReturnType DEF Settle
  <2>4. wanted' \in Version
    BY <1>0, <1>5, RelayAssumption DEF Settle, CountOK, Version
  <2> QED BY <1>0, <1>5, <2>2, <2>3, <2>4 DEF Types, Settle, DataOK, CountOK
<1>6. ASSUME NEW t \in Target, Sent(c, t) \/ Refused(c, t) PROVE Types'
  <2>1. todo' \in [Caller -> SUBSET Target] /\ done' \in [Caller -> SUBSET Target]
    BY <1>0, <1>6 DEF Sent, Refused, Answered, CallOK, Set
  <2>2. posted' \in [Target -> Nat]
    BY <1>0, <1>6 DEF Sent, Refused, DataOK, Set
  <2>3. failure' \in [Caller -> {"none", "failed", "filtered_system"}]
    BY <1>0, <1>6 DEF Sent, Refused, Worse, CallOK, Set
  <2>4. ASSUME NEW d \in Caller, ~Working(d)' PROVE todo'[d] = {} /\ done'[d] = {}
    BY <1>0, <1>6, <2>4 DEF Sent, Refused, Answered, CallOK, Set, Working
  <2> QED BY <1>0, <1>6, <2>1, <2>2, <2>3, <2>4
          DEF Types, Sent, Refused, DataOK, CallOK, CountOK, countVars
<1> QED BY <1>1, <1>2, <1>3, <1>4, <1>5, <1>6 DEF Step

\* The steps that go wrong.
LEMMA FailsType == ASSUME Types, NEW c \in Caller, Fails(c) PROVE Types'
<1>0. DataOK /\ CallOK /\ CountOK
  BY DEF Types
<1>1. CASE PayloadRaises(c) \/ SettleRaises(c) \/ Abandon(c)
  <2>1. CallOK'
    BY <1>0, <1>1, ReturnType DEF PayloadRaises, SettleRaises, Abandon
  <2>2. row' \in Row /\ rested' \in BOOLEAN
    <3>1. \A s \in {"failed", "unsupported"} : s \in Status
      BY DEF Status, Open
    <3> QED BY <1>0, <1>1, <3>1, MarkedRow DEF PayloadRaises, SettleRaises, Abandon, DataOK
  <2>3. CountOK'
    BY <1>0, <1>1, RelayAssumption DEF PayloadRaises, SettleRaises, Abandon, Trouble, CountOK
  <2> QED BY <1>0, <1>1, <2>1, <2>2, <2>3 DEF Types, PayloadRaises, SettleRaises, Abandon, DataOK
<1>2. ASSUME NEW t \in Target, AnswerLost(c, t) PROVE Types'
  <2>1. todo' \in [Caller -> SUBSET Target]
    BY <1>0, <1>2 DEF AnswerLost, Answered, CallOK, Set
  <2>2. posted' \in [Target -> Nat]
    BY <1>0, <1>2 DEF AnswerLost, DataOK, Set
  <2>3. failure' \in [Caller -> {"none", "failed", "filtered_system"}]
    BY <1>0, <1>2 DEF AnswerLost, Worse, CallOK, Set
  <2>4. ASSUME NEW d \in Caller, ~Working(d)' PROVE todo'[d] = {} /\ done'[d] = {}
    BY <1>0, <1>2, <2>4 DEF AnswerLost, Answered, CallOK, Set, Working
  <2>5. CountOK'
    BY <1>0, <1>2, RelayAssumption DEF AnswerLost, Trouble, CountOK
  <2> QED BY <1>0, <1>2, <2>1, <2>2, <2>3, <2>4, <2>5 DEF Types, AnswerLost, DataOK, CallOK
<1> QED BY <1>1, <1>2 DEF Fails

\* The retry queue reads a row.
LEMMA RetryType == ASSUME Types, NEW c \in Caller, RetryRead(c) PROVE Types'
<1>0. DataOK /\ CallOK /\ CountOK
  BY DEF Types
<1>1. [ver |-> row.ver, upd |-> row.upd, gone |-> FALSE] \in Message
  BY <1>0 DEF DataOK, Row, Message
<1>2. msg' \in [Caller -> Message] /\ at' \in [Caller -> Place]
  BY <1>0, <1>1 DEF RetryRead, CallOK, Set, Place
<1>3. ASSUME NEW d \in Caller, ~Working(d)' PROVE todo'[d] = {} /\ done'[d] = {}
  BY <1>0, <1>3 DEF RetryRead, CallOK, Set, Working
<1> QED BY <1>0, <1>2, <1>3 DEF Types, RetryRead, DataOK, CallOK, CountOK, countVars

\* The poll.
LEMMA PollType == ASSUME Types, Poll PROVE Types'
<1>0. DataOK /\ CallOK /\ CountOK /\ Tick \in Caller /\ msg[Tick] \in Message
  BY DEF Types, CallOK, Caller
<1>1. CASE Fetch
  <2>1. [ver |-> source.ver, upd |-> source.ver, gone |-> source.gone] \in Message
    BY <1>0, RelayAssumption DEF DataOK, Source, Message, Version
  <2>2. msg' \in [Caller -> Message] /\ at' \in [Caller -> Place]
    BY <1>0, <1>1, <2>1 DEF Fetch, CallOK, Set, Place
  <2>3. ASSUME NEW d \in Caller, ~Working(d)' PROVE todo'[d] = {} /\ done'[d] = {}
    BY <1>0, <1>1, <2>3 DEF Fetch, CallOK, Set, Working
  <2> QED BY <1>0, <1>1, <2>2, <2>3 DEF Types, Fetch, DataOK, CallOK, CountOK, countVars
<1>2. CASE ReadPage
  <2>1. [known |-> row.status # "none", upd |-> row.upd, gone |-> row.gone] \in Sight
    BY <1>0 DEF DataOK, Row, Sight
  <2>2. seen' \in [Caller -> Sight] /\ at' \in [Caller -> Place]
    BY <1>0, <1>2, <2>1 DEF ReadPage, CallOK, Set, Place
  <2>3. ASSUME NEW d \in Caller, ~Working(d)' PROVE todo'[d] = {} /\ done'[d] = {}
    BY <1>0, <1>2, <2>3 DEF ReadPage, CallOK, Set, Working
  <2> QED BY <1>0, <1>2, <2>2, <2>3 DEF Types, ReadPage, DataOK, CallOK, CountOK, countVars
<1>3. CASE PollClaims
  <2>1. NoSight \in Sight
    BY RelayAssumption DEF NoSight, Sight, Version
  <2>2. seen' \in [Caller -> Sight] /\ at' \in [Caller -> Place]
    BY <1>0, <1>3, <2>1 DEF PollClaims, CallOK, Set, Place
  <2>3. ASSUME NEW d \in Caller, ~Working(d)' PROVE todo'[d] = {} /\ done'[d] = {}
    BY <1>0, <1>3, <2>3 DEF PollClaims, CallOK, Set, Working
  <2> QED BY <1>0, <1>3, <2>2, <2>3 DEF Types, PollClaims, DataOK, CallOK, CountOK, countVars
<1>4. CASE PollFiltered \/ PollSkipped \/ PollRecalled \/ PollEdited
  <2>1. CallOK'
    BY <1>0, <1>4, ReturnType DEF PollFiltered, PollSkipped, PollRecalled, PollEdited
  <2>2. row' \in Row /\ rested' \in BOOLEAN
    <3>1. CASE PollFiltered
      BY <1>0, <3>1, FilteredRow DEF PollFiltered, DataOK
    <3>2. CASE PollSkipped
      <4>1. row' \in Row
        BY <1>0, <3>2, SkippedRow DEF DataOK
      <4> QED BY <1>0, <3>2, <4>1 DEF PollSkipped, DataOK
    <3>3. CASE PollRecalled \/ PollEdited
      BY <1>0, <3>3, UpdatedRow DEF PollRecalled, PollEdited, DataOK
    <3> QED BY <1>4, <3>1, <3>2, <3>3
  <2> QED BY <1>0, <1>4, <2>1, <2>2
          DEF Types, PollFiltered, PollSkipped, PollRecalled, PollEdited,
              DataOK, CountOK, countVars
<1> QED BY <1>1, <1>2, <1>3, <1>4 DEF Poll

LEMMA TypeStep == Types /\ [Next]_vars => Types'
<1> SUFFICES ASSUME Types, [Next]_vars PROVE Types'
  OBVIOUS
<1>1. CASE UNCHANGED vars
  BY <1>1 DEF Types, DataOK, CallOK, CountOK, Working, vars
<1>2. CASE Next
  <2>1. \A c \in Handler : c \in Caller
    BY DEF Caller
  <2> QED BY <1>2, <2>1, ClockType, PollType, InboundType, RetryType, CallType, FailsType DEF Next
<1> QED BY <1>1, <1>2

\* The ledger's row, the chats and the callers keep their types; a caller holds
\* targets only while it forwards.
THEOREM RelayTypeCorrect == Spec => []TypeOK
<1>1. Types => TypeOK
  BY DEF Types, TypeOK, DataOK, CallOK, CountOK
<1> QED BY <1>1, InitType, TypeStep, PTL DEF Spec

-----------------------------------------------------------------------------
(* A sent row has reached every target                                     *)

Recorded ==
    /\ \A t \in row.done : posted[t] > 0
    /\ \A c \in Caller : \A t \in done[c] : posted[t] > 0
Accounted ==
    \A c \in Caller :
        at[c] = "sending" /\ failure[c] = "none" => done[c] \cup todo[c] = Target
SentIsFull == row.status = "sent" => row.done = Target
Reach == Recorded /\ Accounted /\ SentIsFull

\* A caller that returns accounts for nothing, and keeps the others as they were.
LEMMA ReturnReach ==
    ASSUME CallOK, NEW c \in Caller, Return(c)
    PROVE  /\ done'[c] = {} /\ at'[c] = "idle"
           /\ \A d \in Caller \ {c} :
                /\ at'[d] = at[d] /\ done'[d] = done[d]
                /\ todo'[d] = todo[d] /\ failure'[d] = failure[d]
BY DEF CallOK, Return, Set

\* Nothing is taken back from a chat.
LEMMA PostedGrows == ASSUME Types, [Next]_vars PROVE \A t \in Target : posted'[t] >= posted[t]
<1>0. posted \in [Target -> Nat]
  BY DEF Types, DataOK
<1>1. CASE UNCHANGED posted
  BY <1>0, <1>1
<1>2. ASSUME NEW c \in Caller, NEW t \in Target, Sent(c, t) \/ AnswerLost(c, t)
      PROVE  \A u \in Target : posted'[u] >= posted[u]
  BY <1>0, <1>2 DEF Sent, AnswerLost, Set
<1>3. CASE UNCHANGED vars
  BY <1>1, <1>3 DEF vars
<1>4. CASE Edit \/ Recall \/ Rest \/ Poll
  BY <1>1, <1>4 DEF Edit, Recall, Rest, Poll, Fetch, ReadPage, PollFiltered, PollSkipped,
                    PollRecalled, PollEdited, PollClaims
<1>5. ASSUME NEW c \in Caller, Inbound(c) \/ RetryRead(c)
      PROVE  UNCHANGED posted
  BY <1>5 DEF Inbound, InboundFiltered, InboundRead, RetryRead
<1>6. ASSUME NEW c \in Caller, Step(c) \/ Fails(c)
      PROVE  \/ UNCHANGED posted
             \/ \E t \in Target : Sent(c, t) \/ AnswerLost(c, t)
  BY <1>6 DEF Step, Fails, Reopen, ReopenRefused, Claim, ClaimRefused, Payload, Settle,
              Refused, PayloadRaises, SettleRaises, Abandon
<1> QED BY <1>1, <1>2, <1>3, <1>4, <1>5, <1>6 DEF Next, Caller

\* The steps in which no caller begins, ends or goes on forwarding.
Aside(c) ==
    \/ Edit \/ Recall \/ Rest \/ Inbound(c) \/ RetryRead(c) \/ Reopen(c)
    \/ Fetch \/ ReadPage \/ PollClaims

\* The steps in which a caller returns without settling what it forwarded.
Gives(c) ==
    \/ ReopenRefused(c) \/ ClaimRefused(c) \/ PayloadRaises(c) \/ SettleRaises(c) \/ Abandon(c)
    \/ c = Tick /\ (PollFiltered \/ PollSkipped \/ PollRecalled \/ PollEdited)

LEMMA NextParts ==
    ASSUME Next
    PROVE  \E c \in Caller :
            \/ Aside(c) \/ Gives(c) \/ Claim(c) \/ Payload(c) \/ Settle(c)
            \/ \E t \in Target : Sent(c, t) \/ Refused(c, t) \/ AnswerLost(c, t)
<1>1. Tick \in Caller /\ \A c \in Handler : c \in Caller
  BY DEF Caller
<1>2. CASE Edit \/ Recall \/ Rest \/ Poll
  BY <1>1, <1>2 DEF Poll, Aside, Gives
<1>3. ASSUME NEW c \in Handler, Inbound(c)
      PROVE  Aside(c)
  BY <1>3 DEF Aside
<1>4. ASSUME NEW c \in Caller, RetryRead(c) \/ Step(c) \/ Fails(c)
      PROVE  \/ Aside(c) \/ Gives(c) \/ Claim(c) \/ Payload(c) \/ Settle(c)
             \/ \E t \in Target : Sent(c, t) \/ Refused(c, t) \/ AnswerLost(c, t)
  BY <1>4 DEF Step, Fails, Aside, Gives
<1> QED BY <1>1, <1>2, <1>3, <1>4 DEF Next

\* What they leave of the callers.
LEMMA AsideCalls ==
    ASSUME Types, NEW c \in Caller, Aside(c)
    PROVE  /\ UNCHANGED <<done, todo, failure>>
           /\ \A d \in Caller : Working(d)' <=> Working(d)
           /\ \A d \in Caller : at'[d] = "sending" => at[d] = "sending"
<1>1. CASE Edit \/ Recall \/ Rest \/ InboundFiltered(c)
  BY <1>1 DEF Edit, Recall, Rest, InboundFiltered, callVars, Working
<1>2. ASSUME NEW v \in 0..source.ver, NEW how \in Flag, NEW official \in BOOLEAN,
             InboundRead(c, v, how, official)
      PROVE  /\ UNCHANGED <<done, todo, failure>>
             /\ \A d \in Caller : Working(d)' <=> Working(d)
             /\ \A d \in Caller : at'[d] = "sending" => at[d] = "sending"
  BY <1>2 DEF Types, CallOK, InboundRead, Set, Working
<1>3. CASE RetryRead(c) \/ Reopen(c) \/ Fetch \/ ReadPage \/ PollClaims
  BY <1>3 DEF Types, CallOK, RetryRead, Reopen, Fetch, ReadPage, PollClaims, Set, Working
<1> QED BY <1>1, <1>2, <1>3 DEF Aside, Inbound

\* What they leave of the row.
LEMMA AsideRow ==
    ASSUME Types, NEW c \in Caller, Aside(c)
    PROVE  \/ row' = row
           \/ row'.status = "filtered_system" /\ row'.done = row.done
           \/ Reopen(c) /\ row'.status = "failed" /\ row'.done = {}
<1>0. row \in Row /\ msg[c] \in Message
  BY DEF Types, DataOK, CallOK
<1>1. CASE InboundFiltered(c)
  <2>1. PICK v \in 0..source.ver \cap Blocked, official \in BOOLEAN : Filtered(Carried(v, official))
    BY <1>1 DEF InboundFiltered
  <2> QED BY <1>0, <2>1, FilteredRow, CarriedMessage DEF Types, DataOK
<1>2. CASE Reopen(c)
  BY <1>0, <1>2, ReopenedRow
<1> QED BY <1>1, <1>2 DEF Aside, Inbound, Edit, Recall, Rest, InboundRead, RetryRead, Fetch,
                          ReadPage, PollClaims

LEMMA GivesCalls ==
    ASSUME Types, NEW c \in Caller, Gives(c)
    PROVE  /\ done'[c] = {} /\ at'[c] = "idle"
           /\ \A d \in Caller \ {c} :
                /\ at'[d] = at[d] /\ done'[d] = done[d]
                /\ todo'[d] = todo[d] /\ failure'[d] = failure[d]
<1>1. Return(c)
  BY DEF Gives, ReopenRefused, ClaimRefused, PayloadRaises, SettleRaises, Abandon,
         PollFiltered, PollSkipped, PollRecalled, PollEdited
<1> QED BY <1>1, ReturnReach DEF Types

LEMMA GivesRow ==
    ASSUME Types, NEW c \in Caller, Gives(c)
    PROVE  \/ row' = row
           \/ row'.status \in {row.status, "filtered_system", "skipped_bootstrap"} /\ row'.done = row.done
           \/ /\ PayloadRaises(c) \/ SettleRaises(c)
              /\ row'.status \in {"failed", "unsupported"} /\ row'.done = {}
<1>0. row \in Row /\ Tick \in Caller /\ msg[Tick] \in Message
  BY DEF Types, DataOK, CallOK, Caller
<1>1. CASE PayloadRaises(c) \/ SettleRaises(c)
  <2>1. PICK s \in {"failed", "unsupported"} : Marked(s, {})
    BY <1>1 DEF PayloadRaises, SettleRaises
  <2>2. s \in Status
    BY DEF Status, Open
  <2> QED BY <1>0, <1>1, <2>1, <2>2, MarkedRow
<1>2. CASE PollFiltered
  BY <1>0, <1>2, FilteredRow DEF PollFiltered
<1>3. CASE PollSkipped
  BY <1>0, <1>3, SkippedRow
<1>4. CASE PollRecalled \/ PollEdited
  BY <1>0, <1>4, UpdatedRow DEF PollRecalled, PollEdited
<1> QED BY <1>1, <1>2, <1>3, <1>4 DEF Gives, ReopenRefused, ClaimRefused, Abandon

LEMMA ReachStep == Types /\ Reach /\ [Next]_vars => Reach'
<1> SUFFICES ASSUME Types, Reach, [Next]_vars PROVE Reach'
  OBVIOUS
<1>0. /\ row \in Row /\ row.done \in SUBSET Target /\ posted \in [Target -> Nat]
      /\ done \in [Caller -> SUBSET Target] /\ todo \in [Caller -> SUBSET Target]
  BY DEF Types, DataOK, CallOK, Row
<1>1. \A t \in Target : posted[t] > 0 => posted'[t] > 0
  <2>1. Types'
    BY TypeStep
  <2> QED BY <1>0, <2>1, PostedGrows DEF Types, DataOK
<1>2. CASE UNCHANGED vars
  BY <1>2 DEF Reach, Recorded, Accounted, SentIsFull, vars
<1>3. CASE Next
  <2>0. PICK c \in Caller :
            \/ Aside(c) \/ Gives(c) \/ Claim(c) \/ Payload(c) \/ Settle(c)
            \/ \E t \in Target : Sent(c, t) \/ Refused(c, t) \/ AnswerLost(c, t)
    BY <1>3, NextParts
  <2>1. CASE Aside(c)
    <3>1. Recorded' /\ SentIsFull'
      BY <1>0, <1>1, <2>1, AsideCalls, AsideRow DEF Reach, Recorded, SentIsFull
    <3>2. Accounted'
      BY <2>1, AsideCalls DEF Reach, Accounted
    <3> QED BY <3>1, <3>2 DEF Reach
  <2>2. CASE Gives(c)
    <3>1. /\ done'[c] = {} /\ at'[c] = "idle"
          /\ \A d \in Caller \ {c} :
                /\ at'[d] = at[d] /\ done'[d] = done[d]
                /\ todo'[d] = todo[d] /\ failure'[d] = failure[d]
      BY <2>2, GivesCalls
    <3>2. Accounted'
      BY <3>1 DEF Reach, Accounted
    <3>3. \A d \in Caller : \A t \in done'[d] : posted'[t] > 0
      BY <1>0, <1>1, <3>1 DEF Reach, Recorded
    <3>4. /\ row'.done \in {row.done, {}}
          /\ row'.status = "sent" => row.status = "sent" /\ row'.done = row.done
      BY <2>2, GivesRow
    <3> QED BY <1>0, <1>1, <3>2, <3>3, <3>4 DEF Reach, Recorded, SentIsFull
  <2>3. CASE Claim(c)
    <3>1. row'.status = "processing" /\ row'.done = row.done
      BY <1>0, <2>3, ClaimedRow DEF Types, CallOK
    <3>2. /\ done' = [done EXCEPT ![c] = row.done] /\ at' = [at EXCEPT ![c] = "payload"]
          /\ UNCHANGED <<posted, todo, failure>>
      BY <2>3 DEF Claim, Set
    <3>3. \A d \in Caller : \A t \in done'[d] : posted'[t] > 0
      BY <1>0, <3>2 DEF Reach, Recorded
    <3>4. Accounted'
      BY <3>2 DEF Reach, Accounted, Types, CallOK
    <3> QED BY <3>1, <3>2, <3>3, <3>4 DEF Reach, Recorded, SentIsFull
  <2>4. CASE Payload(c)
    <3>1. /\ todo' = [todo EXCEPT ![c] = Target \ done[c]] /\ at' = [at EXCEPT ![c] = "sending"]
          /\ UNCHANGED <<row, posted, done, failure>>
      BY <2>4 DEF Payload, Set, PendingTargets
    <3>2. Accounted'
      BY <1>0, <3>1 DEF Reach, Accounted, Types, CallOK
    <3> QED BY <3>1, <3>2 DEF Reach, Recorded, SentIsFull
  <2>5. CASE Settle(c)
    <3>1. /\ Return(c) /\ Marked(Outcome(c), done[c]) /\ posted' = posted
          /\ at[c] = "sending" /\ todo[c] = {}
      BY <2>5 DEF Settle
    <3>2. Outcome(c) \in Status /\ (Outcome(c) = "sent" => failure[c] = "none")
      BY DEF Outcome, Types, CallOK, Status, Closed, Open
    <3>3. row'.status = Outcome(c) /\ row'.done = done[c]
      BY <1>0, <3>1, <3>2, MarkedRow
    <3>4. SentIsFull'
      BY <1>0, <3>1, <3>2, <3>3 DEF Reach, Accounted, SentIsFull
    <3>5. /\ done'[c] = {} /\ at'[c] = "idle"
          /\ \A d \in Caller \ {c} :
                /\ at'[d] = at[d] /\ done'[d] = done[d]
                /\ todo'[d] = todo[d] /\ failure'[d] = failure[d]
      BY <3>1, ReturnReach DEF Types
    <3>6. Accounted'
      BY <3>5 DEF Reach, Accounted
    <3>7. Recorded'
      BY <3>1, <3>3, <3>5 DEF Reach, Recorded
    <3> QED BY <3>4, <3>6, <3>7 DEF Reach
  <2>6. ASSUME NEW t \in Target, Sent(c, t) \/ Refused(c, t) \/ AnswerLost(c, t)
        PROVE  Reach'
    <3>1. row' = row /\ at' = at /\ todo' = [todo EXCEPT ![c] = todo[c] \ {t}] /\ t \in todo[c]
      BY <2>6 DEF Sent, Refused, AnswerLost, Answered, Set
    <3>2. CASE Sent(c, t)
      <4>1. /\ done' = [done EXCEPT ![c] = done[c] \cup {t}] /\ failure' = failure
            /\ posted'[t] > 0
        BY <1>0, <3>2 DEF Sent, Set
      <4>2. \A d \in Caller : \A u \in done'[d] : posted'[u] > 0
        BY <1>0, <1>1, <4>1 DEF Reach, Recorded
      <4>3. Accounted'
        BY <1>0, <3>1, <4>1 DEF Reach, Accounted
      <4> QED BY <1>0, <1>1, <3>1, <4>2, <4>3 DEF Reach, Recorded, SentIsFull
    <3>3. CASE Refused(c, t) \/ AnswerLost(c, t)
      <4>1. done' = done /\ failure'[c] # "none" /\ \A d \in Caller \ {c} : failure'[d] = failure[d]
        BY <3>3 DEF Refused, AnswerLost, Worse, Set, Types, CallOK
      <4>2. Accounted'
        BY <1>0, <3>1, <4>1 DEF Reach, Accounted
      <4> QED BY <1>0, <1>1, <3>1, <4>1, <4>2 DEF Reach, Recorded, SentIsFull
    <3> QED BY <2>6, <3>2, <3>3
  <2> QED BY <2>0, <2>1, <2>2, <2>3, <2>4, <2>5, <2>6
<1> QED BY <1>2, <1>3

LEMMA InitReach == Init => Reach
BY DEF Init, Reach, Recorded, Accounted, SentIsFull, NoRow

\* A row marked sent has reached every target, through any number of claims,
\* partial fan-outs, overrun claims and crashes.
THEOREM SentReachesAll == Spec => []SentReachedAll
<1>1. Types /\ Reach => SentReachedAll
  BY DEF Types, DataOK, Row, Reach, Recorded, SentIsFull, SentReachedAll
<1> QED BY <1>1, InitType, TypeStep, InitReach, ReachStep, PTL DEF Spec

-----------------------------------------------------------------------------
(* Copies are bounded                                                      *)

\* Callers at work that have not reached the target.
Debtors(t) == {c \in Caller : Working(c) /\ t \notin done[c]}

\* The row can be claimed now, or after a wait that is no trouble.
Free ==
    \/ row.status \in {"none", "failed"}
    \/ row.status = "processing" /\ (rested \/ \A c \in Caller : ~Working(c))

Chance(t) == IF Free /\ t \notin row.done THEN 1 ELSE 0

Budgeted(t) == posted[t] + Cardinality(Debtors(t)) + Chance(t) <= 1 + reopened + trouble

\* What a caller still owes it has not recorded.
Fresh == \A c \in Caller : todo[c] \cap done[c] = {}

Budget == Fresh /\ \A t \in Target : Budgeted(t)

LEMMA CallerSets ==
    ASSUME NEW S \in SUBSET Caller
    PROVE  IsFiniteSet(S) /\ Cardinality(S) \in Nat
<1>1. IsFiniteSet(Caller)
  BY RelayAssumption, FS_AddElement DEF Caller
<1> QED BY <1>1, FS_Subset, FS_CardinalityType

\* A set of callers that loses members, loses one it had, or gains one.
LEMMA CallerCounts ==
    ASSUME NEW S \in SUBSET Caller, NEW T \in SUBSET Caller, NEW c \in Caller
    PROVE  /\ T \subseteq S => Cardinality(T) <= Cardinality(S)
           /\ c \in S /\ T \subseteq S \ {c} => Cardinality(T) + 1 <= Cardinality(S)
           /\ T \subseteq S \cup {c} => Cardinality(T) <= Cardinality(S) + 1
<1>1. ASSUME NEW A \in SUBSET Caller, NEW B \in SUBSET A PROVE Cardinality(B) <= Cardinality(A)
  <2>1. IsFiniteSet(A)
    BY CallerSets
  <2> QED BY <2>1, FS_Subset
<1>2. CASE c \in S
  <2>1. Cardinality(S \ {c}) = Cardinality(S) - 1
    BY <1>2, CallerSets, FS_RemoveElement
  <2>2. S \cup {c} = S
    BY <1>2
  <2> QED BY <1>1, <2>1, <2>2, CallerSets
<1>3. CASE c \notin S
  <2>1. Cardinality(S \cup {c}) = Cardinality(S) + 1
    BY <1>3, CallerSets, FS_AddElement
  <2> QED BY <1>1, <1>3, <2>1, CallerSets
<1> QED BY <1>2, <1>3

LEMMA Sums ==
    ASSUME NEW a \in Int, NEW b \in Int, NEW c \in Int, NEW r \in Int, NEW s \in Int,
           NEW a2 \in Int, NEW b2 \in Int, NEW c2 \in Int, NEW r2 \in Int, NEW s2 \in Int,
           NEW p \in Int, NEW d \in Int, NEW k \in Int,
           a + b + c <= 1 + r + s, a2 <= a + p, b2 <= b + d, c2 <= c + k,
           p + d + k <= r2 + s2 - r - s
    PROVE  a2 + b2 + c2 <= 1 + r2 + s2
OBVIOUS

\* A step keeps the budget of a target if what it adds to the copies, the
\* callers that owe one and the chance of a claim is paid for.
LEMMA Balance ==
    ASSUME Types, Types', NEW t \in Target, Budgeted(t),
           NEW p \in Int, NEW d \in Int, NEW k \in Int,
           posted'[t] <= posted[t] + p,
           Cardinality(Debtors(t)') <= Cardinality(Debtors(t)) + d,
           Chance(t)' <= Chance(t) + k,
           p + d + k <= reopened' + trouble' - reopened - trouble
    PROVE  Budgeted(t)'
<1>1. Debtors(t) \in SUBSET Caller /\ Debtors(t)' \in SUBSET Caller
  BY DEF Debtors
<1>2. Cardinality(Debtors(t)) \in Nat /\ Cardinality(Debtors(t)') \in Nat
  BY <1>1, CallerSets
<1>3. Chance(t) \in {0, 1} /\ Chance(t)' \in {0, 1}
  BY DEF Chance
<1>4. /\ posted[t] \in Nat /\ posted'[t] \in Nat
      /\ reopened \in Nat /\ reopened' \in Nat /\ trouble \in Nat /\ trouble' \in Nat
  BY RelayAssumption DEF Types, DataOK, CountOK
<1> DEFINE a == posted[t]
           b == Cardinality(Debtors(t))
           h == Chance(t)
           a2 == posted'[t]
           b2 == Cardinality(Debtors(t)')
           h2 == Chance(t)'
           r == reopened
           r2 == reopened'
           s == trouble
           s2 == trouble'
<1>5. /\ a \in Int /\ b \in Int /\ h \in Int /\ a2 \in Int /\ b2 \in Int /\ h2 \in Int
      /\ r \in Int /\ r2 \in Int /\ s \in Int /\ s2 \in Int
  BY <1>2, <1>3, <1>4
<1>6. /\ a + b + h <= 1 + r + s /\ a2 <= a + p /\ b2 <= b + d /\ h2 <= h + k
      /\ p + d + k <= r2 + s2 - r - s
  BY DEF Budgeted
<1>7. a2 + b2 + h2 <= 1 + r2 + s2
  <2> HIDE DEF a, b, h, a2, b2, h2, r, r2, s, s2
  <2> QED BY <1>5, <1>6, Sums
<1> QED BY <1>7 DEF Budgeted

LEMMA SameDebtors ==
    ASSUME NEW t \in Target, done' = done, \A d \in Caller : Working(d)' <=> Working(d)
    PROVE  Debtors(t)' = Debtors(t)
BY DEF Debtors

\* The chance does not grow while row and callers stay as they are, and there
\* is none once the row is closed.
LEMMA SameChance ==
    ASSUME NEW t \in Target, row'.status = row.status, row'.done = row.done,
           rested' => rested, \A d \in Caller : Working(d) => Working(d)'
    PROVE  Chance(t)' <= Chance(t)
<1>1. Free' => Free
  BY DEF Free
<1> QED BY <1>1 DEF Chance

LEMMA NoChance ==
    ASSUME NEW t \in Target, row'.status \in {"filtered_system", "skipped_bootstrap"} \/ t \in row'.done
    PROVE  Chance(t)' = 0
BY DEF Chance, Free

LEMMA AnyChance ==
    ASSUME NEW t \in Target
    PROVE  Chance(t) \in {0, 1} /\ Chance(t)' \in {0, 1} /\ Chance(t)' <= Chance(t) + 1
<1>1. Chance(t) \in {0, 1} /\ Chance(t)' \in {0, 1}
  BY DEF Chance
<1> QED BY <1>1

LEMMA Amounts ==
    ASSUME Types, NEW t \in Target
    PROVE  /\ posted[t] \in Nat /\ reopened \in Nat /\ trouble \in Nat
           /\ Debtors(t) \in SUBSET Caller /\ Cardinality(Debtors(t)) \in Nat
<1>1. Debtors(t) \in SUBSET Caller
  BY DEF Debtors
<1> QED BY <1>1, CallerSets, RelayAssumption DEF Types, DataOK, CountOK

\* Budgets after a step that leaves callers' debts alone, by what happens to
\* the row.
LEMMA AsideBudget ==
    ASSUME Types, Types', NEW c \in Caller, Aside(c), NEW t \in Target, Budgeted(t)
    PROVE  Budgeted(t)'
<1>0. posted[t] \in Nat /\ reopened \in Nat /\ trouble \in Nat /\ Cardinality(Debtors(t)) \in Nat
  BY Amounts
<1>1. posted' = posted /\ Debtors(t)' = Debtors(t) /\ \A d \in Caller : Working(d)' <=> Working(d)
  <2>1. posted' = posted
    BY DEF Aside, Edit, Recall, Rest, Inbound, InboundFiltered, InboundRead, RetryRead, Reopen,
           Fetch, ReadPage, PollClaims
  <2> QED BY <2>1, AsideCalls, SameDebtors
<1>2. CASE Rest
  <2>1. row' = row /\ reopened' = reopened
    BY <1>2 DEF Rest
  <2>2. CASE row.status = "processing" /\ \E d \in Caller : Working(d)
    <3>1. trouble' = trouble + 1
      BY <1>2, <2>2 DEF Rest, Trouble
    <3> QED BY <1>0, <1>1, <2>1, <3>1, AnyChance, Balance
  <2>3. CASE ~(row.status = "processing" /\ \E d \in Caller : Working(d))
    <3>1. trouble' = trouble
      BY <1>2, <2>3 DEF Rest
    <3>2. Free
      BY <1>2, <2>3 DEF Rest, Free, Open
    <3>3. Chance(t)' <= Chance(t)
      BY <2>1, <3>2 DEF Chance
    <3> QED BY <1>0, <1>1, <2>1, <3>1, <3>3, AnyChance, Balance
  <2> QED BY <2>2, <2>3
<1>3. CASE Reopen(c)
  <2>1. reopened' = reopened + 1 /\ trouble' = trouble
    BY <1>3 DEF Reopen
  <2> QED BY <1>0, <1>1, <2>1, AnyChance, Balance
<1>4. CASE InboundFiltered(c)
  <2>1. row'.status = "filtered_system"
    <3>1. PICK v \in 0..source.ver \cap Blocked, official \in BOOLEAN : Filtered(Carried(v, official))
      BY <1>4 DEF InboundFiltered
    <3> QED BY <3>1, FilteredRow, CarriedMessage DEF Types, DataOK
  <2>2. reopened' = reopened /\ trouble' = trouble
    BY <1>4 DEF InboundFiltered, countVars
  <2>3. Chance(t)' <= Chance(t)
    BY <2>1, NoChance, AnyChance
  <2> QED BY <1>0, <1>1, <2>2, <2>3, AnyChance, Balance
<1>5. CASE UNCHANGED <<row, rested, reopened, trouble>>
  <2>1. Chance(t)' <= Chance(t)
    BY <1>1, <1>5, SameChance
  <2> QED BY <1>0, <1>1, <1>5, <2>1, AnyChance, Balance
<1> QED BY <1>2, <1>3, <1>4, <1>5
        DEF Aside, Edit, Recall, Inbound, InboundRead, RetryRead, Fetch, ReadPage, PollClaims, countVars

\* A caller that returns owes nothing; only one that raises or dies may leave
\* a new chance behind, and that is trouble.
LEMMA GivesBudget ==
    ASSUME Types, Types', NEW c \in Caller, Gives(c), NEW t \in Target, Budgeted(t)
    PROVE  Budgeted(t)'
<1>0. posted[t] \in Nat /\ reopened \in Nat /\ trouble \in Nat /\ Cardinality(Debtors(t)) \in Nat
  BY Amounts
<1>1. posted' = posted /\ reopened' = reopened
  BY DEF Gives, ReopenRefused, ClaimRefused, PayloadRaises, SettleRaises, Abandon,
         PollFiltered, PollSkipped, PollRecalled, PollEdited, countVars
<1>2. Cardinality(Debtors(t)') <= Cardinality(Debtors(t))
  <2>1. \A d \in Caller : Working(d)' => Working(d) /\ done'[d] = done[d]
    BY GivesCalls DEF Working
  <2>2. Debtors(t)' \in SUBSET Caller /\ Debtors(t)' \subseteq Debtors(t)
    BY <2>1 DEF Debtors
  <2> QED BY <2>2, Amounts, CallerCounts
<1>3. CASE PayloadRaises(c) \/ SettleRaises(c) \/ Abandon(c)
  <2>1. trouble' = trouble + 1
    BY <1>3 DEF PayloadRaises, SettleRaises, Abandon, Trouble
  <2> QED BY <1>0, <1>1, <1>2, <2>1, AnyChance, Balance
<1>4. CASE ~(PayloadRaises(c) \/ SettleRaises(c) \/ Abandon(c))
  <2>1. trouble' = trouble
    BY <1>4 DEF Gives, ReopenRefused, ClaimRefused, PollFiltered, PollSkipped, PollRecalled,
                PollEdited, countVars
  <2>2. ~Working(c) /\ (rested' => rested)
    <3>1. row \in Row /\ msg[c] \in Message
      BY DEF Types, DataOK, CallOK
    <3>2. rested' => rested
      BY <1>4, <3>1 DEF Gives, ReopenRefused, ClaimRefused, PollFiltered, Filtered, PollSkipped,
                        PollRecalled, PollEdited, Updated
    <3> QED BY <1>4, <3>2 DEF Gives, ReopenRefused, ClaimRefused, PollFiltered, PollSkipped,
                        PollRecalled, PollEdited, Working
  <2>3. \A d \in Caller : Working(d) => Working(d)'
    BY <2>2, GivesCalls DEF Working
  <2>4. CASE row'.status \in {"filtered_system", "skipped_bootstrap"}
    <3>1. Chance(t)' <= Chance(t)
      BY <2>4, NoChance, AnyChance
    <3> QED BY <1>0, <1>1, <1>2, <2>1, <3>1, AnyChance, Balance
  <2>5. CASE row'.status = row.status /\ row'.done = row.done
    <3>1. Chance(t)' <= Chance(t)
      BY <2>2, <2>3, <2>5, SameChance
    <3> QED BY <1>0, <1>1, <1>2, <2>1, <3>1, AnyChance, Balance
  <2> QED BY <1>4, <2>4, <2>5, GivesRow
<1> QED BY <1>3, <1>4

\* A claim turns the chance into a debt of the caller.
LEMMA ClaimBudget ==
    ASSUME Types, Types', NEW c \in Caller, Claim(c), NEW t \in Target, Budgeted(t)
    PROVE  Budgeted(t)'
<1>0. posted[t] \in Nat /\ reopened \in Nat /\ trouble \in Nat /\ Cardinality(Debtors(t)) \in Nat
  BY Amounts
<1>1. posted' = posted /\ reopened' = reopened /\ trouble' = trouble
  BY DEF Claim, countVars
<1>2. done' = [done EXCEPT ![c] = row.done] /\ at' = [at EXCEPT ![c] = "payload"] /\ ~rested'
  BY DEF Claim, Set
<1>3. at \in [Caller -> Place] /\ done \in [Caller -> SUBSET Target]
  BY DEF Types, CallOK
<1>4. row'.status = "processing" /\ row'.done = row.done
  BY ClaimedRow DEF Types, DataOK, CallOK
<1>5. Chance(t)' = 0
  <2>1. Working(c)'
    BY <1>2, <1>3 DEF Working
  <2> QED BY <1>2, <1>4, <2>1 DEF Chance, Free
<1>6. Debtors(t)' \in SUBSET Caller /\ Debtors(t)' \subseteq Debtors(t) \cup {c}
  BY <1>2, <1>3 DEF Debtors, Working
<1>7. CASE t \in row.done
  <2>1. Debtors(t)' \subseteq Debtors(t)
    BY <1>2, <1>3, <1>7 DEF Debtors, Working
  <2>2. Cardinality(Debtors(t)') <= Cardinality(Debtors(t))
    BY <1>6, <2>1, Amounts, CallerCounts
  <2>3. Chance(t)' <= Chance(t)
    BY <1>5, AnyChance
  <2> QED BY <1>0, <1>1, <2>2, <2>3, AnyChance, Balance
<1>8. CASE t \notin row.done
  <2>1. Chance(t) = 1
    BY <1>8 DEF Claim, Claimable, Open, Chance, Free
  <2>2. Cardinality(Debtors(t)') <= Cardinality(Debtors(t)) + 1
    BY <1>6, Amounts, CallerCounts
  <2>3. Chance(t)' <= Chance(t) + (-1)
    BY <1>5, <2>1
  <2>4. 0 + 1 + (-1) <= reopened' + trouble' - reopened - trouble
    BY <1>0, <1>1
  <2> QED BY <1>0, <1>1, <2>2, <2>3, <2>4, Balance
<1> QED BY <1>7, <1>8

\* A settlement turns what the caller still owes into a chance.
LEMMA SettleBudget ==
    ASSUME Types, Types', NEW c \in Caller, Settle(c), NEW t \in Target, Budgeted(t)
    PROVE  Budgeted(t)'
<1>0. posted[t] \in Nat /\ reopened \in Nat /\ trouble \in Nat /\ Cardinality(Debtors(t)) \in Nat
  BY Amounts
<1>1. posted' = posted /\ reopened' = reopened /\ trouble' = trouble
  BY DEF Settle
<1>2. \A d \in Caller : Working(d)' => d # c /\ Working(d) /\ done'[d] = done[d]
  BY ReturnReach DEF Settle, Types, Working
<1>3. Debtors(t)' \in SUBSET Caller /\ Debtors(t)' \subseteq Debtors(t) \ {c}
  BY <1>2 DEF Debtors
<1>4. row'.done = done[c]
  <2>1. Outcome(c) \in Status /\ done[c] \in SUBSET Target
    BY DEF Outcome, Types, CallOK, Status, Closed, Open
  <2> QED BY <2>1, MarkedRow DEF Settle, Types, DataOK
<1>5. CASE t \in done[c]
  <2>1. Chance(t)' <= Chance(t)
    BY <1>4, <1>5, NoChance, AnyChance
  <2>2. Cardinality(Debtors(t)') <= Cardinality(Debtors(t))
    BY <1>3, Amounts, CallerCounts
  <2> QED BY <1>0, <1>1, <2>1, <2>2, AnyChance, Balance
<1>6. CASE t \notin done[c]
  <2>1. c \in Debtors(t)
    BY <1>6 DEF Debtors, Settle, Working
  <2>2. Cardinality(Debtors(t)') + 1 <= Cardinality(Debtors(t))
    BY <1>3, <2>1, Amounts, CallerCounts
  <2>3. Cardinality(Debtors(t)') \in Nat
    BY <1>3, CallerSets
  <2>4. Cardinality(Debtors(t)') <= Cardinality(Debtors(t)) + (-1)
    BY <1>0, <2>2, <2>3
  <2>5. 0 + (-1) + 1 <= reopened' + trouble' - reopened - trouble
    BY <1>0, <1>1
  <2> QED BY <1>0, <1>1, <2>4, <2>5, AnyChance, Balance
<1> QED BY <1>5, <1>6

\* Sends: one that is answered pays the caller's debt, one whose answer is lost
\* is trouble.
LEMMA SendBudget ==
    ASSUME Types, Types', Fresh, NEW c \in Caller, NEW u \in Target,
           Payload(c) \/ Sent(c, u) \/ Refused(c, u) \/ AnswerLost(c, u),
           NEW t \in Target, Budgeted(t)
    PROVE  Budgeted(t)'
<1>0. posted[t] \in Nat /\ reopened \in Nat /\ trouble \in Nat /\ Cardinality(Debtors(t)) \in Nat
  BY Amounts
<1>1. /\ row' = row /\ rested' = rested /\ reopened' = reopened
      /\ \A d \in Caller : Working(d)' <=> Working(d)
  BY DEF Payload, Sent, Refused, AnswerLost, countVars, Working, Set, Types, CallOK
<1>2. Chance(t)' <= Chance(t)
  BY <1>1, SameChance
<1>3. CASE Payload(c) \/ Refused(c, u) \/ AnswerLost(c, u)
  <2>1. Debtors(t)' = Debtors(t)
    BY <1>1, <1>3, SameDebtors DEF Payload, Refused, AnswerLost
  <2>2. CASE Payload(c) \/ Refused(c, u)
    <3>1. posted' = posted /\ trouble' = trouble
      BY <2>2 DEF Payload, Refused, countVars
    <3> QED BY <1>0, <1>1, <1>2, <2>1, <3>1, AnyChance, Balance
  <2>3. CASE AnswerLost(c, u)
    <3>1. posted'[t] <= posted[t] + 1 /\ trouble' = trouble + 1
      BY <1>0, <2>3 DEF AnswerLost, Trouble, Set, Types, DataOK
    <3> QED BY <1>0, <1>1, <1>2, <2>1, <3>1, AnyChance, Balance
  <2> QED BY <1>3, <2>2, <2>3
<1>4. CASE Sent(c, u)
  <2>1. PICK n \in {0, 1} : posted' = [posted EXCEPT ![u] = posted[u] + n]
    BY <1>4 DEF Sent, Set
  <2>2. trouble' = trouble /\ done' = [done EXCEPT ![c] = done[c] \cup {u}]
    BY <1>4 DEF Sent, countVars, Set
  <2>3. Debtors(t)' \in SUBSET Caller /\ Debtors(t)' \subseteq Debtors(t)
    BY <1>1, <2>2 DEF Debtors, Types, CallOK
  <2>4. CASE t = u
    <3>1. c \in Debtors(t) /\ Debtors(t)' \subseteq Debtors(t) \ {c}
      <4>1. Working(c) /\ t \notin done[c]
        BY <1>4, <2>4 DEF Sent, Working, Fresh
      <4>2. done \in [Caller -> SUBSET Target]
        BY DEF Types, CallOK
      <4>3. t \in done'[c]
        BY <2>2, <2>4, <4>2
      <4> QED BY <2>3, <4>1, <4>3 DEF Debtors
    <3>2. Cardinality(Debtors(t)') + 1 <= Cardinality(Debtors(t))
      BY <2>3, <3>1, Amounts, CallerCounts
    <3>3. Cardinality(Debtors(t)') \in Nat
      BY <2>3, CallerSets
    <3>4. Cardinality(Debtors(t)') <= Cardinality(Debtors(t)) + (-1)
      BY <1>0, <3>2, <3>3
    <3>5. posted'[t] <= posted[t] + 1
      BY <1>0, <2>1, <2>4 DEF Types, DataOK
    <3>6. 1 + (-1) + 0 <= reopened' + trouble' - reopened - trouble
      BY <1>0, <1>1, <2>2
    <3>7. Chance(t)' <= Chance(t) + 0
      BY <1>2, AnyChance
    <3> QED BY <3>4, <3>5, <3>6, <3>7, Balance
  <2>5. CASE t # u
    <3>1. posted'[t] = posted[t]
      BY <2>1, <2>5 DEF Types, DataOK
    <3>2. Cardinality(Debtors(t)') <= Cardinality(Debtors(t))
      BY <2>3, Amounts, CallerCounts
    <3> QED BY <1>0, <1>1, <1>2, <2>2, <3>1, <3>2, AnyChance, Balance
  <2> QED BY <2>4, <2>5
<1> QED BY <1>3, <1>4

LEMMA FreshStep == ASSUME Types, Fresh, [Next]_vars PROVE Fresh'
<1>1. CASE UNCHANGED vars
  BY <1>1 DEF Fresh, vars
<1>2. CASE Next
  <2>1. PICK c \in Caller :
            \/ Aside(c) \/ Gives(c) \/ Claim(c) \/ Payload(c) \/ Settle(c)
            \/ \E t \in Target : Sent(c, t) \/ Refused(c, t) \/ AnswerLost(c, t)
    BY <1>2, NextParts
  <2>2. CASE Aside(c)
    BY <2>2, AsideCalls DEF Fresh
  <2>3. CASE Gives(c)
    BY <2>3, GivesCalls DEF Fresh
  <2>4. CASE Claim(c)
    BY <2>4 DEF Claim, Set, Fresh, Types, CallOK, Working
  <2>5. CASE Payload(c)
    BY <2>5 DEF Payload, PendingTargets, Set, Fresh, Types, CallOK
  <2>6. CASE Settle(c)
    BY <2>6, ReturnReach DEF Settle, Fresh, Types
  <2>7. ASSUME NEW t \in Target, Sent(c, t) \/ Refused(c, t) \/ AnswerLost(c, t)
        PROVE  Fresh'
    BY <2>7 DEF Sent, Refused, AnswerLost, Answered, Set, Fresh, Types, CallOK
  <2> QED BY <2>1, <2>2, <2>3, <2>4, <2>5, <2>6, <2>7
<1> QED BY <1>1, <1>2

LEMMA BudgetStep == Types /\ Budget /\ [Next]_vars => Budget'
<1> SUFFICES ASSUME Types, Budget, [Next]_vars PROVE Budget'
  OBVIOUS
<1>0. Types' /\ Fresh' /\ Fresh
  BY TypeStep, FreshStep DEF Budget
<1>1. ASSUME NEW t \in Target PROVE Budgeted(t)'
  <2>0. Budgeted(t)
    BY DEF Budget
  <2>1. CASE UNCHANGED vars
    BY <2>0, <2>1 DEF Budgeted, Debtors, Chance, Free, Working, vars
  <2>2. CASE Next
    <3>1. PICK c \in Caller :
              \/ Aside(c) \/ Gives(c) \/ Claim(c) \/ Payload(c) \/ Settle(c)
              \/ \E u \in Target : Sent(c, u) \/ Refused(c, u) \/ AnswerLost(c, u)
      BY <2>2, NextParts
    <3> QED BY <1>0, <2>0, <3>1, AsideBudget, GivesBudget, ClaimBudget, SettleBudget, SendBudget
  <2> QED BY <2>1, <2>2
<1> QED BY <1>0, <1>1 DEF Budget

LEMMA InitBudget == Init => Budget
<1> SUFFICES ASSUME Init PROVE Budget
  OBVIOUS
<1>1. Fresh /\ \A c \in Caller : ~Working(c)
  BY DEF Init, Fresh, Working
<1>2. ASSUME NEW t \in Target PROVE Budgeted(t)
  <2>1. Debtors(t) = {}
    BY <1>1 DEF Debtors
  <2>2. Cardinality(Debtors(t)) = 0
    BY <2>1, FS_EmptySet
  <2>3. Chance(t) \in {0, 1} /\ posted[t] = 0 /\ reopened = 0 /\ trouble = 0
    BY DEF Chance, Init
  <2>4. 0 + 0 + Chance(t) <= 1 + 0 + 0
    BY <2>3
  <2> QED BY <2>2, <2>3, <2>4 DEF Budgeted
<1> QED BY <1>1, <1>2 DEF Budget

\* A target gets at most one copy more than the row was reopened and than
\* crashes, lost answers, raises and overrun claims befell it, however many
\* callers hold the message at the same time.
THEOREM CopiesAreBounded == Spec => []CopiesExplained
<1>1. Types /\ Budget => CopiesExplained
  <2> SUFFICES ASSUME Types, Budget, NEW t \in Target PROVE posted[t] <= 1 + reopened + trouble
    BY DEF CopiesExplained
  <2>1. /\ posted[t] \in Nat /\ Cardinality(Debtors(t)) \in Nat /\ Chance(t) \in {0, 1}
        /\ reopened \in Nat /\ trouble \in Nat
    BY Amounts, AnyChance
  <2>2. posted[t] + Cardinality(Debtors(t)) + Chance(t) <= 1 + reopened + trouble
    BY DEF Budget, Budgeted
  <2> QED BY <2>1, <2>2
<1> QED BY <1>1, InitType, TypeStep, InitBudget, BudgetStep, PTL DEF Spec
=============================================================================
