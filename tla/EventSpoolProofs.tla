-------------------------- MODULE EventSpoolProofs --------------------------
(***************************************************************************)
(* Proofs about EventSpool, for any set of events and handlers and any     *)
(* value of the bounds.                                                    *)
(***************************************************************************)
EXTENDS EventSpool, FiniteSetTheorems, TLAPS

\* Whoever works does so on a row that exists, and so does a replay round.
WorkPresent ==
    /\ \A w \in Worker : pc[w] # "idle" => job[w] \in Event /\ Present(job[w])
    /\ \A r \in batch : Present(r.event)

\* A spool call that raises changes no table and nothing outside the process.
LEMMA RaisedCallsFrame == CallRaises => UNCHANGED <<dbVars, worldVars, commandLane>>
BY DEF CallRaises, ClaimRaises, SettleRaises, IgnoreRaises, dbVars, worldVars

-----------------------------------------------------------------------------
(* Row numbers                                                               *)

\* MAX(sequence) + 1 is the number after the last row's.
LEMMA NextSeqIsNext ==
    ASSUME TypeOK, NEW x \in Event, NEW n \in Nat,
           \A e \in Event : seq[e] \in 0..n /\ (seq[e] = 0 <=> ~Present(e)),
           \A k \in 1..n : \E e \in Event : seq[e] = k
    PROVE  NextSeq = n + 1
<1> DEFINE S == {seq[e] : e \in Event}
           P(m) == \A e \in Event : seq[e] <= m
<1>1. n \in S
  <2>1. CASE n = 0
    BY <2>1
  <2>2. CASE n # 0
    BY <2>2
  <2> QED BY <2>1, <2>2
<1>2. P(n)
  OBVIOUS
<1>3. \A m \in S : P(m) => m = n
  BY <1>1, <1>2 DEF TypeOK
<1>4. (CHOOSE m \in S : P(m)) = n
  BY <1>1, <1>2, <1>3, Zenon
<1> QED BY <1>4 DEF NextSeq

\* A new row extends the run of numbers by one; nothing else changes it.
LEMMA SeqDenseStep ==
    ASSUME TypeOK, WorkPresent, SeqDense, [Next]_vars
    PROVE  SeqDense'
<1>1. PICK n \in {0} \cup RowNumbers :
        /\ \A e \in Event : seq[e] \in 0..n /\ (seq[e] = 0 <=> ~Present(e))
        /\ \A k \in 1..n : \E e \in Event : seq[e] = k
  BY DEF SeqDense
<1>2. n \in Nat
  BY <1>1 DEF RowNumbers, TypeOK
<1>once. \A e, f \in Event : Present(e) /\ seq[e] = seq[f] => e = f
  BY DEF SeqDense
<1> DEFINE Kept == /\ seq' = seq
                   /\ \A e \in Event : Present(e)' <=> Present(e)
<1>3. ASSUME Kept PROVE SeqDense'
  BY <1>1, <1>once, <1>3, Zenon DEF SeqDense, RowNumbers
<1>4. ASSUME NEW e \in Event, NEW v, EnqueueNew(e, v)
      PROVE  SeqDense'
  <2>1. NextSeq = n + 1
    BY <1>1, <1>2, NextSeqIsNext
  <2>2. /\ seq' = [seq EXCEPT ![e] = n + 1]
        /\ \A x \in Event : Present(x)' <=> Present(x) \/ x = e
        /\ ~Present(e)
    BY <1>4, <2>1 DEF EnqueueNew, Present, TypeOK
  <2>3. n + 1 \in RowNumbers'
    BY <2>2 DEF RowNumbers, TypeOK
  <2>4. \A x \in Event : seq'[x] \in 0..(n + 1) /\ (seq'[x] = 0 <=> ~Present(x)')
    BY <1>1, <1>2, <2>2 DEF TypeOK
  <2>5. \A k \in 1..(n + 1) : \E x \in Event : seq'[x] = k
    <3> SUFFICES ASSUME NEW k \in 1..(n + 1) PROVE \E x \in Event : seq'[x] = k
      OBVIOUS
    <3>1. CASE k = n + 1
      BY <2>2, <3>1 DEF TypeOK
    <3>2. CASE k \in 1..n
      <4>1. PICK x \in Event : seq[x] = k
        BY <1>1, <3>2
      <4>2. x # e
        BY <1>1, <2>2, <3>2, <4>1
      <4> QED BY <2>2, <4>1, <4>2 DEF TypeOK
    <3> QED BY <1>2, <3>1, <3>2
  <2>6. \A x, y \in Event : Present(x)' /\ seq'[x] = seq'[y] => x = y
    BY <1>1, <1>2, <1>once, <2>2 DEF TypeOK
  <2> QED BY <2>3, <2>4, <2>5, <2>6 DEF SeqDense
<1>5. ASSUME NEW w \in Handler, NEW e \in Event, NEW mode \in Mode, Receive(w, e, mode)
      PROVE  SeqDense'
  <2>1. CASE EnqueueNew(e, content[e])
    BY <1>4, <2>1
  <2>2. CASE EnqueueRefresh(e, content[e], mode) \/ EnqueueReopen(e, content[e], mode)
             \/ EnqueueKept(e, mode)
    BY <1>3, <2>2 DEF EnqueueRefresh, EnqueueReopen, EnqueueKept, Present, TypeOK
  <2> QED BY <1>5, <2>1, <2>2 DEF Receive, Enqueue
<1>6. ASSUME NEW e \in Event, CloseRow(e), Present(e)
      PROVE  SeqDense'
  BY <1>3, <1>6 DEF CloseRow, SettleAs, Present, TypeOK
<1>7. ASSUME NEW w \in Worker, Work(w)
      PROVE  SeqDense'
  <2>1. pc[w] # "idle" => job[w] \in Event /\ Present(job[w])
    BY DEF WorkPresent
  <2>2. CASE Claim(w)
    BY <1>3, <2>1, <2>2 DEF Claim, GoTo, dbVars, Present, TypeOK
  <2>3. CASE PostAccepted(w) \/ (\E l, r \in BOOLEAN : PostRaised(w, l, r)) \/ KeepRefused(w)
    BY <1>3, <2>3 DEF PostAccepted, PostRaised, KeepRefused, dbVars, Present
  <2>4. CASE MarkDelivered(w) \/ DropRecalled(w)
    BY <1>6, <2>1, <2>4 DEF MarkDelivered, DropRecalled
  <2>5. CASE MarkFailed(w)
    BY <1>3, <2>1, <2>5 DEF MarkFailed, SettleAs, Present, TypeOK
  <2> QED BY <1>7, <2>2, <2>3, <2>4, <2>5 DEF Work
<1>8. CASE ReplayStep
  <2>1. CASE ReplayDue \/ \E r \in batch : ReplayPick(r)
    BY <1>3, <2>1 DEF ReplayDue, ReplayPick, dbVars, Present
  <2>2. ASSUME NEW r \in batch, ReplayIgnore(r) PROVE SeqDense'
    <3>1. r.event \in Event /\ Present(r.event)
      BY DEF TypeOK, WorkPresent
    <3> QED BY <1>3, <1>6, <2>2, <3>1 DEF ReplayIgnore, dbVars, Present
  <2> QED BY <1>8, <2>1, <2>2 DEF ReplayStep
<1>9. CASE Restart \/ \E e \in Event : LapseLease(e) \/ BecomeReady(e) \/ Redecode(e) \/ Recall(e)
  BY <1>3, <1>9 DEF Restart, LapseLease, BecomeReady, Redecode, Recall, dbVars, Present
<1>10. CASE CallRaises \/ UNCHANGED vars
  BY <1>3, <1>10, RaisedCallsFrame DEF vars, dbVars, Present
<1> QED BY <1>5, <1>7, <1>8, <1>9, <1>10 DEF Next

-----------------------------------------------------------------------------
(* Types                                                                     *)

\* MAX(sequence) + 1 is a row number whenever the numbers have no hole.
LEMMA NextSeqNat ==
    ASSUME TypeOK, SeqDense, NEW x \in Event
    PROVE  NextSeq \in Nat
<1>1. PICK n \in {0} \cup RowNumbers :
        /\ \A e \in Event : seq[e] \in 0..n /\ (seq[e] = 0 <=> ~Present(e))
        /\ \A k \in 1..n : \E e \in Event : seq[e] = k
  BY DEF SeqDense
<1>2. n \in Nat
  BY <1>1 DEF RowNumbers, TypeOK
<1> QED BY <1>1, <1>2, NextSeqIsNext

\* What mark_delivered and mark_ignored write to a row keeps its type, and they
\* leave its number, payload and retry time alone.
LEMMA CloseRowType ==
    ASSUME TypeOK, NEW e \in Event, CloseRow(e)
    PROVE  /\ status' \in [Event -> Status]
           /\ UNCHANGED <<seq, body, ready>>
           /\ leased' \subseteq Event
           /\ cursor' \in Nat
           /\ failedCount' \in Nat
BY DEF TypeOK, CloseRow, SettleAs, RowNumbers, Decrement, Status

\* due() returns rows that exist, with a payload that is stored.
LEMMA DueBatchRows ==
    ASSUME TypeOK, NEW r \in DueBatch
    PROVE  r \in [event : Event, body : Version] /\ Present(r.event)
<1>1. PICK e \in OldestDue : r = [event |-> e, body |-> body[e]]
  BY DEF DueBatch
<1>2. e \in Event /\ IsDue(e)
  BY DEF OldestDue
<1> QED BY <1>1, <1>2 DEF TypeOK, IsDue, Present

\* Every spool call and every step of a coroutine keeps the types.
LEMMA TypeStep ==
    ASSUME TypeOK, WorkPresent, SeqDense, [Next]_vars
    PROVE  TypeOK'
<1> USE DEF TypeOK
<1>1. ASSUME NEW w \in Handler, NEW e \in Event, NEW mode \in Mode, Receive(w, e, mode)
      PROVE  TypeOK'
  <2>1. /\ status' \in [Event -> Status]
        /\ seq' \in [Event -> Nat]
        /\ body' \in [Event -> Version]
        /\ ready' \subseteq Event
        /\ leased' \subseteq Event
    BY <1>1, NextSeqNat DEF Receive, Enqueue, EnqueueNew, EnqueueRefresh, EnqueueReopen,
                            EnqueueKept, Status
  <2>2. /\ pc' \in [Worker -> {"idle", "claim"} \cup Holding]
        /\ job' \in [Worker -> Event \cup {NoEvent}]
        /\ sent' \in [Worker -> Version]
        /\ tries' \in [Worker -> Nat]
    BY <1>1 DEF Receive, TakeJob, workerVars, Worker
  <2> QED BY <1>1, <2>1, <2>2 DEF Receive, Enqueue, worldVars
<1>2. ASSUME NEW w \in Worker, Work(w)
      PROVE  TypeOK'
  <2>1. pc[w] # "idle" => job[w] \in Event
    BY DEF WorkPresent
  <2>2. CASE Claim(w)
    BY <2>1, <2>2, BoundAssumption DEF Claim, Release, GoTo, dbVars, worldVars, Decrement, Status,
                                       Holding, Version
  <2>3. CASE PostAccepted(w)
    BY <2>1, <2>3 DEF PostAccepted, GoTo, dbVars, Holding
  <2>4. CASE \E l, r \in BOOLEAN : PostRaised(w, l, r)
    BY <2>1, <2>4 DEF PostRaised, GoTo, dbVars, Holding
  <2>5. CASE MarkDelivered(w) \/ DropRecalled(w)
    BY <2>1, <2>5, CloseRowType, BoundAssumption
       DEF MarkDelivered, DropRecalled, Release, worldVars, Version
  <2>6. CASE MarkFailed(w)
    BY <2>1, <2>6, BoundAssumption DEF MarkFailed, SettleAs, Release, worldVars, Status, Version
  <2>7. CASE KeepRefused(w)
    BY <2>7 DEF KeepRefused, GoTo, dbVars, worldVars, Holding
  <2> QED BY <1>2, <2>2, <2>3, <2>4, <2>5, <2>6, <2>7 DEF Work
<1>3. CASE ReplayDue
  BY <1>3, DueBatchRows DEF ReplayDue, dbVars, workerVars, worldVars
<1>4. ASSUME NEW r \in batch, ReplayPick(r) PROVE TypeOK'
  BY <1>4 DEF ReplayPick, TakeJob, dbVars, worldVars, Worker
<1>5. ASSUME NEW r \in batch, ReplayIgnore(r) PROVE TypeOK'
  BY <1>5, CloseRowType DEF ReplayIgnore, dbVars, workerVars, worldVars
<1>6. CASE Restart
  <2>1. Cardinality({e \in Event : status[e] = "failed"}) \in Nat
    BY EventAssumption, FS_Subset, FS_CardinalityType
  <2> QED BY <1>6, <2>1, BoundAssumption DEF Restart, worldVars, Version
<1>7. ASSUME NEW e \in Event, LapseLease(e) \/ BecomeReady(e) \/ Redecode(e) \/ Recall(e)
      PROVE  TypeOK'
  BY <1>7, BoundAssumption
     DEF LapseLease, BecomeReady, Redecode, Recall, dbVars, workerVars, worldVars, Version
<1>8. CASE UNCHANGED vars
  BY <1>8 DEF vars, dbVars, workerVars, worldVars
<1>9. CASE CallRaises
  <2>1. UNCHANGED <<dbVars, worldVars, commandLane>>
    BY <1>9, RaisedCallsFrame
  <2>2. ASSUME NEW w \in Worker, ClaimRaises(w) \/ SettleRaises(w)
        PROVE  TypeOK'
    <3>1. 1 \in Version
      BY BoundAssumption DEF Version
    <3>2. GoTo(w, "fail") => UNCHANGED <<job, sent, tries>> /\ pc' = [pc EXCEPT ![w] = "fail"]
      BY DEF GoTo
    <3>3. batch' \subseteq batch
      BY <2>2 DEF ClaimRaises, SettleRaises
    <3> QED BY <2>1, <2>2, <3>1, <3>2, <3>3
            DEF ClaimRaises, SettleRaises, Release, Holding, dbVars, worldVars
  <2>3. ASSUME NEW r \in batch, IgnoreRaises(r)
        PROVE  TypeOK'
    BY <2>1, <2>3 DEF IgnoreRaises, Holding, Worker, dbVars, worldVars
  <2> QED BY <1>9, <2>2, <2>3 DEF CallRaises
<1> QED BY <1>1, <1>2, <1>3, <1>4, <1>5, <1>6, <1>7, <1>8, <1>9 DEF Next, ReplayStep

\* No step removes a row, and a job is taken only of a row.
LEMMA WorkPresentStep ==
    ASSUME TypeOK, WorkPresent, SeqDense, [Next]_vars
    PROVE  WorkPresent'
<1> DEFINE RowsStay == \A e \in Event : Present(e) => Present(e)'
           WorkStays == \A w \in Worker : pc'[w] # "idle" => pc[w] # "idle" /\ job'[w] = job[w]
<1>1. ASSUME RowsStay, WorkStays, batch' \subseteq batch
      PROVE  WorkPresent'
  BY <1>1, Zenon DEF WorkPresent, TypeOK
<1>2. ASSUME NEW e \in Event, CloseRow(e)
      PROVE  RowsStay
  BY <1>2 DEF CloseRow, SettleAs, Present, TypeOK
<1>3. ASSUME NEW w \in Handler, NEW e \in Event, NEW mode \in Mode, Receive(w, e, mode)
      PROVE  WorkPresent'
  <2>1. RowsStay
    BY <1>3 DEF Receive, Enqueue, EnqueueNew, EnqueueRefresh, EnqueueReopen, EnqueueKept,
                Present, TypeOK
  <2>2. Present(e)'
    BY <1>3 DEF Receive, Enqueue, EnqueueNew, EnqueueRefresh, EnqueueReopen, EnqueueKept,
                Present, TypeOK
  <2>3. batch' = batch
    BY <1>3 DEF Receive
  <2>4. CASE UNCHANGED workerVars
    BY <1>1, <2>1, <2>3, <2>4 DEF workerVars
  <2>5. CASE TakeJob(w, e, content[e])
    <3>1. \A x \in Worker : pc'[x] # "idle" => job'[x] = e \/ (pc[x] # "idle" /\ job'[x] = job[x])
      BY <2>5 DEF TakeJob, TypeOK, Worker
    <3> QED BY <2>1, <2>2, <2>3, <3>1 DEF WorkPresent, TypeOK
  <2> QED BY <1>3, <2>4, <2>5 DEF Receive
<1>4. ASSUME NEW w \in Worker, Work(w)
      PROVE  WorkPresent'
  <2>1. pc[w] # "idle" /\ job[w] \in Event /\ Present(job[w])
    BY <1>4 DEF WorkPresent, Work, Claim, PostAccepted, PostRaised, MarkDelivered, MarkFailed,
                DropRecalled, KeepRefused
  <2>2. WorkStays /\ batch' = batch
    <3>1. Release(w) => WorkStays
      BY DEF Release, TypeOK
    <3>2. \A step : GoTo(w, step) => WorkStays
      BY <2>1 DEF GoTo, TypeOK
    <3> QED BY <1>4, <2>1, <3>1, <3>2 DEF Work, Claim, PostAccepted, PostRaised, MarkDelivered,
               MarkFailed, DropRecalled, KeepRefused
  <2>3. RowsStay
    <3>1. CASE Claim(w) \/ MarkFailed(w)
      BY <2>1, <3>1 DEF Claim, MarkFailed, SettleAs, dbVars, Present, TypeOK
    <3>2. CASE MarkDelivered(w) \/ DropRecalled(w)
      BY <1>2, <2>1, <3>2 DEF MarkDelivered, DropRecalled
    <3>3. CASE PostAccepted(w) \/ (\E l, r \in BOOLEAN : PostRaised(w, l, r)) \/ KeepRefused(w)
      BY <3>3 DEF PostAccepted, PostRaised, KeepRefused, dbVars, Present
    <3> QED BY <1>4, <3>1, <3>2, <3>3 DEF Work
  <2> QED BY <1>1, <2>2, <2>3
<1>5. CASE ReplayDue
  BY <1>5, DueBatchRows DEF ReplayDue, WorkPresent, dbVars, workerVars, Present
<1>6. ASSUME NEW r \in batch, ReplayPick(r)
      PROVE  WorkPresent'
  <2>1. r.event \in Event /\ Present(r.event)
    BY DEF TypeOK, WorkPresent
  <2>2. \A x \in Worker : pc'[x] # "idle" =>
            job'[x] = r.event \/ (pc[x] # "idle" /\ job'[x] = job[x])
    BY <1>6 DEF ReplayPick, TakeJob, TypeOK, Worker
  <2>3. RowsStay /\ batch' \subseteq batch
    BY <1>6 DEF ReplayPick, dbVars, Present
  <2> QED BY <2>1, <2>2, <2>3 DEF WorkPresent, TypeOK
<1>7. ASSUME NEW r \in batch, ReplayIgnore(r)
      PROVE  WorkPresent'
  <2>1. r.event \in Event
    BY DEF TypeOK
  <2>2. RowsStay
    BY <1>2, <1>7, <2>1 DEF ReplayIgnore, dbVars, Present
  <2> QED BY <1>1, <1>7, <2>2 DEF ReplayIgnore, workerVars
<1>8. CASE Restart
  BY <1>1, <1>8 DEF Restart, Present
<1>9. ASSUME NEW e \in Event, LapseLease(e) \/ BecomeReady(e) \/ Redecode(e) \/ Recall(e)
      PROVE  WorkPresent'
  BY <1>1, <1>9 DEF LapseLease, BecomeReady, Redecode, Recall, dbVars, workerVars, Present
<1>10. CASE UNCHANGED vars
  BY <1>1, <1>10 DEF vars, dbVars, workerVars, Present
<1>11. CASE CallRaises
  <2>1. RowsStay
    BY <1>11, RaisedCallsFrame DEF dbVars, Present
  <2>2. ASSUME NEW w \in Worker, ClaimRaises(w) \/ SettleRaises(w)
        PROVE  WorkPresent'
    <3>1. WorkStays /\ batch' \subseteq batch
      BY <2>2 DEF ClaimRaises, SettleRaises, GoTo, Release, TypeOK
    <3> QED BY <1>1, <2>1, <3>1
  <2>3. ASSUME NEW r \in batch, IgnoreRaises(r)
        PROVE  WorkPresent'
    <3>1. r.event \in Event /\ Present(r.event)
      BY DEF TypeOK, WorkPresent
    <3>2. \A x \in Worker : pc'[x] # "idle" =>
              job'[x] = r.event \/ (pc[x] # "idle" /\ job'[x] = job[x])
      BY <2>3 DEF IgnoreRaises, TypeOK, Worker
    <3>3. batch' \subseteq batch
      BY <2>3 DEF IgnoreRaises
    <3> QED BY <2>1, <3>1, <3>2, <3>3 DEF WorkPresent, TypeOK
  <2> QED BY <1>11, <2>2, <2>3 DEF CallRaises
<1> QED BY <1>3, <1>4, <1>5, <1>6, <1>7, <1>8, <1>9, <1>10, <1>11 DEF Next, ReplayStep

-----------------------------------------------------------------------------
IInv == TypeOK /\ WorkPresent /\ SeqDense

\* An empty spool satisfies the inductive invariant.
LEMMA IInvInit == Init => IInv
<1> SUFFICES ASSUME Init PROVE IInv
  OBVIOUS
<1>1. TypeOK
  <2>1. 1 \in Version
    BY BoundAssumption DEF Version
  <2>2. accepted \in [Event -> SUBSET Version]
    BY DEF Init
  <2> QED BY <2>1, <2>2 DEF Init, TypeOK, Status
<1>2. WorkPresent /\ SeqDense
  BY DEF Init, WorkPresent, SeqDense, Present, RowNumbers
<1> QED BY <1>1, <1>2 DEF IInv

\* Every step of the bridge keeps the inductive invariant.
LEMMA IInvStep == IInv /\ [Next]_vars => IInv'
BY TypeStep, WorkPresentStep, SeqDenseStep DEF IInv

\* The inductive invariant holds of every reachable state of the bridge.
LEMMA Inductive == Spec => []IInv
BY IInvInit, IInvStep, PTL DEF Spec

\* Every variable keeps its type: in particular failed_count never goes below
\* zero and no coroutine works on an event without a row.
THEOREM TypeCorrect == Spec => []TypeOK
<1>1. IInv => TypeOK
  BY DEF IInv
<1> QED BY <1>1, Inductive, PTL

\* Row numbers have no hole, which the drain cursor's walk relies on.
THEOREM RowsDense == Spec => []SeqDense
<1>1. IInv => SeqDense
  BY DEF IInv
<1> QED BY <1>1, Inductive, PTL

-----------------------------------------------------------------------------
(* Claims exclude each other                                                 *)

\* While the chat is command-only, nobody works on a row it does not forward:
\* the replay loop may close such rows without a claim.
LaneRespected ==
    commandLane => \A w \in Worker : pc[w] # "idle" => job[w] \notin NonCommand

\* The command-lane filter in front of claim keeps other messages out of work.
LEMMA LaneStep ==
    ASSUME ~DbRaises, TypeOK, LaneRespected, [Next]_vars
    PROVE  LaneRespected'
<1> USE DEF LaneRespected, TypeOK
<1>1. ASSUME NEW w \in Handler, NEW e \in Event, NEW mode \in Mode, Receive(w, e, mode)
      PROVE  LaneRespected'
  BY <1>1 DEF Receive, TakeJob, workerVars
<1>2. ASSUME NEW w \in Worker, Work(w)
      PROVE  LaneRespected'
  BY <1>2 DEF Work, Claim, PostAccepted, PostRaised, MarkDelivered, MarkFailed, DropRecalled,
              KeepRefused, Release, GoTo
<1>3. CASE ReplayDue
  BY <1>3 DEF ReplayDue, workerVars
<1>4. ASSUME NEW r \in batch, ReplayPick(r) \/ ReplayIgnore(r)
      PROVE  LaneRespected'
  BY <1>4 DEF ReplayPick, ReplayIgnore, TakeJob, workerVars
<1>5. CASE Restart
  BY <1>5 DEF Restart
<1>6. ASSUME NEW e \in Event, LapseLease(e) \/ BecomeReady(e) \/ Redecode(e) \/ Recall(e)
      PROVE  LaneRespected'
  BY <1>6 DEF LapseLease, BecomeReady, Redecode, Recall, workerVars
<1>7. CASE UNCHANGED vars
  BY <1>7 DEF vars, workerVars
<1> QED BY <1>1, <1>2, <1>3, <1>4, <1>5, <1>6, <1>7 DEF Next, ReplayStep, CallRaises

\* A claim succeeds only on a row nobody holds, because a holder's row is in
\* processing under a live lease; with Overrun = FALSE the lease stays live
\* until the holder settles the row.
LEMMA HolderStep ==
    ASSUME ~Overrun, ~DbRaises, TypeOK, WorkPresent, LaneRespected, HolderLeased, OneHolder, [Next]_vars
    PROVE  HolderLeased' /\ OneHolder'
<1> DEFINE Untouched(e) == (status'[e] = status[e] /\ (e \in leased' <=> e \in leased))
<1>1. ASSUME \A x \in Worker, e \in Event : Holds(x, e)' => Holds(x, e) /\ Untouched(e)
      PROVE  HolderLeased' /\ OneHolder'
  BY <1>1 DEF HolderLeased, OneHolder
<1>2. ASSUME NEW w \in Handler, NEW e \in Event, NEW mode \in Mode, Receive(w, e, mode)
      PROVE  HolderLeased' /\ OneHolder'
  <2>1. \A x \in Worker, f \in Event : Holds(x, f)' => Holds(x, f)
    BY <1>2 DEF Receive, TakeJob, workerVars, Holds, Holding, TypeOK, Worker
  <2>2. \A f \in Event : status[f] = "processing" => Untouched(f)
    BY <1>2 DEF Receive, Enqueue, EnqueueNew, EnqueueRefresh, EnqueueReopen, EnqueueKept,
                Present, TypeOK
  <2> QED BY <1>1, <2>1, <2>2 DEF HolderLeased
\* A settlement of w's row: no other worker holds it, and w lets go.
<1>3. ASSUME NEW w \in Worker, Holds(w, job[w]), job[w] \in Event, Release(w),
             \A f \in Event : f # job[w] => Untouched(f)
      PROVE  HolderLeased' /\ OneHolder'
  <2>1. \A x \in Worker, f \in Event : Holds(x, f)' => x # w /\ Holds(x, f)
    BY <1>3 DEF Release, Holds, Holding, TypeOK
  <2>2. \A x \in Worker, f \in Event : Holds(x, f)' => f # job[w]
    BY <1>3, <2>1 DEF OneHolder
  <2> QED BY <1>1, <1>3, <2>1, <2>2
<1>4. ASSUME NEW w \in Worker, Work(w)
      PROVE  HolderLeased' /\ OneHolder'
  <2>1. pc[w] # "idle" => job[w] \in Event
    BY DEF WorkPresent
  <2>2. CASE Claim(w)
    <3>1. CASE ClaimRefused(job[w])
      BY <1>1, <2>2, <3>1 DEF Claim, Release, dbVars, Holds, Holding, TypeOK
    <3>2. CASE ~ClaimRefused(job[w])
      <4>1. \A x \in Worker : ~Holds(x, job[w])
        BY <2>1, <2>2, <3>2 DEF Claim, ClaimRefused, HolderLeased
      <4>2. \A x \in Worker, f \in Event :
                Holds(x, f)' => (x = w /\ f = job[w]) \/ (Holds(x, f) /\ f # job[w])
        BY <2>2, <3>2, <4>1 DEF Claim, GoTo, Holds, Holding, TypeOK
      <4>3. /\ status'[job[w]] = "processing" /\ job[w] \in leased'
            /\ \A f \in Event : f # job[w] => Untouched(f)
        BY <2>1, <2>2, <3>2 DEF Claim, TypeOK
      <4> QED BY <4>2, <4>3 DEF HolderLeased, OneHolder
    <3> QED BY <3>1, <3>2
  <2>3. CASE PostAccepted(w) \/ (\E l, r \in BOOLEAN : PostRaised(w, l, r)) \/ KeepRefused(w)
    <3>1. \A x \in Worker, f \in Event : Holds(x, f)' => Holds(x, f)
      BY <2>3 DEF PostAccepted, PostRaised, KeepRefused, GoTo, Holds, Holding, TypeOK
    <3> QED BY <1>1, <2>3, <3>1 DEF PostAccepted, PostRaised, KeepRefused, dbVars
  <2>4. CASE MarkDelivered(w) \/ DropRecalled(w)
    BY <1>3, <2>1, <2>4 DEF MarkDelivered, DropRecalled, CloseRow, SettleAs, Holds, Holding, TypeOK
  <2>5. CASE MarkFailed(w)
    BY <1>3, <2>1, <2>5 DEF MarkFailed, SettleAs, Holds, Holding, TypeOK
  <2> QED BY <1>4, <2>2, <2>3, <2>4, <2>5 DEF Work
<1>5. CASE ReplayDue
  BY <1>1, <1>5 DEF ReplayDue, dbVars, workerVars, Holds
<1>6. ASSUME NEW r \in batch, ReplayPick(r)
      PROVE  HolderLeased' /\ OneHolder'
  BY <1>1, <1>6 DEF ReplayPick, TakeJob, dbVars, Holds, Holding, TypeOK
<1>7. ASSUME NEW r \in batch, ReplayIgnore(r)
      PROVE  HolderLeased' /\ OneHolder'
  <2>1. r.event \in Event
    BY DEF TypeOK
  <2>2. \A x \in Worker, f \in Event : Holds(x, f)' => Holds(x, f) /\ f # r.event
    BY <1>7 DEF ReplayIgnore, workerVars, LaneRespected, Holds, Holding
  <2>3. \A f \in Event : f # r.event => Untouched(f)
    BY <1>7, <2>1 DEF ReplayIgnore, dbVars, CloseRow, SettleAs, TypeOK
  <2> QED BY <1>1, <2>2, <2>3
<1>8. CASE Restart
  BY <1>1, <1>8 DEF Restart, Holds, Holding
<1>9. ASSUME NEW e \in Event, LapseLease(e)
      PROVE  HolderLeased' /\ OneHolder'
  BY <1>1, <1>9 DEF LapseLease, workerVars, Holds
<1>10. ASSUME NEW e \in Event, BecomeReady(e) \/ Redecode(e) \/ Recall(e)
      PROVE  HolderLeased' /\ OneHolder'
  BY <1>1, <1>10 DEF BecomeReady, Redecode, Recall, dbVars, workerVars, Holds
<1>11. CASE UNCHANGED vars
  BY <1>1, <1>11 DEF vars, dbVars, workerVars, Holds
<1> QED BY <1>2, <1>4, <1>5, <1>6, <1>7, <1>8, <1>9, <1>10, <1>11
        DEF Next, ReplayStep, CallRaises

\* Between claim and settlement one coroutine at most works on an event, as
\* long as no lease lapses under a running claimant.
THEOREM ClaimsExclude == ASSUME ~Overrun, ~DbRaises PROVE Spec => []OneHolder
<1> DEFINE J == IInv /\ LaneRespected /\ HolderLeased /\ OneHolder
<1>1. Init => J
  BY IInvInit, Zenon DEF Init, LaneRespected, HolderLeased, OneHolder, Holds, Holding
<1>2. J /\ [Next]_vars => J'
  BY IInvStep, LaneStep, HolderStep DEF IInv
<1>3. J => OneHolder
  OBVIOUS
<1> QED BY <1>1, <1>2, <1>3, PTL DEF Spec

\* ... and the one that does holds a lease that has not run out: claim, the
\* settlements, lapses and restarts never leave it without.
THEOREM HoldersAreLeased == ASSUME ~Overrun, ~DbRaises PROVE Spec => []HolderLeased
<1> DEFINE J == IInv /\ LaneRespected /\ HolderLeased /\ OneHolder
<1>1. Init => J
  BY IInvInit, Zenon DEF Init, LaneRespected, HolderLeased, OneHolder, Holds, Holding
<1>2. J /\ [Next]_vars => J'
  BY IInvStep, LaneStep, HolderStep DEF IInv
<1>3. J => HolderLeased
  OBVIOUS
<1> QED BY <1>1, <1>2, <1>3, PTL DEF Spec

-----------------------------------------------------------------------------
(* A closed row was handed over                                              *)

\* A worker that is about to mark its row delivered has the adapter's answer.
MarkedIsAccepted == \A w \in Worker : pc[w] = "mark" => accepted[job[w]] # {}

\* Only the answer of the adapter leads to mark_delivered.
LEMMA MarkedStep ==
    ASSUME TypeOK, WorkPresent, MarkedIsAccepted, [Next]_vars
    PROVE  MarkedIsAccepted'
<1> DEFINE Stay == \A w \in Worker : pc'[w] = "mark" => pc[w] = "mark" /\ job'[w] = job[w]
<1>1. ASSUME Stay, accepted' = accepted
      PROVE  MarkedIsAccepted'
  BY <1>1 DEF MarkedIsAccepted
<1>2. ASSUME NEW w \in Handler, NEW e \in Event, NEW mode \in Mode, Receive(w, e, mode)
      PROVE  MarkedIsAccepted'
  BY <1>1, <1>2 DEF Receive, TakeJob, workerVars, worldVars, TypeOK
<1>3. ASSUME NEW w \in Worker, Work(w)
      PROVE  MarkedIsAccepted'
  <2>1. CASE PostAccepted(w) \/ (\E l, r \in BOOLEAN : PostRaised(w, l, r))
    <3>1. \A e : e \in Event /\ accepted[e] # {} => accepted'[e] # {}
      BY <2>1 DEF PostAccepted, PostRaised, TypeOK
    <3>2. \A x \in Worker : pc'[x] = "mark" => pc[x] = "mark" \/ (x = w /\ PostAccepted(w))
      BY <2>1 DEF PostAccepted, PostRaised, GoTo, TypeOK
    <3>3. job' = job /\ job[w] \in Event
      BY <2>1 DEF PostAccepted, PostRaised, GoTo, WorkPresent
    <3>4. PostAccepted(w) => accepted'[job[w]] # {}
      BY <3>3 DEF PostAccepted, TypeOK
    <3> QED BY <3>1, <3>2, <3>3, <3>4 DEF MarkedIsAccepted, WorkPresent
  <2>2. CASE Claim(w) \/ MarkDelivered(w) \/ MarkFailed(w) \/ DropRecalled(w) \/ KeepRefused(w)
    BY <1>1, <2>2 DEF Claim, MarkDelivered, MarkFailed, DropRecalled, KeepRefused, Release, GoTo,
                      worldVars, TypeOK
  <2> QED BY <1>3, <2>1, <2>2 DEF Work
<1>4. ASSUME NEW r \in batch, ReplayPick(r)
      PROVE  MarkedIsAccepted'
  BY <1>1, <1>4 DEF ReplayPick, TakeJob, worldVars, TypeOK
<1>6. CASE CallRaises
  <2>1. accepted' = accepted
    BY <1>6, RaisedCallsFrame DEF worldVars
  <2>2. Stay
    BY <1>6 DEF CallRaises, ClaimRaises, SettleRaises, IgnoreRaises, GoTo, Release, TypeOK
  <2> QED BY <1>1, <2>1, <2>2
<1>5. CASE ReplayDue \/ (\E r \in batch : ReplayIgnore(r)) \/ Restart \/ UNCHANGED vars
          \/ \E e \in Event : LapseLease(e) \/ BecomeReady(e) \/ Redecode(e) \/ Recall(e)
  BY <1>1, <1>5 DEF ReplayDue, ReplayIgnore, Restart, vars, LapseLease, BecomeReady, Redecode,
                    Recall, workerVars, worldVars
<1> QED BY <1>2, <1>3, <1>4, <1>5, <1>6 DEF Next, ReplayStep

\* The only steps that close a row are the marks, which rest on the adapter's
\* answer, and the two excuses.
LEMMA ClosedStep ==
    ASSUME TypeOK, WorkPresent, MarkedIsAccepted, ClosedWasHanded, [Next]_vars
    PROVE  ClosedWasHanded'
<1> DEFINE Excused(e) == e \in recalled \cup NonCommand
           Closes(e) == status'[e] = "delivered" /\ status[e] # "delivered"
<1>1. ASSUME \A e \in Event : Closes(e) => accepted[e] # {} \/ Excused(e),
             \A e \in Event : accepted[e] # {} => accepted'[e] # {},
             recalled \subseteq recalled'
      PROVE  ClosedWasHanded'
  BY <1>1 DEF ClosedWasHanded
<1>2. ASSUME NEW w \in Handler, NEW e \in Event, NEW mode \in Mode, Receive(w, e, mode)
      PROVE  ClosedWasHanded'
  <2>1. \A f \in Event : ~Closes(f)
    BY <1>2 DEF Receive, Enqueue, EnqueueNew, EnqueueRefresh, EnqueueReopen, EnqueueKept, TypeOK
  <2> QED BY <1>1, <1>2, <2>1 DEF Receive, worldVars
<1>3. ASSUME NEW e \in Event, CloseRow(e), accepted[e] # {} \/ Excused(e), UNCHANGED worldVars
      PROVE  ClosedWasHanded'
  BY <1>1, <1>3 DEF CloseRow, SettleAs, worldVars, TypeOK
<1>4. ASSUME NEW w \in Worker, Work(w)
      PROVE  ClosedWasHanded'
  <2>1. pc[w] # "idle" => job[w] \in Event
    BY DEF WorkPresent
  <2>2. CASE Claim(w) \/ MarkFailed(w)
    <3>1. \A f \in Event : ~Closes(f)
      BY <2>1, <2>2 DEF Claim, MarkFailed, SettleAs, dbVars, TypeOK
    <3> QED BY <1>1, <2>2, <3>1 DEF Claim, MarkFailed, worldVars
  <2>3. CASE PostAccepted(w) \/ (\E l, r \in BOOLEAN : PostRaised(w, l, r)) \/ KeepRefused(w)
    <3>1. \A e \in Event : accepted[e] # {} => accepted'[e] # {}
      BY <2>3 DEF PostAccepted, PostRaised, KeepRefused, worldVars, TypeOK
    <3> QED BY <1>1, <2>3, <3>1 DEF PostAccepted, PostRaised, KeepRefused, dbVars, worldVars
  <2>4. CASE MarkDelivered(w)
    BY <1>3, <2>1, <2>4 DEF MarkDelivered, MarkedIsAccepted
  <2>5. CASE DropRecalled(w)
    BY <1>3, <2>1, <2>5 DEF DropRecalled
  <2> QED BY <1>4, <2>2, <2>3, <2>4, <2>5 DEF Work
<1>5. ASSUME NEW r \in batch, ReplayIgnore(r)
      PROVE  ClosedWasHanded'
  BY <1>1, <1>3, <1>5 DEF ReplayIgnore, dbVars, worldVars, TypeOK
<1>6. CASE ReplayDue \/ (\E r \in batch : ReplayPick(r)) \/ Restart \/ CallRaises
          \/ UNCHANGED vars
          \/ \E e \in Event : LapseLease(e) \/ BecomeReady(e) \/ Redecode(e) \/ Recall(e)
  BY <1>1, <1>6, RaisedCallsFrame
     DEF ReplayDue, ReplayPick, Restart, vars, LapseLease, BecomeReady, Redecode,
         Recall, dbVars, worldVars
<1> QED BY <1>2, <1>4, <1>5, <1>6 DEF Next, ReplayStep

\* A closed row was taken by the adapter, or its message was recalled, or the
\* chat no longer forwards it, whether or not leases lapse early.
THEOREM ClosedRowsWereHanded == Spec => []ClosedWasHanded
<1> DEFINE J == IInv /\ MarkedIsAccepted /\ ClosedWasHanded
<1>1. Init => J
  BY IInvInit, Zenon DEF Init, MarkedIsAccepted, ClosedWasHanded
<1>2. J /\ [Next]_vars => J'
  BY IInvStep, MarkedStep, ClosedStep DEF IInv
<1>3. J => ClosedWasHanded
  OBVIOUS
<1> QED BY <1>1, <1>2, <1>3, PTL DEF Spec

-----------------------------------------------------------------------------
(* The count of failed rows                                                  *)

FailedRows == {e \in Event : status[e] = "failed"}

\* What one row's change of status does to the number of failed rows.
LEMMA FailedRowsChange ==
    ASSUME TypeOK, NEW e \in Event, NEW st \in Status,
           status' = [status EXCEPT ![e] = st],
           failedCount = Cardinality(FailedRows)
    PROVE  /\ (status[e] = "failed" <=> st = "failed") =>
                  Cardinality(FailedRows') = failedCount
           /\ status[e] # "failed" /\ st = "failed" =>
                  Cardinality(FailedRows') = failedCount + 1
           /\ status[e] = "failed" /\ st # "failed" =>
                  Cardinality(FailedRows') = Decrement(failedCount)
<1>1. IsFiniteSet(FailedRows)
  BY EventAssumption, FS_Subset DEF FailedRows
<1>2. CASE status[e] = "failed" <=> st = "failed"
  <2>1. FailedRows' = FailedRows
    BY <1>2 DEF FailedRows, TypeOK
  <2> QED BY <1>2, <2>1
<1>3. CASE status[e] # "failed" /\ st = "failed"
  <2>1. FailedRows' = FailedRows \cup {e} /\ e \notin FailedRows
    BY <1>3 DEF FailedRows, TypeOK
  <2>2. Cardinality(FailedRows \cup {e}) = failedCount + 1
    BY <1>1, <2>1, FS_AddElement
  <2> QED BY <1>3, <2>1, <2>2
<1>4. CASE status[e] = "failed" /\ st # "failed"
  <2>1. FailedRows' = FailedRows \ {e} /\ e \in FailedRows
    BY <1>4 DEF FailedRows, TypeOK
  <2>2. Cardinality(FailedRows \ {e}) = failedCount - 1
    BY <1>1, <2>1, FS_RemoveElement
  <2>3. failedCount > 0
    BY <1>1, <2>1, FS_EmptySet DEF TypeOK
  <2> QED BY <1>4, <2>1, <2>2, <2>3 DEF Decrement
<1> QED BY <1>2, <1>3, <1>4

\* claim, the three marks and the restart keep failed_count exact.
LEMMA FailedCountStep ==
    ASSUME TypeOK, WorkPresent, FailedCountExact, [Next]_vars
    PROVE  FailedCountExact'
<1>1. failedCount = Cardinality(FailedRows)
  BY DEF FailedCountExact, FailedRows
<1>2. ASSUME failedCount' = Cardinality(FailedRows') PROVE FailedCountExact'
  BY <1>2 DEF FailedCountExact, FailedRows
<1>3. ASSUME UNCHANGED <<status, failedCount>> PROVE FailedCountExact'
  BY <1>1, <1>2, <1>3 DEF FailedRows
<1>4. ASSUME NEW e \in Event, CloseRow(e) PROVE FailedCountExact'
  BY <1>1, <1>2, <1>4, FailedRowsChange DEF CloseRow, SettleAs, Status
<1>5. ASSUME NEW w \in Handler, NEW e \in Event, NEW mode \in Mode, Receive(w, e, mode)
      PROVE  FailedCountExact'
  <2>1. CASE EnqueueNew(e, content[e]) \/ EnqueueReopen(e, content[e], mode)
    <3>1. status' = [status EXCEPT ![e] = "queued"] /\ status[e] # "failed"
      BY <2>1 DEF EnqueueNew, EnqueueReopen, Present
    <3>2. failedCount' = failedCount
      BY <1>5 DEF Receive, Enqueue
    <3> QED BY <1>1, <1>2, <3>1, <3>2, FailedRowsChange DEF Status
  <2>2. CASE EnqueueRefresh(e, content[e], mode) \/ EnqueueKept(e, mode)
    BY <1>3, <1>5, <2>2 DEF EnqueueRefresh, EnqueueKept, Receive, Enqueue
  <2> QED BY <1>5, <2>1, <2>2 DEF Receive, Enqueue
<1>6. ASSUME NEW w \in Worker, Work(w)
      PROVE  FailedCountExact'
  <2>1. pc[w] # "idle" => job[w] \in Event
    BY DEF WorkPresent
  <2>2. CASE Claim(w)
    <3>1. CASE ClaimRefused(job[w])
      BY <1>3, <2>2, <3>1 DEF Claim, dbVars
    <3>2. CASE ~ClaimRefused(job[w])
      BY <1>1, <1>2, <2>1, <2>2, <3>2, FailedRowsChange DEF Claim, Status
    <3> QED BY <3>1, <3>2
  <2>3. CASE MarkFailed(w)
    BY <1>1, <1>2, <2>1, <2>3, FailedRowsChange DEF MarkFailed, SettleAs, Status
  <2>4. CASE MarkDelivered(w) \/ DropRecalled(w)
    BY <1>4, <2>1, <2>4 DEF MarkDelivered, DropRecalled
  <2>5. CASE PostAccepted(w) \/ (\E l, r \in BOOLEAN : PostRaised(w, l, r)) \/ KeepRefused(w)
    BY <1>3, <2>5 DEF PostAccepted, PostRaised, KeepRefused, dbVars
  <2> QED BY <1>6, <2>2, <2>3, <2>4, <2>5 DEF Work
<1>7. ASSUME NEW r \in batch, ReplayIgnore(r) PROVE FailedCountExact'
  BY <1>3, <1>4, <1>7 DEF ReplayIgnore, dbVars, TypeOK
<1>8. CASE Restart
  BY <1>2, <1>8 DEF Restart, FailedRows
<1>9. CASE ReplayDue \/ (\E r \in batch : ReplayPick(r)) \/ CallRaises \/ UNCHANGED vars
          \/ \E e \in Event : LapseLease(e) \/ BecomeReady(e) \/ Redecode(e) \/ Recall(e)
  BY <1>3, <1>9, RaisedCallsFrame
     DEF ReplayDue, ReplayPick, vars, LapseLease, BecomeReady, Redecode, Recall, dbVars
<1> QED BY <1>5, <1>6, <1>7, <1>8, <1>9 DEF Next, ReplayStep

\* failed_count, kept by increments in four methods and recomputed on start,
\* is always the number of failed rows; its MAX(0, ...) floor never bites.
THEOREM FailedCountIsExact == Spec => []FailedCountExact
<1> DEFINE J == IInv /\ FailedCountExact
<1>1. Init => J
  <2>1. Init => FailedCountExact
    <3> SUFFICES ASSUME Init PROVE FailedCountExact
      OBVIOUS
    <3>1. {e \in Event : status[e] = "failed"} = {}
      BY DEF Init
    <3> QED BY <3>1, FS_EmptySet DEF Init, FailedCountExact
  <2> QED BY <2>1, IInvInit
<1>2. J /\ [Next]_vars => J'
  BY IInvStep, FailedCountStep DEF IInv
<1>3. J => FailedCountExact
  OBVIOUS
<1> QED BY <1>1, <1>2, <1>3, PTL DEF Spec

-----------------------------------------------------------------------------
(* The drain cursor                                                          *)

\* Rows close in any order and the cursor is moved only by the step that
\* closes one; a row that arrives later has a number beyond every other.
LEMMA CursorStep ==
    ASSUME TypeOK, WorkPresent, SeqDense, CursorNotLagging, [Next]_vars
    PROVE  CursorNotLagging'
<1>1. ASSUME UNCHANGED <<seq, cursor>>,
             \A e \in Event : status'[e] = "delivered" => status[e] = "delivered"
      PROVE  CursorNotLagging'
  BY <1>1 DEF CursorNotLagging
<1>2. ASSUME NEW e \in Event, CloseRow(e) PROVE CursorNotLagging'
  BY <1>2 DEF CloseRow, AdvancesTo, CursorNotLagging
<1>3. ASSUME NEW w \in Handler, NEW e \in Event, NEW mode \in Mode, Receive(w, e, mode)
      PROVE  CursorNotLagging'
  <2>1. cursor' = cursor
    BY <1>3 DEF Receive, Enqueue
  <2>2. CASE EnqueueNew(e, content[e])
    <3>1. /\ status' = [status EXCEPT ![e] = "queued"]
          /\ \A f \in Event : f # e => seq'[f] = seq[f]
      BY <2>2 DEF EnqueueNew, TypeOK
    <3> QED BY <2>1, <3>1 DEF CursorNotLagging, TypeOK
  <2>3. CASE EnqueueRefresh(e, content[e], mode) \/ EnqueueReopen(e, content[e], mode)
             \/ EnqueueKept(e, mode)
    BY <1>1, <2>1, <2>3 DEF EnqueueRefresh, EnqueueReopen, EnqueueKept, TypeOK
  <2> QED BY <1>3, <2>2, <2>3 DEF Receive, Enqueue
<1>4. ASSUME NEW w \in Worker, Work(w)
      PROVE  CursorNotLagging'
  <2>1. pc[w] # "idle" => job[w] \in Event
    BY DEF WorkPresent
  <2>2. CASE Claim(w) \/ MarkFailed(w)
    BY <1>1, <2>1, <2>2 DEF Claim, MarkFailed, SettleAs, dbVars, TypeOK
  <2>3. CASE MarkDelivered(w) \/ DropRecalled(w)
    BY <1>2, <2>1, <2>3 DEF MarkDelivered, DropRecalled
  <2>4. CASE PostAccepted(w) \/ (\E l, r \in BOOLEAN : PostRaised(w, l, r)) \/ KeepRefused(w)
    BY <1>1, <2>4 DEF PostAccepted, PostRaised, KeepRefused, dbVars
  <2> QED BY <1>4, <2>2, <2>3, <2>4 DEF Work
<1>5. ASSUME NEW r \in batch, ReplayIgnore(r) PROVE CursorNotLagging'
  BY <1>1, <1>2, <1>5 DEF ReplayIgnore, dbVars, TypeOK
<1>6. CASE ReplayDue \/ (\E r \in batch : ReplayPick(r)) \/ Restart \/ CallRaises
          \/ UNCHANGED vars
          \/ \E e \in Event : LapseLease(e) \/ BecomeReady(e) \/ Redecode(e) \/ Recall(e)
  BY <1>1, <1>6, RaisedCallsFrame
     DEF ReplayDue, ReplayPick, Restart, vars, LapseLease, BecomeReady, Redecode, Recall, dbVars
<1> QED BY <1>3, <1>4, <1>5, <1>6 DEF Next, ReplayStep

\* No delivered row directly follows the drain cursor, in any order of closes,
\* corrections and failures.
THEOREM CursorKeepsUp == Spec => []CursorNotLagging
<1> DEFINE J == IInv /\ CursorNotLagging
<1>1. Init => J
  BY IInvInit, Zenon DEF Init, CursorNotLagging
<1>2. J /\ [Next]_vars => J'
  BY IInvStep, CursorStep DEF IInv
<1>3. J => CursorNotLagging
  OBVIOUS
<1> QED BY <1>1, <1>2, <1>3, PTL DEF Spec
-----------------------------------------------------------------------------
(* The spool implements an at-least-once delivery queue                      *)

\* What the refinement rests on: a holder's row is in processing, what is about
\* to be marked was accepted, and the replay loop respects the command lane.
RInv == IInv /\ LaneRespected /\ HolderLeased /\ OneHolder /\ MarkedIsAccepted

Handed == {e \in Event : accepted[e] # {}}

\* A step that moves no row to another stage, hands nothing over and excuses
\* nothing is a stutter of the queue.
LEMMA StutterMaps ==
    ASSUME TypeOK, TypeOK', Handed' = Handed, recalled' = recalled,
           \A e \in Event : StageOf(status'[e]) = StageOf(status[e])
    PROVE  UNCHANGED DQ!dqVars
<1>1. [e \in Event |-> StageOf(status[e])]' = [e \in Event |-> StageOf(status[e])]
  OBVIOUS
<1> QED BY <1>1 DEF DQ!dqVars, Handed

\* A step that changes one row's stage, and nothing else, changes the queue's
\* stage of that event and nothing else.
LEMMA StageMaps ==
    ASSUME TypeOK, NEW e \in Event, NEW st \in Status, status' = [status EXCEPT ![e] = st]
    PROVE  [f \in Event |-> StageOf(status[f])]'
             = [[f \in Event |-> StageOf(status[f])] EXCEPT ![e] = StageOf(st)]
BY DEF TypeOK

\* A payload of an open row that the adapter takes is a hand-over.
LEMMA HandOverMaps ==
    ASSUME TypeOK, NEW e \in Event, status[e] = "processing", status' = status,
           recalled' = recalled, NEW v, accepted' = [accepted EXCEPT ![e] = @ \cup {v}]
    PROVE  DQ!DQNext
<1>1. Handed' = Handed \cup {e}
  BY DEF Handed, TypeOK
<1>2. DQ!HandOver(e)
  BY <1>1 DEF DQ!HandOver, StageOf, Handed
<1> QED BY <1>2 DEF DQ!DQNext

\* The coroutines' steps: a claim tries the event, the adapter's answer hands it
\* over, a settlement closes it or leaves it to be tried again.
LEMMA WorkMaps ==
    ASSUME RInv, TypeOK', NEW w \in Worker, Work(w)
    PROVE  [DQ!DQNext]_(DQ!dqVars)
<1> DEFINE e == job[w]
<1> USE DEF RInv, IInv
<1>1. pc[w] # "idle" /\ e \in Event /\ Present(e)
  BY DEF WorkPresent, Work, Claim, PostAccepted, PostRaised, MarkDelivered, MarkFailed,
         DropRecalled, KeepRefused
<1>2. pc[w] \in Holding => status[e] = "processing"
  BY <1>1 DEF HolderLeased, Holds
<1>3. CASE Claim(w)
  <2>1. CASE ClaimRefused(e)
    BY <1>3, <2>1, StutterMaps DEF Claim, dbVars, worldVars, Handed
  <2>2. CASE ~ClaimRefused(e)
    <3>1. /\ status' = [status EXCEPT ![e] = "processing"]
          /\ status[e] \in {"queued", "processing", "failed"}
          /\ accepted' = accepted /\ recalled' = recalled
      BY <1>1, <1>3, <2>2 DEF Claim, ClaimRefused, worldVars, TypeOK, Status, Present
    <3>2. DQ!Try(e)
      BY <1>1, <3>1, StageMaps DEF DQ!Try, DQ!Open, StageOf, Status
    <3> QED BY <1>1, <3>2 DEF DQ!DQNext
  <2> QED BY <2>1, <2>2
<1>4. CASE PostAccepted(w)
  BY <1>1, <1>2, <1>4, HandOverMaps DEF PostAccepted, dbVars, Holding
<1>6. ASSUME NEW landed \in BOOLEAN, NEW refused \in BOOLEAN, PostRaised(w, landed, refused)
      PROVE  [DQ!DQNext]_(DQ!dqVars)
  <2>1. CASE landed
    BY <1>1, <1>2, <1>6, <2>1, HandOverMaps DEF PostRaised, dbVars, Holding
  <2>2. CASE ~landed
    BY <1>6, <2>2, StutterMaps DEF PostRaised, dbVars, Handed
  <2> QED BY <2>1, <2>2
<1>7. CASE MarkDelivered(w) \/ DropRecalled(w)
  <2>1. status[e] = "processing" /\ (e \in Handed \/ e \in recalled)
    BY <1>1, <1>2, <1>7 DEF MarkDelivered, DropRecalled, MarkedIsAccepted, Handed, Holding
  <2>2. status' = [status EXCEPT ![e] = "delivered"] /\ accepted' = accepted /\ recalled' = recalled
    BY <1>7 DEF MarkDelivered, DropRecalled, CloseRow, SettleAs, worldVars
  <2>3. DQ!Close(e)
    BY <1>1, <2>1, <2>2, StageMaps DEF DQ!Close, DQ!Open, StageOf, Status, Handed
  <2> QED BY <1>1, <2>3 DEF DQ!DQNext
<1>8. CASE MarkFailed(w)
  <2>1. status[e] = "processing"
    BY <1>2, <1>8 DEF MarkFailed, Holding
  <2>2. \A f \in Event : StageOf(status'[f]) = StageOf(status[f])
    BY <1>1, <1>8, <2>1 DEF MarkFailed, SettleAs, StageOf, TypeOK
  <2> QED BY <1>8, <2>2, StutterMaps DEF MarkFailed, worldVars, Handed
<1>9. CASE KeepRefused(w)
  BY <1>9, StutterMaps DEF KeepRefused, dbVars, worldVars, Handed
<1> QED BY <1>3, <1>4, <1>6, <1>7, <1>8, <1>9 DEF Work

\* Every step of the bridge is a step of the queue or changes nothing of it.
LEMMA StepMaps ==
    ASSUME ~DbRaises, RInv, TypeOK', [Next]_vars
    PROVE  [DQ!DQNext]_(DQ!dqVars)
<1> USE DEF RInv, IInv
<1>1. ASSUME NEW w \in Handler, NEW e \in Event, NEW mode \in Mode, Receive(w, e, mode)
      PROVE  [DQ!DQNext]_(DQ!dqVars)
  <2>1. accepted' = accepted /\ recalled' = recalled
    BY <1>1 DEF Receive, worldVars
  <2>2. CASE EnqueueNew(e, content[e])
    <3>1. DQ!TakeIn(e)
      BY <2>1, <2>2, StageMaps DEF EnqueueNew, Present, DQ!TakeIn, StageOf, Status
    <3> QED BY <3>1 DEF DQ!DQNext
  <2>3. CASE EnqueueReopen(e, content[e], mode)
    <3>1. DQ!Correct(e)
      BY <2>1, <2>3, StageMaps DEF EnqueueReopen, DQ!Correct, StageOf, Status
    <3> QED BY <3>1 DEF DQ!DQNext
  <2>4. CASE EnqueueRefresh(e, content[e], mode) \/ EnqueueKept(e, mode)
    BY <2>1, <2>4, StutterMaps DEF EnqueueRefresh, EnqueueKept, Handed
  <2> QED BY <1>1, <2>2, <2>3, <2>4 DEF Receive, Enqueue
<1>2. ASSUME NEW w \in Worker, Work(w)
      PROVE  [DQ!DQNext]_(DQ!dqVars)
  BY <1>2, WorkMaps
<1>3. ASSUME NEW r \in batch, ReplayIgnore(r)
      PROVE  [DQ!DQNext]_(DQ!dqVars)
  <2>1. /\ r.event \in Event /\ Present(r.event)
        /\ accepted' = accepted /\ recalled' = recalled
    BY <1>3 DEF TypeOK, WorkPresent, ReplayIgnore, worldVars
  <2>2. CASE status[r.event] = "delivered"
    BY <1>3, <2>1, <2>2, StutterMaps DEF ReplayIgnore, dbVars, Handed
  <2>3. CASE status[r.event] # "delivered"
    <3>1. status[r.event] \in {"queued", "processing", "failed"}
      BY <2>1, <2>3 DEF TypeOK, Status, Present
    <3>2. DQ!Open(r.event)
      BY <2>1, <3>1 DEF DQ!Open, StageOf
    <3>3. status' = [status EXCEPT ![r.event] = "delivered"] /\ r.event \in NonCommand
      BY <1>3, <2>3 DEF ReplayIgnore, CloseRow, SettleAs
    <3>4. DQ!Close(r.event)
      BY <2>1, <3>2, <3>3, StageMaps DEF DQ!Close, StageOf, Status, Handed
    <3> QED BY <2>1, <3>4 DEF DQ!DQNext
  <2> QED BY <2>2, <2>3
<1>4. ASSUME NEW e \in Event, Recall(e)
      PROVE  [DQ!DQNext]_(DQ!dqVars)
  <2>1. DQ!Excuse(e)
    BY <1>4 DEF Recall, dbVars, DQ!Excuse
  <2> QED BY <2>1 DEF DQ!DQNext
<1>5. CASE ReplayDue \/ (\E r \in batch : ReplayPick(r)) \/ Restart \/ UNCHANGED vars
          \/ \E e \in Event : LapseLease(e) \/ BecomeReady(e) \/ Redecode(e)
  BY <1>5, StutterMaps DEF ReplayDue, ReplayPick, Restart, vars, LapseLease, BecomeReady,
                           Redecode, dbVars, worldVars, Handed
<1> QED BY <1>1, <1>2, <1>3, <1>4, <1>5 DEF Next, ReplayStep, CallRaises

\* The bridge delivers at least once: as long as no lease lapses under a running
\* claimant, the spool behaves as the delivery queue its neighbours count on.
THEOREM ImplementsDeliveryQueue == ASSUME ~Overrun, ~DbRaises PROVE Spec => Refines
<1>1. Init => RInv
  BY IInvInit, Zenon DEF Init, RInv, LaneRespected, HolderLeased, OneHolder, Holds, Holding,
                         MarkedIsAccepted
<1>2. RInv /\ [Next]_vars => RInv'
  BY IInvStep, LaneStep, HolderStep, MarkedStep DEF RInv, IInv
<1>3. Init => DQ!DQInit
  <2> SUFFICES ASSUME Init PROVE DQ!DQInit
    OBVIOUS
  <2>1. [e \in Event |-> StageOf(status[e])] = [e \in Event |-> "absent"]
    BY DEF Init, StageOf
  <2>2. {e \in Event : accepted[e] # {}} = {}
    BY DEF Init
  <2>3. recalled \cup NonCommand \in SUBSET Event
    BY BoundAssumption DEF Init
  <2> QED BY <2>1, <2>2, <2>3 DEF DQ!DQInit
<1>4. RInv /\ RInv' /\ [Next]_vars => [DQ!DQNext]_(DQ!dqVars)
  BY StepMaps DEF RInv, IInv
<1> QED BY <1>1, <1>2, <1>3, <1>4, PTL DEF Spec, Refines, DQ!DQSpec
=============================================================================
