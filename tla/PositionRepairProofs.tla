------------------------ MODULE PositionRepairProofs ------------------------
(***************************************************************************)
(* Proofs about PositionRepair, for any number of positions and readers    *)
(* and any window, chunk size and range limit.                             *)
(***************************************************************************)
EXTENDS PositionRepair, FiniteSetTheorems, WellFoundedInduction, TLAPS

-----------------------------------------------------------------------------
(* Gaps                                                                      *)

\* A nonempty set of numbers below a bound has a first one ...
LEMMA First ==
    ASSUME NEW m \in Nat, NEW T, T \subseteq 0..m, T # {}
    PROVE  \E x \in T : \A y \in T : x <= y
<1> DEFINE Below(x) == {y \in T : y < x}
           Belows == {Below(x) : x \in T}
           R == StrictSubsetOrdering(T)
<1>1. IsWellFoundedOn(R, SUBSET T)
  <2>1. IsFiniteSet(T)
    BY FS_BoundedSetOfNaturals
  <2> QED BY <2>1, FS_StrictSubsetOrderingWellFounded, FS_FiniteSubsetsOfFinite
<1>2. Belows \subseteq SUBSET T /\ Belows # {}
  OBVIOUS
<1>3. PICK B \in Belows : \A C \in Belows : <<C, B>> \notin R
  <2> HIDE DEF R, Belows
  <2> QED BY <1>1, <1>2, WFMin, Zenon
<1>4. PICK x \in T : B = Below(x)
  BY <1>3
<1>5. ASSUME NEW y \in T, y < x PROVE FALSE
  <2>1. Below(y) \subseteq Below(x) /\ y \in Below(x) /\ y \notin Below(y)
    <3>1. \A z \in T : z \in Nat
      OBVIOUS
    <3>2. \A z \in T : z < y => z < x
      BY <1>5, <3>1
    <3>3. ~ (y < y)
      BY <3>1
    <3> QED BY <1>5, <3>2, <3>3, Zenon
  <2>2. <<Below(y), Below(x)>> \in R
    BY <2>1 DEF StrictSubsetOrdering
  <2> QED BY <1>3, <1>4, <2>2
<1> QED BY <1>5

\* ... and a last one.
LEMMA Last ==
    ASSUME NEW m \in Nat, NEW T, T \subseteq 0..m, T # {}
    PROVE  \E x \in T : \A y \in T : y <= x
<1> DEFINE U == {m - x : x \in T}
<1>1. U \subseteq 0..m /\ U # {}
  <2>1. \A x \in T : x \in 0..m
    OBVIOUS
  <2>2. \A x \in T : m - x \in 0..m
    BY <2>1
  <2> QED BY <2>2
<1>2. PICK u \in U : \A v \in U : u <= v
  <2> HIDE DEF U
  <2> QED BY <1>1, First
<1>3. PICK x \in T : u = m - x
  BY <1>2
<1>4. \A y \in T : m - x <= m - y
  BY <1>2, <1>3
<1> QED BY <1>3, <1>4

\* position_gap_ranges misses no hole: a position that is not covered and lies
\* between two that are is in one of its ranges.
LEMMA HolesAreGaps ==
    ASSUME coverage \subseteq Pos, NEW p \in Pos \ coverage,
           NEW a \in coverage, NEW b \in coverage, a <= p, p <= b
    PROVE  p \in GapPositions
<1> DEFINE Below == {q \in coverage : q < p}
           Above == {q \in coverage : q > p}
<1>1. MaxPos \in Nat /\ \A q \in coverage : q \in 1..MaxPos
  BY PositionAssumption DEF Pos
<1>2. p \in Nat /\ p # a /\ p # b
  BY DEF Pos
<1>3. a \in Below /\ b \in Above
  BY <1>1, <1>2
<1>4. Below \subseteq 0..MaxPos /\ Above \subseteq 0..MaxPos
  <2>1. \A q \in coverage : q \in 0..MaxPos
    BY <1>1
  <2> QED BY <2>1
<1>5. PICK lo \in Below : \A q \in Below : q <= lo
  <2> HIDE DEF Below
  <2> QED BY <1>1, <1>3, <1>4, Last
<1>6. PICK hi \in Above : \A q \in Above : hi <= q
  <2> HIDE DEF Above
  <2> QED BY <1>1, <1>3, <1>4, First
<1>7. <<lo + 1, hi - 1>> \in GapRanges
  <2>1. hi - lo > 1
    BY <1>1, <1>2, <1>5, <1>6
  <2>2. \A q \in coverage : q <= lo \/ q >= hi
    <3>1. \A q \in coverage : q \in Below \/ q \in Above
      BY <1>1, <1>2
    <3> QED BY <1>5, <1>6, <3>1
  <2>3. <<lo, hi>> \in {ab \in coverage \X coverage :
              ab[2] - ab[1] > 1 /\ \A q \in coverage : q <= ab[1] \/ q >= ab[2]}
    BY <2>1, <2>2
  <2> QED BY <2>3 DEF GapRanges
<1>8. p \in (lo + 1)..(hi - 1)
  BY <1>1, <1>2, <1>5, <1>6
<1> QED BY <1>7, <1>8 DEF GapPositions
-----------------------------------------------------------------------------
(* Types                                                                     *)

\* The chunks of a range of positions are ranges of positions.
LEMMA ChunksType ==
    ASSUME NEW first \in Pos, NEW end \in Pos
    PROVE  Chunks(first, end) \subseteq Pos \X Pos
<1> SUFFICES ASSUME NEW c \in first..end
             PROVE  <<c, Smaller(end, c + ChunkSize - 1)>> \in Pos \X Pos
  BY DEF Chunks
<1>1. MaxPos \in Nat /\ ChunkSize \in Nat /\ ChunkSize >= 1
  BY PositionAssumption
<1> QED BY <1>1 DEF Pos, Smaller

\* Every range position_gap_ranges returns lies within the chat's positions.
LEMMA RangesType ==
    ASSUME coverage \subseteq Pos, NEW g \in KnownRanges
    PROVE  g[1] \in Pos /\ g[2] \in Pos
<1>1. MaxPos \in Nat
  BY PositionAssumption
<1>2. PICK n \in coverage \X coverage : n[2] - n[1] > 1 /\ g = <<n[1] + 1, n[2] - 1>>
  BY DEF KnownRanges, GapRanges
<1>3. n[1] \in 1..MaxPos /\ n[2] \in 1..MaxPos
  BY <1>2 DEF Pos
<1>4. n[1] + 1 \in 1..MaxPos /\ n[2] - 1 \in 1..MaxPos
  BY <1>1, <1>2, <1>3
<1> QED BY <1>2, <1>4 DEF Pos

\* Scheduling a gap, asking, pulling and settling keep the types.
LEMMA TypeStep ==
    ASSUME TypeOK, [Next]_vars
    PROVE  TypeOK'
<1> USE DEF TypeOK
<1>0. MaxPos \in Nat /\ Pos = 1..MaxPos
  BY PositionAssumption DEF Pos
<1> DEFINE Tables == /\ last' \in 0..MaxPos /\ lastRecovered' \in 0..MaxPos
                     /\ coverage' \subseteq Pos /\ recovered' \subseteq Pos /\ kept' \subseteq Pos
           Steps == /\ step' \in [Reader -> {"idle", "pull", "read", "keep", "settle"}]
                    /\ cur' \in [Reader -> 0..MaxPos]
                    /\ \A r \in Reader : step'[r] \in {"keep", "settle"} => cur'[r] # 0
           Queues == /\ todo' \in [Repairer -> SUBSET Pos]
                     /\ gaps' \subseteq Pos \X Pos /\ plan' \subseteq Pos \X Pos
                     /\ started' \in BOOLEAN
<1>1. ASSUME NEW r \in Reader, NEW s \in {"idle", "pull", "read", "keep", "settle"},
             NEW p \in 0..MaxPos, Proceed(r, s, p), s \in {"keep", "settle"} => p # 0
      PROVE  Steps
  BY <1>1 DEF Proceed
<1>2. UNCHANGED <<step, cur>> => Steps
  OBVIOUS
<1>3. ASSUME NEW p \in Pos PROVE RecordPosition(p) \/ RecordIgnored(p) => Tables
  <2>1. Larger(last, p) \in 0..MaxPos
    BY <1>0, <1>3 DEF Larger
  <2> QED BY <1>3, <2>1 DEF RecordPosition, RecordIgnored
<1>4. UNCHANGED tables => Tables
  BY DEF tables
<1>5. UNCHANGED repair => Queues
  BY DEF repair
<1>6. ASSUME NEW h \in Live, NEW p \in Pos, NEW recording \in BOOLEAN, Frame(h, p, recording)
      PROVE  TypeOK'
  <2>1. OpenedBy(p) \subseteq Pos \X Pos
    <3>1. CASE last # 0 /\ p > last + 1
      <4>1. last + 1 \in Pos /\ p - 1 \in Pos
        BY <1>0, <3>1
      <4> QED BY <3>1, <4>1, ChunksType DEF OpenedBy
    <3>2. CASE ~(last # 0 /\ p > last + 1)
      BY <3>2 DEF OpenedBy
    <3> QED BY <3>1, <3>2
  <2>2. Steps
    BY <1>0, <1>1, <1>2, <1>6 DEF Frame, Reader
  <2> QED BY <1>3, <1>4, <1>6, <2>1, <2>2 DEF Frame
<1>7. ASSUME NEW h \in Live, NEW p \in Pos, FrameIgnored(h, p)
      PROVE  TypeOK'
  BY <1>2, <1>3, <1>5, <1>7 DEF FrameIgnored
<1>8. ASSUME NEW r \in Reader, Keep(r) \/ KeepFails(r)
      PROVE  TypeOK'
  <2>1. cur[r] \in Pos
    BY <1>0, <1>8 DEF Keep, KeepFails
  <2>2. Steps
    BY <1>0, <1>1, <1>8, <2>1 DEF Keep, KeepFails, AfterKeep
  <2> QED BY <1>4, <1>5, <1>8, <2>1, <2>2 DEF Keep, KeepFails
<1>9. ASSUME NEW r \in Repairer, Repairing(r)
      PROVE  TypeOK'
  <2>1. r \in Reader
    BY DEF Reader
  <2>2. ASSUME NEW got \in SUBSET todo[r], Pull(r, got) PROVE TypeOK'
    <3>1. Steps
      BY <1>0, <1>1, <2>1, <2>2 DEF Pull
    <3> QED BY <1>4, <2>2, <3>1 DEF Pull
  <2>3. ASSUME NEW p \in todo[r], NEW recording \in BOOLEAN, ReadNext(r, p, recording)
        PROVE  TypeOK'
    <3>1. p \in Pos
      OBVIOUS
    <3>2. Steps
      BY <1>0, <1>1, <1>2, <2>1, <2>3, <3>1 DEF ReadNext
    <3>3. Tables
      BY <1>3, <1>4, <2>3, <3>1 DEF ReadNext
    <3> QED BY <2>3, <3>2, <3>3 DEF ReadNext
  <2>4. CASE Settle(r) \/ SettleFails(r)
    <3>1. cur[r] \in Pos
      BY <1>0, <2>1, <2>4 DEF Settle, SettleFails
    <3>2. Steps
      BY <1>0, <1>1, <2>1, <2>4 DEF Settle, SettleFails
    <3>3. Tables
      <4>1. cur[r] \in 0..MaxPos
        BY <2>1
      <4> QED BY <1>4, <2>4, <3>1, <4>1 DEF Settle, SettleFails
    <3> QED BY <1>5, <2>4, <3>2, <3>3 DEF Settle, SettleFails
  <2>5. CASE Finish(r)
    <3>1. Steps
      BY <1>0, <1>1, <2>1, <2>5 DEF Finish
    <3> QED BY <1>4, <1>5, <2>5, <3>1 DEF Finish
  <2> QED BY <1>9, <2>2, <2>3, <2>4, <2>5 DEF Repairing
<1>10. ASSUME NEW r \in Repairer, NEW positions \in SUBSET Pos, Ask(r, positions)
       PROVE  Steps /\ todo' \in [Repairer -> SUBSET Pos]
  BY <1>0, <1>1, <1>10 DEF Ask, Reader
<1>11. CASE Asking
  <2>1. ASSUME NEW chunk \in Pos \X Pos PROVE chunk[1]..chunk[2] \in SUBSET Pos
    BY <1>0
  <2>2. ASSUME NEW r \in GapTask, NEW chunk \in gaps, AskGap(r, chunk) PROVE TypeOK'
    BY <1>4, <1>10, <2>1, <2>2 DEF AskGap, Repairer
  <2>3. ASSUME NEW r \in TailTask, AskTail(r) PROVE TypeOK'
    BY <1>4, <1>10, <2>3 DEF AskTail, Repairer
  <2>4. CASE ReadKnownGaps
    <3>1. \A g \in KnownRanges : Chunks(g[1], g[2]) \subseteq Pos \X Pos
      BY RangesType, ChunksType
    <3>2. plan' \subseteq Pos \X Pos
      BY <2>4, <3>1 DEF ReadKnownGaps
    <3> QED BY <1>2, <1>4, <2>4, <3>2 DEF ReadKnownGaps
  <2>5. ASSUME NEW chunk \in plan, AskKnownGap(chunk) PROVE TypeOK'
    BY <1>4, <1>10, <2>1, <2>5 DEF AskKnownGap, Repairer
  <2> QED BY <1>11, <2>2, <2>3, <2>4, <2>5 DEF Asking
<1>12. CASE Post
  BY <1>0, <1>2, <1>4, <1>5, <1>12 DEF Post
<1>13. CASE Restart
  <2>1. Steps
    BY <1>0, <1>13 DEF Restart
  <2> QED BY <1>4, <1>13, <2>1 DEF Restart
<1>14. CASE UNCHANGED vars
  BY <1>2, <1>4, <1>5, <1>14 DEF vars
<1> QED BY <1>6, <1>7, <1>8, <1>9, <1>11, <1>12, <1>13, <1>14 DEF Next

\* The tables, the repairs and the positions keep their types.
THEOREM RepairTypeCorrect == Spec => []TypeOK
<1>1. Init => TypeOK
  <2>1. 0 \in 0..MaxPos
    BY PositionAssumption
  <2> QED BY <2>1 DEF Init, TypeOK
<1> QED BY <1>1, TypeStep, PTL DEF Spec
-----------------------------------------------------------------------------
(* What was read back is durable                                             *)

\* A repair that is about to record a position as recovered has its row.
SettledIsKept ==
    \A r \in Repairer : step[r] = "settle" => cur[r] \in kept \cup Echo

\* on_message precedes record_recovered_position in every repair, and no step
\* removes a row.
LEMMA RecoveredStep ==
    ASSUME TypeOK, SettledIsKept, RecoveredIsKept, [Next]_vars
    PROVE  SettledIsKept' /\ RecoveredIsKept'
<1> USE DEF TypeOK
<1> DEFINE Stay == \A r \in Repairer :
                       step'[r] = "settle" => step[r] = "settle" /\ cur'[r] = cur[r]
<1>1. ASSUME Stay, kept \subseteq kept', recovered' = recovered
      PROVE  SettledIsKept' /\ RecoveredIsKept'
  BY <1>1 DEF SettledIsKept, RecoveredIsKept
<1>2. ASSUME NEW r \in Reader, NEW s, NEW p, s # "settle", Proceed(r, s, p)
      PROVE  Stay
  BY <1>2 DEF Proceed, Reader
<1>3. UNCHANGED <<step, cur>> => Stay
  OBVIOUS
<1>4. \A p : RecordPosition(p) \/ RecordIgnored(p) => UNCHANGED <<kept, recovered>>
  BY DEF RecordPosition, RecordIgnored
<1>5. ASSUME NEW h \in Live, NEW p \in Pos, NEW recording \in BOOLEAN,
             Frame(h, p, recording) \/ FrameIgnored(h, p)
      PROVE  SettledIsKept' /\ RecoveredIsKept'
  <2>1. Stay
    BY <1>2, <1>3, <1>5 DEF Frame, FrameIgnored, Reader
  <2> QED BY <1>1, <1>4, <1>5, <2>1 DEF Frame, FrameIgnored, tables
<1>6. ASSUME NEW r \in Reader, Keep(r)
      PROVE  SettledIsKept' /\ RecoveredIsKept'
  <2>1. kept' = kept \cup {cur[r]} /\ recovered' = recovered
    BY <1>6 DEF Keep
  <2>2. \A x \in Repairer : step'[x] = "settle" =>
            cur'[x] = cur[r] \/ (step[x] = "settle" /\ cur'[x] = cur[x])
    BY <1>6 DEF Keep, AfterKeep, Proceed, Reader
  <2> QED BY <2>1, <2>2 DEF SettledIsKept, RecoveredIsKept
<1>7. ASSUME NEW r \in Reader, KeepFails(r)
      PROVE  SettledIsKept' /\ RecoveredIsKept'
  <2>1. Stay
    BY <1>2, <1>7 DEF KeepFails
  <2> QED BY <1>1, <1>7, <2>1 DEF KeepFails, tables
<1>8. ASSUME NEW r \in Repairer, Repairing(r)
      PROVE  SettledIsKept' /\ RecoveredIsKept'
  <2>1. r \in Reader
    BY DEF Reader
  <2>2. ASSUME NEW p \in todo[r], NEW recording \in BOOLEAN, ReadNext(r, p, recording)
        PROVE  SettledIsKept' /\ RecoveredIsKept'
    <3>1. kept' = kept /\ recovered' = recovered
      BY <1>4, <2>2 DEF ReadNext, tables
    <3>2. CASE p \in Echo \ Ignored
      <4>1. Proceed(r, "settle", p)
        BY <2>2, <3>2 DEF ReadNext
      <4>2. \A x \in Repairer : step'[x] = "settle" =>
                cur'[x] = p \/ (step[x] = "settle" /\ cur'[x] = cur[x])
        BY <4>1 DEF Proceed, Reader
      <4> QED BY <3>1, <3>2, <4>2 DEF SettledIsKept, RecoveredIsKept
    <3>3. CASE p \notin Echo \ Ignored
      <4>1. Stay
        BY <1>2, <1>3, <2>1, <2>2, <3>3 DEF ReadNext
      <4> QED BY <1>1, <3>1, <4>1
    <3> QED BY <3>2, <3>3
  <2>3. CASE Settle(r)
    <3>1. Stay
      BY <1>2, <2>1, <2>3 DEF Settle
    <3>2. kept' = kept /\ recovered' \subseteq recovered \cup {cur[r]}
      BY <2>3 DEF Settle, tables
    <3>3. cur[r] \in kept \cup Echo
      BY <2>3 DEF Settle, SettledIsKept
    <3> QED BY <3>1, <3>2, <3>3 DEF SettledIsKept, RecoveredIsKept
  <2>4. CASE (\E got \in SUBSET todo[r] : Pull(r, got)) \/ SettleFails(r) \/ Finish(r)
    <3>1. Stay
      BY <1>2, <2>1, <2>4 DEF Pull, SettleFails, Finish
    <3> QED BY <1>1, <2>4, <3>1 DEF Pull, SettleFails, Finish, tables
  <2> QED BY <1>8, <2>2, <2>3, <2>4 DEF Repairing
<1>9. CASE Asking
  <2>1. Stay
    BY <1>2, <1>3, <1>9 DEF Asking, AskGap, AskTail, ReadKnownGaps, AskKnownGap, Ask,
                            Reader, Repairer
  <2> QED BY <1>1, <1>9, <2>1 DEF Asking, AskGap, AskTail, ReadKnownGaps, AskKnownGap, tables
<1>10. CASE Post \/ UNCHANGED vars
  BY <1>1, <1>3, <1>10 DEF Post, vars, tables
<1>11. CASE Restart
  <2>1. Stay
    BY <1>11 DEF Restart, Reader
  <2> QED BY <1>1, <1>11, <2>1 DEF Restart, tables
<1> QED BY <1>5, <1>6, <1>7, <1>8, <1>9, <1>10, <1>11 DEF Next

\* A position is closed as recovered only when its message has a row, or needs
\* none, whatever the readers do and wherever the process dies.
THEOREM RecoveredIsDurable == Spec => []RecoveredIsKept
<1> DEFINE J == TypeOK /\ SettledIsKept /\ RecoveredIsKept
<1>1. Init => SettledIsKept /\ RecoveredIsKept
  <2> SUFFICES ASSUME Init PROVE SettledIsKept /\ RecoveredIsKept
    OBVIOUS
  <2>1. \A r \in Repairer : step[r] = "idle"
    BY DEF Init, Reader
  <2> QED BY <2>1 DEF Init, SettledIsKept, RecoveredIsKept
<1>2. J /\ [Next]_vars => J'
  BY TypeStep, RecoveredStep
<1>3. J => RecoveredIsKept
  OBVIOUS
<1> QED BY <1>1, <1>2, <1>3, RepairTypeCorrect, PTL DEF Spec
-----------------------------------------------------------------------------
(* Nothing slips through between the position and the row                    *)

\* The strengthening: a covered position has its row or is in a reader's hands.
CoveredIsKept == \A p \in coverage : p \in kept \cup Echo \/ InHand(p)

\* A position enters the coverage together with its message in hand, and leaves
\* the hand only with its row, as long as no crash and no error comes between.
LEMMA CoveredStep ==
    ASSUME ~CrashInWindow, ~EnqueueFails, TypeOK, SettledIsKept, CoveredIsKept, [Next]_vars
    PROVE  CoveredIsKept'
<1> USE DEF TypeOK
<1> DEFINE HandsStay == \A r \in Reader :
                            step[r] = "keep" => step'[r] = "keep" /\ cur'[r] = cur[r]
<1>1. ASSUME HandsStay, kept \subseteq kept',
             \A p \in coverage' : p \in coverage \/ p \in kept \cup Echo \/ InHand(p)'
      PROVE  CoveredIsKept'
  BY <1>1 DEF CoveredIsKept, InHand
<1>2. ASSUME NEW r \in Reader, NEW s, NEW p, step[r] # "keep", Proceed(r, s, p)
      PROVE  HandsStay
  BY <1>2 DEF Proceed
<1>3. ASSUME NEW r \in Reader, NEW p, Proceed(r, "keep", p)
      PROVE  InHand(p)'
  BY <1>3 DEF Proceed, InHand
<1>4. UNCHANGED <<step, cur>> => HandsStay
  OBVIOUS
<1>5. \A p : RecordPosition(p) => kept' = kept /\ coverage' = coverage \cup {p}
  BY DEF RecordPosition
<1>6. \A p : RecordIgnored(p) => kept' = kept /\ coverage' = coverage
  BY DEF RecordIgnored
<1>7. ASSUME NEW h \in Live, NEW p \in Pos, NEW recording \in BOOLEAN, Frame(h, p, recording)
      PROVE  CoveredIsKept'
  <2>1. h \in Reader
    BY DEF Reader
  <2>2. HandsStay
    BY <1>2, <1>4, <1>7, <2>1 DEF Frame
  <2>3. p \in Echo \/ InHand(p)'
    BY <1>3, <1>7, <2>1 DEF Frame
  <2>4. kept' = kept /\ coverage' \subseteq coverage \cup {p}
    BY <1>5, <1>7 DEF Frame, tables
  <2> QED BY <1>1, <2>2, <2>3, <2>4
<1>8. ASSUME NEW h \in Live, NEW p \in Pos, FrameIgnored(h, p)
      PROVE  CoveredIsKept'
  BY <1>1, <1>4, <1>6, <1>8 DEF FrameIgnored
<1>9. ASSUME NEW r \in Reader, Keep(r) \/ KeepFails(r)
      PROVE  CoveredIsKept'
  <2>1. Keep(r)
    BY <1>9 DEF KeepFails
  <2>2. kept' = kept \cup {cur[r]} /\ coverage' \subseteq coverage \cup {cur[r]}
    BY <2>1 DEF Keep
  <2>3. \A x \in Reader : x # r => step'[x] = step[x] /\ cur'[x] = cur[x]
    BY <2>1 DEF Keep, AfterKeep, Proceed
  <2> QED BY <2>2, <2>3 DEF CoveredIsKept, InHand
<1>10. ASSUME NEW r \in Repairer, Repairing(r)
       PROVE  CoveredIsKept'
  <2>1. r \in Reader
    BY DEF Reader
  <2>2. ASSUME NEW p \in todo[r], NEW recording \in BOOLEAN, ReadNext(r, p, recording)
        PROVE  CoveredIsKept'
    <3>1. HandsStay
      BY <1>2, <1>4, <2>1, <2>2 DEF ReadNext
    <3>2. CASE p \in Ignored
      BY <1>1, <1>6, <2>2, <3>1, <3>2 DEF ReadNext, tables
    <3>3. CASE p \notin Ignored
      <4>1. p \in Echo \/ InHand(p)'
        BY <1>3, <2>1, <2>2, <3>3 DEF ReadNext
      <4>2. kept' = kept /\ coverage' \subseteq coverage \cup {p}
        BY <1>5, <2>2, <3>3 DEF ReadNext, tables
      <4> QED BY <1>1, <3>1, <4>1, <4>2
    <3> QED BY <3>2, <3>3
  <2>3. CASE Settle(r)
    <3>1. HandsStay
      BY <1>2, <2>1, <2>3 DEF Settle
    <3>2. kept' = kept /\ coverage' \subseteq coverage \cup {cur[r]}
      BY <2>3 DEF Settle, tables
    <3>3. cur[r] \in kept \cup Echo
      BY <2>3 DEF Settle, SettledIsKept
    <3> QED BY <1>1, <3>1, <3>2, <3>3
  <2>4. CASE (\E got \in SUBSET todo[r] : Pull(r, got)) \/ SettleFails(r) \/ Finish(r)
    <3>1. HandsStay
      BY <1>2, <2>1, <2>4 DEF Pull, SettleFails, Finish
    <3> QED BY <1>1, <2>4, <3>1 DEF Pull, SettleFails, Finish, tables
  <2> QED BY <1>10, <2>2, <2>3, <2>4 DEF Repairing
<1>11. CASE Asking
  <2>1. HandsStay
    BY <1>2, <1>4, <1>11 DEF Asking, AskGap, AskTail, ReadKnownGaps, AskKnownGap, Ask,
                             Reader, Repairer
  <2> QED BY <1>1, <1>11, <2>1 DEF Asking, AskGap, AskTail, ReadKnownGaps, AskKnownGap, tables
<1>12. CASE Post \/ UNCHANGED vars
  BY <1>1, <1>4, <1>12 DEF Post, vars, tables
<1>13. CASE Restart
  <2>1. HandsStay
    BY <1>13 DEF Restart
  <2> QED BY <1>1, <1>13, <2>1 DEF Restart, tables
<1> QED BY <1>7, <1>8, <1>9, <1>10, <1>11, <1>12, <1>13 DEF Next

\* Unless the process dies, or the spool fails, between a message's position and
\* its row, every message between two the bridge has seen is durable, in hand,
\* or in a range position_gap_ranges derives from the tables.
THEOREM NoMessageSlips ==
    ASSUME ~CrashInWindow, ~EnqueueFails PROVE Spec => []NothingSlipsThrough
<1> DEFINE J == TypeOK /\ SettledIsKept /\ RecoveredIsKept /\ CoveredIsKept
<1>1. Init => SettledIsKept /\ RecoveredIsKept /\ CoveredIsKept
  <2> SUFFICES ASSUME Init PROVE SettledIsKept /\ RecoveredIsKept /\ CoveredIsKept
    OBVIOUS
  <2>1. \A r \in Repairer : step[r] = "idle"
    BY DEF Init, Reader
  <2> QED BY <2>1 DEF Init, SettledIsKept, RecoveredIsKept, CoveredIsKept
<1>2. J /\ [Next]_vars => J'
  BY TypeStep, RecoveredStep, CoveredStep
<1>3. J => NothingSlipsThrough
  <2> SUFFICES ASSUME J, NEW p \in Pos \ (Echo \cup Ignored),
                      NEW a \in coverage, NEW b \in coverage, a <= p, p <= b
               PROVE  p \in kept \/ InHand(p) \/ p \in GapPositions
    BY DEF NothingSlipsThrough
  <2>1. CASE p \in coverage
    BY <2>1 DEF CoveredIsKept
  <2>2. CASE p \notin coverage
    BY <2>2, HolesAreGaps DEF TypeOK
  <2> QED BY <2>1, <2>2
<1> QED BY <1>1, <1>2, <1>3, RepairTypeCorrect, PTL DEF Spec
=============================================================================
