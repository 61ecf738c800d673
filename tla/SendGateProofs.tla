--------------------------- MODULE SendGateProofs ---------------------------
(***************************************************************************)
(* Proofs about SendGate, for any number of requests, keys, chats, rows    *)
(* and clock readings, with errors of the database anywhere.  Limits and   *)
(* keys need to know which results a row under way can have (OpenRows);    *)
(* that what landed is not sent again needs in addition that a key is used *)
(* again only after a failure (KeyKept), and that what landed and failed   *)
(* has raised (FailedIsLost).                                              *)
(***************************************************************************)
EXTENDS SendGate, FiniteSetTheorems, TLAPS

-----------------------------------------------------------------------------
(* Types                                                                   *)

\* The rows of the table are rows.
LEMMA RowFacts ==
    ASSUME audit \in Seq(Row)
    PROVE  /\ Len(audit) \in Nat
           /\ \A i \in 1..Len(audit) : audit[i] \in Row /\ audit[i].at \in Int
<1>1. Len(audit) \in Nat /\ \A i \in 1..Len(audit) : audit[i] \in Row
  OBVIOUS
<1>2. \A r \in Row : r.at \in Int
  BY WindowAssumption DEF Row, Time
<1> QED BY <1>1, <1>2

\* Overwriting the result of a row changes nothing else of it.
LEMMA ResultType ==
    ASSUME NEW r \in Row, NEW s \in Counted \cup {"failed"}
    PROVE  LET q == [r EXCEPT !.result = s] IN
           /\ q \in Row /\ q.result = s
           /\ q.key = r.key /\ q.chat = r.chat /\ q.text = r.text /\ q.at = r.at
BY DEF Row

\* An audit table that a second start went over has the same rows but for the
\* pending ones.
LEMMA DisownedType ==
    ASSUME audit \in Seq(Row)
    PROVE  /\ Disowned \in Seq(Row)
           /\ Len(Disowned) = Len(audit)
           /\ \A i \in 1..Len(audit) :
                /\ Disowned[i].key = audit[i].key /\ Disowned[i].chat = audit[i].chat
                /\ Disowned[i].text = audit[i].text /\ Disowned[i].at = audit[i].at
                /\ Disowned[i].result =
                    IF audit[i].result = "pending" THEN "unknown" ELSE audit[i].result
<1> DEFINE D(i) == IF audit[i].result = "pending" THEN [audit[i] EXCEPT !.result = "unknown"]
                                                  ELSE audit[i]
<1>0. audit \in Seq(Row)
  OBVIOUS
<1>1. ASSUME NEW i \in 1..Len(audit) PROVE D(i) \in Row
  BY <1>0, RowFacts, ResultType DEF Counted
<1>2. Len(audit) \in Nat
  OBVIOUS
<1>3. Disowned = [i \in 1..Len(audit) |-> D(i)]
  BY DEF Disowned
<1> HIDE DEF D
<1>4. Disowned \in Seq(Row) /\ Len(Disowned) = Len(audit)
  BY <1>1, <1>2, <1>3
<1>5. ASSUME NEW i \in 1..Len(audit)
      PROVE  /\ Disowned[i].key = audit[i].key /\ Disowned[i].chat = audit[i].chat
             /\ Disowned[i].text = audit[i].text /\ Disowned[i].at = audit[i].at
             /\ Disowned[i].result =
                    IF audit[i].result = "pending" THEN "unknown" ELSE audit[i].result
  <2>1. audit[i] \in Row
    OBVIOUS
  <2>2. Disowned[i] = D(i)
    BY <1>3
  <2> QED BY <2>1, <2>2, ResultType DEF D, Counted
<1> QED BY <1>4, <1>5

\* An admission adds a pending row to the table.
LEMMA AdmitFacts ==
    ASSUME audit \in Seq(Row), NEW c \in Caller, NEW k \in Key \cup {NoKey}, NEW chat \in Chat,
           NEW text \in Text, NEW t \in Time, Admit(c, k, chat, text, t)
    PROVE  /\ audit' \in Seq(Row)
           /\ Len(audit) \in Nat /\ Len(audit') = Len(audit) + 1
           /\ \A i \in 1..Len(audit) : audit'[i] = audit[i]
           /\ audit' = Append(audit, audit'[Len(audit) + 1])
           /\ audit'[Len(audit) + 1] \in Row
           /\ audit'[Len(audit) + 1].key = k /\ audit'[Len(audit) + 1].chat = chat
           /\ audit'[Len(audit) + 1].at = t /\ audit'[Len(audit) + 1].result = "pending"
<1> DEFINE new == [key |-> k, chat |-> chat, text |-> text, at |-> t, result |-> "pending"]
<1>1. new \in Row
  BY DEF Row, Counted
<1>2. new.key = k /\ new.chat = chat /\ new.at = t /\ new.result = "pending"
  OBVIOUS
<1>3. audit' = Append(audit, new) /\ audit \in Seq(Row)
  BY DEF Admit
<1> HIDE DEF new
<1>4. /\ audit' \in Seq(Row) /\ Len(audit) \in Nat /\ Len(audit') = Len(audit) + 1
      /\ \A i \in 1..Len(audit) : audit'[i] = audit[i]
      /\ audit'[Len(audit) + 1] = new
  BY <1>1, <1>3
<1> QED BY <1>1, <1>2, <1>3, <1>4

\* finish changes the result of its own row, to a final one, and nothing else.
LEMMA SettledFacts ==
    ASSUME audit \in Seq(Row), NEW c \in Caller, id[c] \in 1..Len(audit)
    PROVE  /\ Settled(c) \in Seq(Row) /\ Len(Settled(c)) = Len(audit)
           /\ \A i \in 1..Len(audit) : i # id[c] => Settled(c)[i] = audit[i]
           /\ Settled(c)[id[c]].chat = audit[id[c]].chat
           /\ Settled(c)[id[c]].at = audit[id[c]].at
           /\ Settled(c)[id[c]].key = audit[id[c]].key
           /\ Settled(c)[id[c]].result = IF pc[c] = "acknowledged" THEN "accepted" ELSE "failed"
<1> DEFINE r == IF pc[c] = "acknowledged" THEN "accepted" ELSE "failed"
<1>1. r \in Counted \cup {"failed"}
  BY DEF Counted
<1>2. audit[id[c]] \in Row
  OBVIOUS
<1>3. Settled(c) = [audit EXCEPT ![id[c]] = [@ EXCEPT !.result = r]]
  BY DEF Settled
<1> HIDE DEF r
<1> DEFINE q == [audit[id[c]] EXCEPT !.result = r]
<1>4. /\ q \in Row /\ q.result = r
      /\ q.key = audit[id[c]].key /\ q.chat = audit[id[c]].chat /\ q.at = audit[id[c]].at
  BY <1>1, <1>2, ResultType
<1>5. Settled(c) = [audit EXCEPT ![id[c]] = q]
  BY <1>3
<1> HIDE DEF q
<1>6. /\ Settled(c) \in Seq(Row) /\ Len(Settled(c)) = Len(audit)
      /\ \A i \in 1..Len(audit) : i # id[c] => Settled(c)[i] = audit[i]
      /\ Settled(c)[id[c]] = q
  BY <1>4, <1>5
<1> QED BY <1>4, <1>6 DEF r

\* One step of the gate keeps the types.
LEMMA TypeStep == TypeOK /\ [Next]_vars => TypeOK'
<1> SUFFICES ASSUME TypeOK, [Next]_vars PROVE TypeOK'
  OBVIOUS
<1>0. audit \in Seq(Row) /\ Len(audit) \in Nat
  BY DEF TypeOK
<1>1. CASE UNCHANGED vars
  BY <1>1 DEF TypeOK, vars, messageVars
<1>2. ASSUME NEW c \in Caller, NEW k \in Key \cup {NoKey}, NEW chat \in Chat, NEW text \in Text,
             NEW t \in Time, Begin(c, k, chat, text, t) \/ BeginRaises(c, k, chat, text, t)
      PROVE  TypeOK'
  <2>1. Admit(c, k, chat, text, t)
    BY <1>2 DEF Begin, BeginRaises
  <2>2. audit' \in Seq(Row) /\ Len(audit') = Len(audit) + 1
    BY <1>0, <2>1, AdmitFacts
  <2>3. /\ landed' \in SUBSET (1..Len(audit')) /\ lost' \in SUBSET landed'
        /\ unsettled' \in SUBSET (1..Len(audit'))
    <3>1. landed' = landed /\ lost' = lost
      BY <2>1 DEF Admit, messageVars
    <3>2. unsettled' \subseteq unsettled \cup {Len(audit) + 1}
      BY <1>2 DEF Begin, BeginRaises
    <3> QED BY <1>0, <2>2, <3>1, <3>2 DEF TypeOK
  <2>4. /\ pc' \in [Caller -> {"idle", "send", "acknowledged", "raised"}]
        /\ id' \in [Caller -> 0..Len(audit')]
        /\ \A d \in Caller : pc'[d] # "idle" => id'[d] # 0
    BY <1>0, <1>2, <2>2 DEF Begin, BeginRaises, TypeOK
  <2> QED BY <2>2, <2>3, <2>4 DEF TypeOK
<1>3. ASSUME NEW c \in Caller, SendAcknowledged(c) \/ SendRaised(c)
      PROVE  TypeOK'
  <2>1. pc[c] = "send" /\ audit' = audit /\ id' = id /\ unsettled' = unsettled
    BY <1>3 DEF SendAcknowledged, SendRaised
  <2>2. id[c] \in 1..Len(audit)
    BY <1>0, <2>1 DEF TypeOK
  <2>3. \E s \in {"acknowledged", "raised"} : pc' = [pc EXCEPT ![c] = s]
    BY <1>3 DEF SendAcknowledged, SendRaised
  <2>4. landed' \in SUBSET (1..Len(audit)) /\ lost' \in SUBSET landed'
    BY <1>3, <2>2 DEF SendAcknowledged, SendRaised, messageVars, TypeOK
  <2> QED BY <2>1, <2>2, <2>3, <2>4 DEF TypeOK
<1>4. ASSUME NEW c \in Caller, Finish(c) \/ FinishRaises(c)
      PROVE  TypeOK'
  <2>1. Leave(c) /\ audit' \in {audit, Settled(c)}
    BY <1>4 DEF Finish, FinishRaises
  <2>2. id[c] \in 1..Len(audit)
    BY <1>0, <2>1 DEF Leave, TypeOK
  <2>3. audit' \in Seq(Row) /\ Len(audit') = Len(audit)
    BY <1>0, <2>1, <2>2, SettledFacts
  <2>4. unsettled' \in SUBSET (1..Len(audit))
    BY <1>4, <2>2 DEF Finish, FinishRaises, TypeOK
  <2> QED BY <2>1, <2>2, <2>3, <2>4 DEF Leave, messageVars, TypeOK
<1>5. CASE Restart
  <2>1. audit' \in Seq(Row) /\ Len(audit') = Len(audit)
    BY <1>0, <1>5, DisownedType DEF Restart
  <2>2. \A c \in Caller : pc[c] = "send" => id[c] \in 1..Len(audit)
    BY <1>0 DEF TypeOK
  <2>3. landed' \in SUBSET (1..Len(audit)) /\ lost' \in SUBSET landed'
    BY <1>5, <2>2 DEF Restart, Died, TypeOK
  <2> QED BY <1>5, <2>1, <2>3 DEF Restart, Died, TypeOK
<1>6. CASE SecondStart
  BY <1>6, DisownedType DEF SecondStart, messageVars, TypeOK
<1> QED BY <1>1, <1>2, <1>3, <1>4, <1>5, <1>6 DEF Next

\* The gate's tables and threads keep their types: in particular each request
\* under way has a row.
THEOREM GateTypeCorrect == Spec => []TypeOK
<1>1. Init => TypeOK
  BY DEF Init, TypeOK
<1> QED BY <1>1, TypeStep, PTL DEF Spec

-----------------------------------------------------------------------------
(* The limits                                                              *)

\* What a step may do to the table: only begin adds a row, and no step makes a
\* row count that did not.
RowsKept ==
    \A i \in 1..Len(audit) :
        /\ audit'[i].chat = audit[i].chat /\ audit'[i].at = audit[i].at
        /\ audit'[i].key = audit[i].key
        /\ audit'[i].result \in Counted => audit[i].result \in Counted

\* Invariant: a request that is not idle works on a row of its own that is
\* pending, or that a second start made unknown.
OpenRows ==
    /\ \A c \in Caller : pc[c] # "idle" => audit[id[c]].result \in {"pending", "unknown"}
    /\ \A c, d \in Caller : pc[c] # "idle" /\ pc[d] # "idle" /\ id[c] = id[d] => c = d

\* Requests work on rows of their own, whose result is open.
LEMMA OpenRowsStep == TypeOK /\ OpenRows /\ [Next]_vars => OpenRows'
<1> SUFFICES ASSUME TypeOK, OpenRows, [Next]_vars PROVE OpenRows'
  OBVIOUS
<1>0. /\ audit \in Seq(Row) /\ Len(audit) \in Nat
      /\ \A d \in Caller : pc[d] # "idle" => id[d] \in 1..Len(audit)
  BY DEF TypeOK
<1>1. CASE UNCHANGED vars
  BY <1>1 DEF OpenRows, vars
<1>2. ASSUME NEW c \in Caller, NEW k \in Key \cup {NoKey}, NEW chat \in Chat, NEW text \in Text,
             NEW t \in Time, Begin(c, k, chat, text, t) \/ BeginRaises(c, k, chat, text, t)
      PROVE  OpenRows'
  <2>1. Admit(c, k, chat, text, t)
    BY <1>2 DEF Begin, BeginRaises
  <2>2. /\ \A i \in 1..Len(audit) : audit'[i] = audit[i]
        /\ audit'[Len(audit) + 1].result = "pending"
    BY <1>0, <2>1, AdmitFacts
  <2>3. CASE BeginRaises(c, k, chat, text, t)
    BY <1>0, <2>2, <2>3 DEF BeginRaises, OpenRows
  <2>4. CASE Begin(c, k, chat, text, t)
    <3>1. pc' = [pc EXCEPT ![c] = "send"] /\ id' = [id EXCEPT ![c] = Len(audit) + 1]
      BY <2>4 DEF Begin
    <3> QED BY <1>0, <2>2, <3>1 DEF OpenRows, TypeOK
  <2> QED BY <1>2, <2>3, <2>4
<1>3. ASSUME NEW c \in Caller, SendAcknowledged(c) \/ SendRaised(c)
      PROVE  OpenRows'
  BY <1>3 DEF SendAcknowledged, SendRaised, OpenRows, TypeOK
<1>4. ASSUME NEW c \in Caller, Finish(c) \/ FinishRaises(c)
      PROVE  OpenRows'
  <2>1. Leave(c) /\ audit' \in {audit, Settled(c)}
    BY <1>4 DEF Finish, FinishRaises
  <2>2. pc[c] # "idle" /\ id[c] \in 1..Len(audit)
    BY <1>0, <2>1 DEF Leave
  <2>3. \A i \in 1..Len(audit) : i # id[c] => audit'[i] = audit[i]
    BY <1>0, <2>1, <2>2, SettledFacts
  <2>4. pc' = [pc EXCEPT ![c] = "idle"] /\ id' = [id EXCEPT ![c] = 0]
    BY <2>1 DEF Leave
  <2> QED BY <1>0, <2>2, <2>3, <2>4 DEF OpenRows, TypeOK
<1>5. CASE Restart
  BY <1>5 DEF Restart, Died, OpenRows, TypeOK
<1>6. CASE SecondStart
  <2>1. audit' = Disowned /\ pc' = pc /\ id' = id
    BY <1>6 DEF SecondStart
  <2>2. \A i \in 1..Len(audit) : audit[i].result \in {"pending", "unknown"} =>
            audit'[i].result \in {"pending", "unknown"}
    BY <1>0, <2>1, DisownedType
  <2> QED BY <1>0, <2>1, <2>2 DEF OpenRows
<1> QED BY <1>1, <1>2, <1>3, <1>4, <1>5, <1>6 DEF Next

Admission == \E c \in Caller, k \in Key \cup {NoKey}, chat \in Chat, text \in Text, t \in Time :
                Admit(c, k, chat, text, t)

\* Every step but an admission keeps the rows: it adds none, and a row's result
\* never comes back into the count, or back from failed.
LEMMA OtherStepsKeepRows ==
    ASSUME TypeOK, OpenRows, [Next]_vars, ~Admission
    PROVE  Len(audit') = Len(audit) /\ RowsKept
<1>0. audit \in Seq(Row) /\ Len(audit) \in Nat
  BY DEF TypeOK
<1>1. CASE UNCHANGED vars
  BY <1>1 DEF vars, RowsKept
<1>2. ASSUME NEW c \in Caller, SendAcknowledged(c) \/ SendRaised(c)
      PROVE  Len(audit') = Len(audit) /\ RowsKept
  BY <1>2 DEF SendAcknowledged, SendRaised, RowsKept
<1>3. ASSUME NEW c \in Caller, Finish(c) \/ FinishRaises(c)
      PROVE  Len(audit') = Len(audit) /\ RowsKept
  <2>1. Leave(c) /\ audit' \in {audit, Settled(c)}
    BY <1>3 DEF Finish, FinishRaises
  <2>2. id[c] \in 1..Len(audit) /\ audit[id[c]].result \in Counted
    BY <2>1 DEF Leave, TypeOK, OpenRows, Counted
  <2>3. CASE audit' = audit
    BY <2>3 DEF RowsKept
  <2>4. CASE audit' = Settled(c)
    BY <1>0, <2>2, <2>4, SettledFacts DEF RowsKept
  <2> QED BY <2>1, <2>3, <2>4
<1>4. CASE Restart \/ SecondStart
  BY <1>4, DisownedType DEF Restart, SecondStart, RowsKept, TypeOK, Counted
<1>5. ASSUME NEW c \in Caller, NEW k \in Key \cup {NoKey}, NEW chat \in Chat, NEW text \in Text,
             NEW t \in Time, Begin(c, k, chat, text, t) \/ BeginRaises(c, k, chat, text, t)
      PROVE  FALSE
  BY <1>5 DEF Begin, BeginRaises, Admission
<1> QED BY <1>1, <1>2, <1>3, <1>4, <1>5 DEF Next

\* The rows of a window are finitely many.
LEMMA WindowFinite ==
    ASSUME TypeOK, NEW chats, NEW from
    PROVE  IsFiniteSet(InUse(chats, from))
<1>1. IsFiniteSet(1..Len(audit))
  BY FS_Interval DEF TypeOK
<1> QED BY <1>1, FS_Subset DEF InUse

\* A step that keeps the rows adds nothing to a window.
LEMMA WindowShrinks ==
    ASSUME TypeOK, Len(audit') = Len(audit), RowsKept, NEW chats, NEW from, NEW to
    PROVE  Cardinality(Between(chats, from, to)') <= Cardinality(Between(chats, from, to))
<1>1. Between(chats, from, to)' \subseteq Between(chats, from, to)
  BY DEF Between, InUse, RowsKept, TypeOK
<1>2. IsFiniteSet(Between(chats, from, to))
  BY WindowFinite, FS_Subset DEF Between
<1> QED BY <1>1, <1>2, FS_Subset

\* An admission at time t adds its row to the windows around t, and what such a
\* window of width W held the admission has counted.
LEMMA WindowGrows ==
    ASSUME TypeOK, NEW chats, NEW from \in Time, NEW W \in Nat, NEW N \in Nat,
           NEW new \in Row, audit' = Append(audit, new),
           Cardinality(Between(chats, from, from + W)) <= N,
           new.chat \in chats => Cardinality(InUse(chats, new.at - W)) < N
    PROVE  Cardinality(Between(chats, from, from + W)') <= N
<1> DEFINE B == Between(chats, from, from + W)
           n == Len(audit) + 1
<1>1. /\ Len(audit) \in Nat /\ Len(audit') = n
      /\ \A i \in 1..Len(audit) : audit'[i] = audit[i]
      /\ audit'[n] = new
  BY DEF TypeOK
<1>2. new.at \in Int /\ from \in Int
  BY DEF Row, Time
<1>3. IsFiniteSet(B)
  BY WindowFinite, FS_Subset DEF Between
<1>4. CASE n \in B'
  <2>1. new.chat \in chats /\ new.at <= from + W
    BY <1>1, <1>4 DEF Between, InUse
  <2>2. B \subseteq InUse(chats, new.at - W)
    <3>1. \A i \in 1..Len(audit) : audit[i].at \in Int
      BY RowFacts DEF TypeOK
    <3> QED BY <1>2, <2>1, <3>1 DEF Between, InUse
  <2>3. B' \subseteq B \cup {n}
    BY <1>1 DEF Between, InUse
  <2>4. Cardinality(B) <= Cardinality(InUse(chats, new.at - W))
    BY <2>2, WindowFinite, FS_Subset
  <2>5. /\ Cardinality(B) \in Nat
        /\ Cardinality(InUse(chats, new.at - W)) \in Nat
    BY <1>3, WindowFinite, FS_CardinalityType
  <2>6. IsFiniteSet(B \cup {n}) /\ Cardinality(B \cup {n}) <= Cardinality(B) + 1
    <3> HIDE DEF B, n
    <3>1. /\ IsFiniteSet(B \cup {n})
          /\ \/ Cardinality(B \cup {n}) = Cardinality(B)
             \/ Cardinality(B \cup {n}) = Cardinality(B) + 1
      BY <1>3, FS_AddElement
    <3>2. Cardinality(B) \in Nat
      BY <2>5
    <3> QED BY <3>1, <3>2
  <2>7. Cardinality(B') <= Cardinality(B \cup {n}) /\ Cardinality(B \cup {n}) \in Nat
    BY <2>3, <2>6, FS_Subset, FS_CardinalityType
  <2>8. Cardinality(B') \in Nat
    BY <2>3, <2>6, FS_Subset, FS_CardinalityType
  <2> HIDE DEF B, n
  <2> QED BY <2>1, <2>4, <2>5, <2>6, <2>7, <2>8 DEF B
<1>5. CASE n \notin B'
  <2>1. B' \subseteq B
    BY <1>1, <1>5 DEF Between, InUse
  <2>2. Cardinality(B') <= Cardinality(B) /\ Cardinality(B') \in Nat /\ Cardinality(B) \in Nat
    BY <1>3, <2>1, FS_Subset, FS_CardinalityType
  <2> QED BY <2>2
<1> QED BY <1>4, <1>5

\* One step of the gate keeps every window within the limits.
LEMMA LimitsStep == TypeOK /\ OpenRows /\ WithinLimits /\ [Next]_vars => WithinLimits'
<1> SUFFICES ASSUME TypeOK, OpenRows, WithinLimits, [Next]_vars PROVE WithinLimits'
  OBVIOUS
<1>1. ASSUME NEW c \in Caller, NEW k \in Key \cup {NoKey}, NEW chat \in Chat, NEW text \in Text,
             NEW t \in Time, Admit(c, k, chat, text, t)
      PROVE  WithinLimits'
  <2> DEFINE new == audit'[Len(audit) + 1]
  <2>1. new \in Row /\ audit' = Append(audit, new) /\ new.chat = chat /\ new.at = t
    BY <1>1, AdmitFacts DEF TypeOK
  <2> HIDE DEF new
  <2>2. /\ Cardinality(InUse({chat}, t - ChatWindow)) < PerChat
        /\ Cardinality(InUse(Chat, t - GlobalWindow)) < Global
    BY <1>1 DEF Admit, WithinBudget
  <2>3. ASSUME NEW from \in Time, NEW ch \in Chat
        PROVE  Cardinality(Between({ch}, from, from + ChatWindow)') <= PerChat
    <3>1. Cardinality(Between({ch}, from, from + ChatWindow)) <= PerChat
      BY DEF WithinLimits
    <3>2. new.chat \in {ch} => Cardinality(InUse({ch}, new.at - ChatWindow)) < PerChat
      BY <2>1, <2>2
    <3> QED BY <2>1, <2>2, <3>1, <3>2, WindowGrows, WindowAssumption
  <2>4. ASSUME NEW from \in Time
        PROVE  Cardinality(Between(Chat, from, from + GlobalWindow)') <= Global
    <3>1. Cardinality(Between(Chat, from, from + GlobalWindow)) <= Global
      BY DEF WithinLimits
    <3> QED BY <2>1, <2>2, <3>1, WindowGrows, WindowAssumption
  <2> QED BY <2>3, <2>4 DEF WithinLimits
<1>2. CASE ~Admission
  <2>1. Len(audit') = Len(audit) /\ RowsKept
    BY <1>2, OtherStepsKeepRows
  <2>2. TypeOK'
    BY TypeStep
  <2>3. ASSUME NEW chats, NEW from, NEW to, NEW N \in Nat,
               Cardinality(Between(chats, from, to)) <= N
        PROVE  Cardinality(Between(chats, from, to)') <= N
    <3>1. IsFiniteSet(Between(chats, from, to))
      BY WindowFinite, FS_Subset DEF Between
    <3>2. Between(chats, from, to)' \subseteq Between(chats, from, to)
      BY <2>1 DEF Between, InUse, RowsKept, TypeOK
    <3>3. /\ Cardinality(Between(chats, from, to)') \in Nat
          /\ Cardinality(Between(chats, from, to)) \in Nat
      BY <3>1, <3>2, FS_Subset, FS_CardinalityType
    <3> QED BY <2>1, <2>3, <3>3, WindowShrinks
  <2> QED BY <2>3, WindowAssumption DEF WithinLimits
<1> QED BY <1>1, <1>2 DEF Admission

\* No window ever holds more sends than the limits allow, with any number of
\* threads, an arbitrary clock, crashes and second starts.
THEOREM LimitsHold == Spec => []WithinLimits
<1> DEFINE I == TypeOK /\ OpenRows /\ WithinLimits
<1>1. Init => I
  <2> SUFFICES ASSUME Init PROVE I
    OBVIOUS
  <2>1. TypeOK /\ OpenRows
    BY DEF Init, TypeOK, OpenRows
  <2>2. \A chats, from, to : Between(chats, from, to) = {}
    BY DEF Init, Between, InUse
  <2> QED BY <2>1, <2>2, FS_EmptySet, WindowAssumption DEF WithinLimits
<1>2. I /\ [Next]_vars => I'
  BY TypeStep, OpenRowsStep, LimitsStep
<1> QED BY <1>1, <1>2, PTL DEF Spec

-----------------------------------------------------------------------------
(* The keys                                                                *)

\* Invariant: a key is used again only once its last send is known to have
\* failed, or is forgotten.
KeyKept ==
    \A i, j \in 1..Len(audit) :
        i < j /\ FollowsInKey(i, j) /\ audit[i].result # "failed" => audit[j].at > audit[i].at + Ttl

\* One step of the gate keeps this so.
LEMMA KeyStep == TypeOK /\ OpenRows /\ KeyKept /\ [Next]_vars => KeyKept'
<1> SUFFICES ASSUME TypeOK, OpenRows, KeyKept, [Next]_vars PROVE KeyKept'
  OBVIOUS
<1>1. ASSUME NEW c \in Caller, NEW k \in Key \cup {NoKey}, NEW chat \in Chat, NEW text \in Text,
             NEW t \in Time, Admit(c, k, chat, text, t)
      PROVE  KeyKept'
  <2> DEFINE n == Len(audit) + 1
  <2>0. KeyAllows(k, chat, text, t)
    BY <1>1 DEF Admit
  <2> DEFINE new == audit'[n]
  <2>1. /\ Len(audit) \in Nat /\ Len(audit') = n
        /\ \A i \in 1..Len(audit) : audit'[i] = audit[i]
        /\ audit'[n] = new /\ new.key = k /\ new.at = t
    BY <1>1, AdmitFacts DEF TypeOK
  <2> HIDE DEF new
  <2>2. \A i \in 1..Len(audit) : audit'[i] = audit[i] /\ audit[i].at \in Int
    BY <2>1, RowFacts DEF TypeOK
  <2> SUFFICES ASSUME NEW i \in 1..n, NEW j \in 1..n,
                      i < j, FollowsInKey(i, j)', audit'[i].result # "failed"
               PROVE  audit'[j].at > audit'[i].at + Ttl
    BY <2>1 DEF KeyKept
  <2>3. CASE j # n
    <3>1. i \in 1..Len(audit) /\ j \in 1..Len(audit)
      BY <2>1, <2>3
    <3>2. FollowsInKey(i, j)
      BY <2>2, <3>1 DEF FollowsInKey
    <3> QED BY <2>1, <2>2, <3>1, <3>2 DEF KeyKept
  <2>4. CASE j = n
    <3>1. i \in 1..Len(audit)
      BY <2>1, <2>4
    <3>2. audit[i].key = k /\ k # NoKey
      BY <2>1, <2>2, <2>4, <3>1, KeyAssumption DEF FollowsInKey
    <3>3. \A m \in (i + 1)..Len(audit) : audit[m].key # k
      BY <2>1, <2>2, <2>4, <3>1, <3>2 DEF FollowsInKey
    <3>4. \A m \in Prior(k, t) : m <= i
      BY <2>1, <2>2, <3>1, <3>3 DEF Prior
    <3>5. i \notin Prior(k, t)
      BY <2>0, <2>1, <2>2, <3>1, <3>2, <3>4 DEF KeyAllows
    <3>6. ~(audit[i].at >= t - Ttl)
      BY <3>1, <3>2, <3>5 DEF Prior
    <3>7. t \in Int /\ Ttl \in Int /\ audit[i].at \in Int
      BY <2>2, <3>1, WindowAssumption DEF Time
    <3>8. audit'[j].at = t /\ audit'[i].at = audit[i].at
      BY <2>1, <2>2, <2>4, <3>1
    <3> HIDE DEF n
    <3> QED BY <3>6, <3>7, <3>8
  <2> QED BY <2>3, <2>4
<1>2. CASE ~Admission
  <2>1. Len(audit') = Len(audit) /\ RowsKept
    BY <1>2, OtherStepsKeepRows
  <2>2. TypeOK'
    BY TypeStep
  <2>3. \A i \in 1..Len(audit) : audit'[i].result # "failed" => audit[i].result # "failed"
    <3>1. \A r \in Row : r.result # "failed" <=> r.result \in Counted
      BY DEF Row, Counted
    <3>2. \A i \in 1..Len(audit) : audit[i] \in Row /\ audit'[i] \in Row
      BY <2>1, <2>2 DEF TypeOK
    <3> QED BY <2>1, <3>1, <3>2 DEF RowsKept
  <2>4. \A i, j \in 1..Len(audit) : i < j /\ FollowsInKey(i, j)' => FollowsInKey(i, j)
    BY <2>1 DEF RowsKept, FollowsInKey, TypeOK
  <2> QED BY <2>1, <2>3, <2>4 DEF KeyKept, RowsKept
<1> QED BY <1>1, <1>2 DEF Admission

\* Invariant: a message under way has not landed yet, and one that landed is
\* recorded as failed only if its call raised.
FailedIsLost ==
    /\ \A i \in landed : audit[i].result = "failed" => i \in lost
    /\ \A c \in Caller : pc[c] = "send" => id[c] \notin landed
    /\ \A c \in Caller : pc[c] = "raised" /\ id[c] \in landed => id[c] \in lost

\* One step of the gate keeps this so.
LEMMA LostStep == TypeOK /\ OpenRows /\ FailedIsLost /\ [Next]_vars => FailedIsLost'
<1> SUFFICES ASSUME TypeOK, OpenRows, FailedIsLost, [Next]_vars PROVE FailedIsLost'
  OBVIOUS
<1>0. /\ audit \in Seq(Row) /\ Len(audit) \in Nat
      /\ landed \subseteq 1..Len(audit)
      /\ \A d \in Caller : pc[d] # "idle" => id[d] \in 1..Len(audit)
  BY DEF TypeOK
<1>1. CASE UNCHANGED vars
  BY <1>1 DEF FailedIsLost, vars, messageVars
<1>2. ASSUME NEW c \in Caller, NEW k \in Key \cup {NoKey}, NEW chat \in Chat, NEW text \in Text,
             NEW t \in Time, Begin(c, k, chat, text, t) \/ BeginRaises(c, k, chat, text, t)
      PROVE  FailedIsLost'
  <2>1. Admit(c, k, chat, text, t)
    BY <1>2 DEF Begin, BeginRaises
  <2>2. /\ landed' = landed /\ lost' = lost
        /\ \A i \in 1..Len(audit) : audit'[i] = audit[i]
    BY <1>0, <2>1, AdmitFacts DEF Admit, messageVars
  <2>3. \A d \in Caller : \/ pc'[d] = pc[d] /\ id'[d] = id[d]
                          \/ pc'[d] = "send" /\ id'[d] = Len(audit) + 1
    BY <1>2 DEF Begin, BeginRaises, TypeOK
  <2> QED BY <1>0, <2>2, <2>3 DEF FailedIsLost
<1>3. ASSUME NEW c \in Caller, SendAcknowledged(c) \/ SendRaised(c)
      PROVE  FailedIsLost'
  <2>1. /\ audit' = audit /\ id' = id /\ pc[c] = "send"
        /\ id[c] \in 1..Len(audit) /\ audit[id[c]].result \in {"pending", "unknown"}
        /\ \A d \in Caller \ {c} : pc'[d] = pc[d] /\ (pc[d] # "idle" => id[d] # id[c])
    BY <1>0, <1>3 DEF SendAcknowledged, SendRaised, OpenRows, TypeOK
  <2>2. CASE SendAcknowledged(c)
    <3>1. pc'[c] = "acknowledged" /\ landed' = landed \cup {id[c]} /\ lost' = lost
      BY <2>2 DEF SendAcknowledged, TypeOK
    <3> QED BY <2>1, <3>1 DEF FailedIsLost
  <2>3. CASE SendRaised(c)
    <3>1. /\ pc'[c] = "raised"
          /\ \/ landed' = landed \cup {id[c]} /\ lost' = lost \cup {id[c]}
             \/ landed' = landed /\ lost' = lost
      BY <2>3 DEF SendRaised, messageVars, TypeOK
    <3> QED BY <2>1, <3>1 DEF FailedIsLost
  <2> QED BY <1>3, <2>2, <2>3
<1>4. ASSUME NEW c \in Caller, Finish(c) \/ FinishRaises(c)
      PROVE  FailedIsLost'
  <2>1. Leave(c) /\ audit' \in {audit, Settled(c)}
    BY <1>4 DEF Finish, FinishRaises
  <2>2. /\ landed' = landed /\ lost' = lost /\ pc[c] \in {"acknowledged", "raised"}
        /\ id[c] \in 1..Len(audit) /\ pc'[c] = "idle"
        /\ \A d \in Caller \ {c} : pc'[d] = pc[d] /\ id'[d] = id[d]
    BY <1>0, <2>1 DEF Leave, messageVars, TypeOK
  <2>3. \A i \in landed : audit'[i].result = "failed" => i \in lost
    <3> SUFFICES ASSUME NEW i \in landed, audit'[i].result = "failed" PROVE i \in lost
      OBVIOUS
    <3>1. CASE audit' = audit \/ i # id[c]
      <4>1. audit'[i] = audit[i]
        BY <1>0, <2>1, <2>2, <3>1, SettledFacts
      <4> QED BY <4>1 DEF FailedIsLost
    <3>2. CASE audit' = Settled(c) /\ i = id[c]
      <4>1. pc[c] = "raised"
        BY <1>0, <2>2, <3>2, SettledFacts
      <4> QED BY <3>2, <4>1 DEF FailedIsLost
    <3> QED BY <2>1, <3>1, <3>2
  <2> QED BY <2>2, <2>3 DEF FailedIsLost
<1>5. CASE Restart
  <2>1. PICK arrived \in SUBSET {id[c] : c \in {d \in Caller : pc[d] = "send"}} :
            landed' = landed \cup arrived
    BY <1>5 DEF Restart, Died
  <2>2. \A i \in arrived : i \in 1..Len(audit) /\ audit[i].result \in {"pending", "unknown"}
    BY <1>0 DEF OpenRows
  <2>3. \A i \in 1..Len(audit) : audit'[i].result = "failed" => audit[i].result = "failed"
    BY <1>0, <1>5, DisownedType DEF Restart
  <2>4. lost' = lost /\ \A c \in Caller : pc'[c] = "idle"
    BY <1>5 DEF Restart, Died
  <2>5. \A i \in landed' : audit'[i].result = "failed" => i \in lost'
    BY <1>0, <2>1, <2>2, <2>3, <2>4 DEF FailedIsLost
  <2> QED BY <2>4, <2>5 DEF FailedIsLost
<1>6. CASE SecondStart
  <2>1. landed' = landed /\ lost' = lost /\ pc' = pc /\ id' = id
    BY <1>6 DEF SecondStart, messageVars
  <2>2. \A i \in 1..Len(audit) : audit'[i].result = "failed" => audit[i].result = "failed"
    BY <1>0, <1>6, DisownedType DEF SecondStart
  <2> QED BY <1>0, <2>1, <2>2 DEF FailedIsLost
<1> QED BY <1>1, <1>2, <1>3, <1>4, <1>5, <1>6 DEF Next

\* What reached its chat is not sent again under its key until the key is
\* forgotten, whatever requests, crashes, errors of the database and second
\* starts come between, but for a send whose call raised although it landed.
THEOREM LandedIsNotRepeated == Spec => []LandedOnce
<1> DEFINE I == TypeOK /\ OpenRows /\ KeyKept /\ FailedIsLost
<1>1. Init => I
  BY DEF Init, TypeOK, OpenRows, KeyKept, FailedIsLost
<1>2. I /\ [Next]_vars => I'
  BY TypeStep, OpenRowsStep, KeyStep, LostStep
<1>3. I => LandedOnce
  BY DEF LandedOnce, FailedIsLost, KeyKept, TypeOK
<1> QED BY <1>1, <1>2, <1>3, PTL DEF Spec
-----------------------------------------------------------------------------
(* Pending rows                                                            *)

\* One step of the gate leaves no pending row without a request of its own or
\* an error that took it away.
LEMMA PendingStep == TypeOK /\ PendingExplained /\ [Next]_vars => PendingExplained'
<1> SUFFICES ASSUME TypeOK, PendingExplained, [Next]_vars PROVE PendingExplained'
  OBVIOUS
<1>0. /\ audit \in Seq(Row) /\ Len(audit) \in Nat
      /\ \A d \in Caller : id[d] \in 0..Len(audit) /\ (pc[d] # "idle" => id[d] \in 1..Len(audit))
  BY DEF TypeOK
<1>1. CASE UNCHANGED vars
  BY <1>1 DEF PendingExplained, vars
<1>2. ASSUME NEW c \in Caller, NEW k \in Key \cup {NoKey}, NEW chat \in Chat, NEW text \in Text,
             NEW t \in Time, Begin(c, k, chat, text, t) \/ BeginRaises(c, k, chat, text, t)
      PROVE  PendingExplained'
  <2> DEFINE n == Len(audit) + 1
  <2>0. Admit(c, k, chat, text, t)
    BY <1>2 DEF Begin, BeginRaises
  <2>1. Len(audit') = n /\ \A i \in 1..Len(audit) : audit'[i] = audit[i]
    BY <1>0, <2>0, AdmitFacts
  <2>2. pc[c] = "idle" /\ unsettled \subseteq unsettled'
    BY <1>2, <2>0 DEF Admit, Begin, BeginRaises
  <2>3. \A d \in Caller \ {c} : pc'[d] = pc[d] /\ id'[d] = id[d]
    BY <1>2 DEF Begin, BeginRaises, TypeOK
  <2>4. \/ pc'[c] = "send" /\ id'[c] = n
        \/ n \in unsettled' /\ pc'[c] = "idle" /\ id'[c] = id[c]
    BY <1>2, <2>2 DEF Begin, BeginRaises, TypeOK
  <2>5. \A i \in 1..Len(audit') : audit'[i].result = "pending" =>
            i \in unsettled' \/ \E d \in Caller : pc'[d] # "idle" /\ id'[d] = i
    <3> SUFFICES ASSUME NEW i \in 1..n, audit'[i].result = "pending"
                 PROVE  i \in unsettled' \/ \E d \in Caller : pc'[d] # "idle" /\ id'[d] = i
      BY <2>1
    <3>1. CASE i = n
      BY <2>4, <3>1
    <3>2. CASE i # n
      <4>1. i \in 1..Len(audit) /\ audit[i].result = "pending"
        BY <1>0, <2>1, <3>2
      <4> QED BY <2>2, <2>3, <4>1 DEF PendingExplained
    <3> QED BY <3>1, <3>2
  <2>6. \A d, e \in Caller : id'[d] = id'[e] /\ id'[d] # 0 => d = e
    BY <1>0, <2>3, <2>4 DEF PendingExplained
  <2> QED BY <2>5, <2>6 DEF PendingExplained
<1>3. ASSUME NEW c \in Caller, SendAcknowledged(c) \/ SendRaised(c)
      PROVE  PendingExplained'
  BY <1>3 DEF SendAcknowledged, SendRaised, PendingExplained, TypeOK
<1>4. ASSUME NEW c \in Caller, Finish(c) \/ FinishRaises(c)
      PROVE  PendingExplained'
  <2>1. Leave(c) /\ audit' \in {audit, Settled(c)}
    BY <1>4 DEF Finish, FinishRaises
  <2>2. id[c] \in 1..Len(audit) /\ pc[c] # "idle" /\ id'[c] = 0
    BY <1>0, <2>1 DEF Leave, TypeOK
  <2>3. /\ Len(audit') = Len(audit) /\ unsettled \subseteq unsettled'
        /\ \A i \in 1..Len(audit) : i # id[c] => audit'[i] = audit[i]
        /\ id[c] \in unsettled' \/ audit'[id[c]].result # "pending"
    BY <1>0, <1>4, <2>1, <2>2, SettledFacts DEF Finish, FinishRaises
  <2>4. \A d \in Caller : d # c => pc'[d] = pc[d] /\ id'[d] = id[d]
    BY <2>1 DEF Leave, TypeOK
  <2> QED BY <2>2, <2>3, <2>4 DEF PendingExplained
<1>5. CASE Restart \/ SecondStart
  <2>1. Len(audit') = Len(audit) /\ \A i \in 1..Len(audit) : audit'[i].result # "pending"
    <3>1. audit' = Disowned
      BY <1>5 DEF Restart, SecondStart
    <3>2. \A i \in 1..Len(audit) : audit[i] \in Row
      BY RowFacts DEF TypeOK
    <3> QED BY <3>1, <3>2 DEF Disowned, Row, TypeOK
  <2>2. \A d, e \in Caller : id'[d] = id'[e] /\ id'[d] # 0 => d = e
    BY <1>5 DEF Restart, Died, SecondStart, PendingExplained
  <2> QED BY <2>1, <2>2 DEF PendingExplained
<1> QED BY <1>1, <1>2, <1>3, <1>4, <1>5 DEF Next

\* However requests, crashes, errors of the database and second starts
\* interleave, a pending row has one request that will finish it, or lost it to
\* an error of begin or finish since the last start.
THEOREM PendingRowsAreExplained == Spec => []PendingExplained
<1>1. Init => TypeOK /\ PendingExplained
  BY DEF Init, TypeOK, PendingExplained
<1> QED BY <1>1, TypeStep, PendingStep, PTL DEF Spec
=============================================================================
