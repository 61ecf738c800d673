------------------------------ MODULE SendGate ------------------------------
(***************************************************************************)
(* The gate in front of every text the bridge sends from the personal      *)
(* account: sliding-window limits and idempotency keys, both decided on    *)
(* one audit table.  The HTTP server runs each request in a thread; begin  *)
(* and finish hold the gate's lock, the send between them does not.        *)
(*                                                                         *)
(* begin reads the wall clock before it takes the lock, and the clock may  *)
(* be stepped, so the times of successive rows are in no order: every      *)
(* admission here has a time of its own.                                   *)
(*                                                                         *)
(* A statement of the gate may raise (locked database, full disk).  It     *)
(* has had no effect then, or is left in the connection's open transaction *)
(* and is committed with the next one; that a crash undoes it is left out. *)
(***************************************************************************)
EXTENDS Integers, Sequences, FiniteSets

CONSTANTS
    Caller,         \* request threads
    Key, NoKey,     \* idempotency keys; a request without one
    Chat,           \* chats that may be sent to
    Text,           \* what is sent: the text's digest and the message replied to
    MaxTime,        \* bound: clock readings are 0..MaxTime
    MaxRows,        \* bound: rows of the audit table
    ChatWindow, PerChat,    \* at most PerChat sends of a chat in a ChatWindow
    GlobalWindow, Global,   \* at most Global sends in a GlobalWindow
    Ttl             \* how long a key is remembered

ASSUME KeyAssumption == NoKey \notin Key
ASSUME WindowAssumption ==
    /\ MaxTime \in Nat /\ MaxRows \in Nat
    /\ ChatWindow \in Nat /\ GlobalWindow \in Nat /\ Ttl \in Nat
    /\ PerChat \in Nat \ {0} /\ Global \in Nat \ {0}

VARIABLES
    audit,          \* send_audit, in the order of its ids
    pc,             \* where each request is
    id,             \* the row each request was admitted with, 0 when none
    landed,         \* rows whose message the chat received, or will
    lost,           \* those among them whose call nevertheless raised
    unsettled       \* rows whose request ended in an error of the database

messageVars == <<landed, lost>>
vars == <<audit, pc, id, landed, lost, unsettled>>

Time == 0..MaxTime
Counted == {"pending", "accepted", "unknown"}
Row == [key : Key \cup {NoKey}, chat : Chat, text : Text, at : Time,
        result : Counted \cup {"failed"}]

TypeOK ==
    /\ audit \in Seq(Row)
    /\ pc \in [Caller -> {"idle", "send", "acknowledged", "raised"}]
    /\ id \in [Caller -> 0..Len(audit)]
    /\ \A c \in Caller : pc[c] # "idle" => id[c] # 0
    /\ landed \in SUBSET (1..Len(audit)) /\ lost \in SUBSET landed
    /\ unsettled \in SUBSET (1..Len(audit))

Init ==
    /\ audit = <<>>
    /\ pc = [c \in Caller |-> "idle"]
    /\ id = [c \in Caller |-> 0]
    /\ landed = {} /\ lost = {} /\ unsettled = {}

-----------------------------------------------------------------------------
(* Helpers                                                                 *)

\* Mutant of InUse: sends under way are not counted.
InUseSettled(chats, since) ==
    {i \in 1..Len(audit) : /\ audit[i].result \in Counted \ {"pending"}
                           /\ audit[i].chat \in chats /\ audit[i].at >= since}

\* The rows that use up the budget of some chats; a failed send does not.
InUse(chats, since) ==
    {i \in 1..Len(audit) : /\ audit[i].result \in Counted
                           /\ audit[i].chat \in chats /\ audit[i].at >= since}

WithinBudget(chat, t) ==
    /\ Cardinality(InUse({chat}, t - ChatWindow)) < PerChat
    /\ Cardinality(InUse(Chat, t - GlobalWindow)) < Global

\* The rows of a key that are remembered at time t.
Prior(k, t) == {i \in 1..Len(audit) : audit[i].key = k /\ audit[i].at >= t - Ttl}

\* Mutant of KeyAllows: a send that a crash cut off may be repeated.
KeyAllowsUnknown(k, chat, text, t) ==
    \/ k = NoKey
    \/ \A i \in Prior(k, t) : (\A j \in Prior(k, t) : j <= i) =>
            /\ audit[i].chat = chat /\ audit[i].text = text
            /\ audit[i].result \in {"failed", "unknown"}

\* The latest row of the key decides: only the same content is sent again, and
\* only after a failure.
KeyAllows(k, chat, text, t) ==
    \/ k = NoKey
    \/ \A i \in Prior(k, t) : (\A j \in Prior(k, t) : j <= i) =>
            /\ audit[i].chat = chat /\ audit[i].text = text
            /\ audit[i].result = "failed"

\* What opening the database does to sends that never finished.
Disowned == [i \in 1..Len(audit) |->
                IF audit[i].result = "pending" THEN [audit[i] EXCEPT !.result = "unknown"]
                                               ELSE audit[i]]

-----------------------------------------------------------------------------

\* The row of a request that begin admits.
Admit(c, k, chat, text, t) ==
    /\ pc[c] = "idle" /\ Len(audit) < MaxRows
    /\ KeyAllows(k, chat, text, t) /\ WithinBudget(chat, t)
    /\ audit' = Append(audit, [key |-> k, chat |-> chat, text |-> text, at |-> t,
                               result |-> "pending"])
    /\ UNCHANGED messageVars

\* Mutant of Begin: the request is given the number of the row before its own.
BeginBehind(c, k, chat, text, t) ==
    /\ Admit(c, k, chat, text, t)
    /\ pc' = [pc EXCEPT ![c] = "send"]
    /\ id' = [id EXCEPT ![c] = Len(audit)]
    /\ UNCHANGED unsettled

\* begin, when it admits the request.  A replayed answer, a conflict, a refusal
\* for the rate and an INSERT that raises change nothing.
Begin(c, k, chat, text, t) ==
    /\ Admit(c, k, chat, text, t)
    /\ pc' = [pc EXCEPT ![c] = "send"]
    /\ id' = [id EXCEPT ![c] = Len(audit) + 1]
    /\ UNCHANGED unsettled

\* The commit of the INSERT raises: the row stays, nothing is sent.
BeginRaises(c, k, chat, text, t) ==
    /\ Admit(c, k, chat, text, t)
    /\ unsettled' = unsettled \cup {Len(audit) + 1}
    /\ UNCHANGED <<pc, id>>

\* The gateway takes the message and says so.
SendAcknowledged(c) ==
    /\ pc[c] = "send"
    /\ pc' = [pc EXCEPT ![c] = "acknowledged"]
    /\ landed' = landed \cup {id[c]}
    /\ UNCHANGED <<audit, id, lost, unsettled>>

\* The call raises or reports a failure, before the message got through or
\* after it (its answer was lost; an urgent alert failed in a later step).
SendRaised(c) ==
    /\ pc[c] = "send"
    /\ pc' = [pc EXCEPT ![c] = "raised"]
    /\ \/ landed' = landed \cup {id[c]} /\ lost' = lost \cup {id[c]}
       \/ UNCHANGED messageVars
    /\ UNCHANGED <<audit, id, unsettled>>

\* What finish writes, over whatever result the row has by then.
Settled(c) == [audit EXCEPT ![id[c]].result =
                    IF pc[c] = "acknowledged" THEN "accepted" ELSE "failed"]

Leave(c) ==
    /\ pc[c] \in {"acknowledged", "raised"}
    /\ pc' = [pc EXCEPT ![c] = "idle"]
    /\ id' = [id EXCEPT ![c] = 0]
    /\ UNCHANGED messageVars

Finish(c) ==
    /\ Leave(c)
    /\ audit' = Settled(c)
    /\ UNCHANGED unsettled

\* finish raises, out of send and of its except block: the request is over, and
\* its row has its result all the same or stays as it is.
FinishRaises(c) ==
    /\ Leave(c)
    /\ audit' \in {audit, Settled(c)}
    /\ unsettled' = unsettled \cup {id[c]}

\* The process dies.  A message that was on its way may still arrive.
Died ==
    /\ pc' = [c \in Caller |-> "idle"] /\ id' = [c \in Caller |-> 0]
    /\ \E arrived \in SUBSET {id[c] : c \in {d \in Caller : pc[d] = "send"}} :
            landed' = landed \cup arrived
    /\ unsettled' = {}
    /\ UNCHANGED lost

\* Mutant of Restart: the rows of the process that died stay pending.
RestartForgetful == Died /\ UNCHANGED audit

Restart == Died /\ audit' = Disowned

\* A second bridge opens the database before the owner lock turns it away: it
\* disowns the sends of the one that is running, whose threads go on.
SecondStart ==
    /\ audit' = Disowned
    /\ UNCHANGED <<pc, id, messageVars, unsettled>>

Next ==
    \/ \E c \in Caller, k \in Key \cup {NoKey}, chat \in Chat, text \in Text, t \in Time :
            Begin(c, k, chat, text, t) \/ BeginRaises(c, k, chat, text, t)
    \/ \E c \in Caller :
            \/ SendAcknowledged(c) \/ SendRaised(c)
            \/ Finish(c) \/ FinishRaises(c)
    \/ Restart
    \/ SecondStart

Spec == Init /\ [][Next]_vars

-----------------------------------------------------------------------------
(* Properties                                                                *)

Between(chats, from, to) == {i \in InUse(chats, from) : audit[i].at <= to}

\* The limits hold in every window, not just in the one that ends at a request:
\* whatever the order in which threads read the clock and take the lock, no
\* window of any minute (hour) holds more sends than allowed that were accepted,
\* are under way or may have been cut off by a crash.
WithinLimits ==
    \A from \in Time :
        /\ \A chat \in Chat : Cardinality(Between({chat}, from, from + ChatWindow)) <= PerChat
        /\ Cardinality(Between(Chat, from, from + GlobalWindow)) <= Global

FollowsInKey(i, j) ==
    /\ audit[i].key = audit[j].key /\ audit[i].key \in Key
    /\ \A k \in (i + 1)..(j - 1) : audit[k].key # audit[i].key

\* A message that reached its chat is not sent again under its key while the key
\* is remembered, whatever threads race, die in the middle of a send, leave
\* their row unfinished or are disowned by a second process: its row is not
\* followed by another one of the key, unless the call that sent it raised
\* nevertheless.  Such a send is recorded as failed, and its key admitted again.
LandedOnce ==
    \A i \in landed \ lost, j \in 1..Len(audit) :
        i < j /\ FollowsInKey(i, j) => audit[j].at > audit[i].at + Ttl

\* "A crash between begin() and finish() leaves a 'pending' row that would
\* block its key and eat budget forever": after any crash and second start a
\* pending row has a request that will still finish it, or one of this process
\* whose begin or finish met an error of the database; such a row does block
\* its key and its budget until the next start.  No two requests will finish
\* the same row.
PendingExplained ==
    /\ \A i \in 1..Len(audit) : audit[i].result = "pending" =>
            i \in unsettled \/ \E c \in Caller : pc[c] # "idle" /\ id[c] = i
    /\ \A c, d \in Caller : id[c] = id[d] /\ id[c] # 0 => c = d
=============================================================================
