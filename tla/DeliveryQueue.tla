--------------------------- MODULE DeliveryQueue ---------------------------
(***************************************************************************)
(* What the bridge's inbound spool promises its two neighbours, the chat   *)
(* connection that hands messages in and the adapter they are handed to:   *)
(* at-least-once delivery.  An event that was taken in stays open until    *)
(* the adapter has it (or there is a stated excuse for never handing it    *)
(* over), and one that is closed comes back only as a fresh entry, which   *)
(* is what an operator's correction makes of it.                           *)
(***************************************************************************)
CONSTANT Event              \* the messages of the watched chats

VARIABLES
    stage,                  \* stage[e]: where e is on its way
    handed,                 \* events the adapter has accepted at least once
    excused                 \* events that may be closed without the adapter

dqVars == <<stage, handed, excused>>

Stages == {"absent", "queued", "trying", "closed"}

Open(e) == stage[e] \in {"queued", "trying"}

DQInit ==
    /\ stage = [e \in Event |-> "absent"]
    /\ handed = {}
    /\ excused \in SUBSET Event

TakeIn(e) ==
    /\ stage[e] = "absent"
    /\ stage' = [stage EXCEPT ![e] = "queued"]
    /\ UNCHANGED <<handed, excused>>

Try(e) ==
    /\ Open(e)
    /\ stage' = [stage EXCEPT ![e] = "trying"]
    /\ UNCHANGED <<handed, excused>>

\* The adapter's copy can arrive more than once, and only of an open event.
HandOver(e) ==
    /\ stage[e] = "trying"
    /\ handed' = handed \cup {e}
    /\ UNCHANGED <<stage, excused>>

Close(e) ==
    /\ Open(e)
    /\ e \in handed \cup excused
    /\ stage' = [stage EXCEPT ![e] = "closed"]
    /\ UNCHANGED <<handed, excused>>

Correct(e) ==
    /\ stage[e] = "closed"
    /\ stage' = [stage EXCEPT ![e] = "queued"]
    /\ UNCHANGED <<handed, excused>>

Excuse(e) ==
    /\ excused' = excused \cup {e}
    /\ UNCHANGED <<stage, handed>>

DQNext ==
    \E e \in Event :
        TakeIn(e) \/ Try(e) \/ HandOver(e) \/ Close(e) \/ Correct(e) \/ Excuse(e)

DQSpec == DQInit /\ [][DQNext]_dqVars
=============================================================================
