-------------------------- MODULE IngestQueueProofs --------------------------
(***************************************************************************)
(* Proofs about IngestQueue, for any handlers, media and bounds.  That     *)
(* submissions are bounded needs the submission still to come (Budget):    *)
(* one of an ingress that has not finished, one of a retry between its two *)
(* statements, one of a row or a worker that is not yet past submitting.   *)
(* That no job is stranded needs what the worker has read of it: a catch   *)
(* block that gives up read it as failed, and from then on only an         *)
(* overlapping retry reopens it.  That a closed delivery was whole needs   *)
(* that no row is made before the last medium is recorded (Kept).          *)
(***************************************************************************)
EXTENDS IngestQueue, TLAPS

-----------------------------------------------------------------------------
(* Types                                                                   *)

\* The media loop of an ingress stays within the media.
Within(x) == (x.at = "create" => x.next = 1) /\ (x.at \in {"record", "parts"} => x.next \in Media)
InRange == \A h \in Handler : Within(ingress[h])
Types == TypeOK /\ InRange

LEMMA Constants == Away \in Ingress /\ Idle \in Worker /\ N \in Nat
BY IngestAssumption DEF Away, Idle, Ingress, Worker, Media

LEMMA AwayWithin == Away \in Ingress /\ Within(Away) /\ Away.at = "idle"
BY Constants DEF Away, Within

LEMMA InitTypes == Init => Types
<1> SUFFICES ASSUME Init PROVE Types
  OBVIOUS
<1>1. ingress \in [Handler -> Ingress] /\ InRange
  BY Constants DEF Init, InRange, Within, Away
<1>2. asset \in [Media -> Asset]
  BY DEF Init, Asset, NoAsset
<1>3. outbox \in Outbox /\ worker \in Worker
  BY Constants DEF Init, Outbox
<1>4. manual \in 0..MaxManual /\ trouble \in 0..MaxTrouble /\ sent \in Nat
  BY IngestAssumption DEF Init
<1> QED BY <1>1, <1>2, <1>3, <1>4 DEF Init, Types, TypeOK, JobStatus

\* One ingress moves: its own record changes, and no other.
LEMMA Going ==
    ASSUME Types, NEW h \in Handler, NEW x \in Ingress, Goes(h, x), Within(x)
    PROVE  /\ ingress' \in [Handler -> Ingress] /\ InRange'
           /\ ingress'[h] = x /\ \A g \in Handler \ {h} : ingress'[g] = ingress[g]
BY DEF Types, TypeOK, InRange, Goes

LEMMA Stepping ==
    ASSUME worker \in Worker, NEW x \in Delivering \cup Settling, Step(x)
    PROVE  /\ worker' \in Worker /\ worker'.at = x
           /\ worker'.keep = worker.keep /\ worker'.fix = worker.fix
BY DEF Worker, Step

LEMMA Catching ==
    ASSUME Catch
    PROVE  worker' \in Worker /\ worker'.at = "caught"
BY Constants DEF Catch, Worker, Idle, Settling

LEMMA Enqueueing ==
    ASSUME outbox \in Outbox
    PROVE  Enqueued \in Outbox /\ Enqueued.st = "queued"
BY DEF Outbox, Enqueued

\* Where the ingress of h is after each of its steps.
LEMMA ReceiveTypes ==
    ASSUME Types, NEW h \in Handler, Receive(h)
    PROVE  /\ Types' /\ ingress'[h].at \in {"idle", "create"}
           /\ \A g \in Handler \ {h} : ingress'[g] = ingress[g]
<1> DEFINE x == [Away EXCEPT !.at = "create", !.files = Media]
<1>1. x \in Ingress /\ x.at = "create" /\ Within(x)
  BY Constants DEF Ingress, Away, Within
<1>2. CASE job # "none"
  BY <1>2 DEF Receive, Types, TypeOK, InRange, sideVars, logVars
<1>3. CASE job = "none"
  <2>1. Goes(h, x)
    BY <1>3 DEF Receive
  <2> HIDE DEF x
  <2>2. ingress' \in [Handler -> Ingress] /\ InRange' /\ ingress'[h] = x
        /\ \A g \in Handler \ {h} : ingress'[g] = ingress[g]
    BY <1>1, <2>1, Going
  <2> QED BY <1>1, <2>2 DEF Receive, Types, TypeOK, sideVars, logVars
<1> QED BY <1>2, <1>3

LEMMA CreateTypes ==
    ASSUME Types, NEW h \in Handler, Creates(h)
    PROVE  /\ Types' /\ ingress'[h].at \in {"idle", "record", "queue"}
           /\ \A g \in Handler \ {h} : ingress'[g] = ingress[g]
<1> DEFINE x == [ingress[h] EXCEPT !.at = AfterRecord(1)]
<1>0. ingress[h] \in Ingress /\ ingress[h].at = "create" /\ ingress[h].next = 1
  BY DEF Types, TypeOK, InRange, Within, Creates
<1>1. x \in Ingress /\ x.at \in {"record", "queue"} /\ Within(x)
  BY <1>0, IngestAssumption DEF Ingress, AfterRecord, Within, Media
<1>2. CASE Unseen
  <2>1. Goes(h, x) /\ job' = "queued"
    BY <1>2 DEF Creates
  <2> HIDE DEF x
  <2>2. ingress' \in [Handler -> Ingress] /\ InRange' /\ ingress'[h] = x
        /\ \A g \in Handler \ {h} : ingress'[g] = ingress[g]
    BY <1>1, <2>1, Going
  <2> QED BY <1>1, <2>1, <2>2 DEF Creates, Types, TypeOK, JobStatus, Open, sideVars, logVars
<1>3. CASE ~Unseen
  <2>1. Goes(h, Away) /\ job' = job
    BY <1>3 DEF Creates
  <2>2. ingress' \in [Handler -> Ingress] /\ InRange' /\ ingress'[h] = Away
        /\ \A g \in Handler \ {h} : ingress'[g] = ingress[g]
    BY <2>1, Going, AwayWithin
  <2> QED BY <2>1, <2>2 DEF Away, Creates, Types, TypeOK, sideVars, logVars
<1> QED BY <1>2, <1>3

LEMMA RecordTypes ==
    ASSUME Types, NEW h \in Handler, Records(h)
    PROVE  /\ Types' /\ ingress[h].at = "record" /\ ingress'[h].at = "parts"
           /\ \A g \in Handler \ {h} : ingress'[g] = ingress[g]
<1> DEFINE x == [ingress[h] EXCEPT !.at = "parts"]
<1>0. ingress[h] \in Ingress /\ ingress[h].at = "record"
  BY DEF Types, TypeOK, Records
<1>1. x \in Ingress /\ x.at = "parts" /\ Within(x)
  BY <1>0 DEF Types, InRange, Within, Ingress
<1>2. Goes(h, x)
  BY DEF Records
<1> HIDE DEF x
<1>3. ingress' \in [Handler -> Ingress] /\ InRange' /\ ingress'[h] = x
      /\ \A g \in Handler \ {h} : ingress'[g] = ingress[g]
  BY <1>1, <1>2, Going
<1>4. asset' \in [Media -> Asset]
  <2>1. asset \in [Media -> Asset]
    BY DEF Types, TypeOK
  <2>2. ASSUME NEW i \in Media PROVE asset'[i] \in Asset
    <3> DEFINE b == ingress[h].next \in ingress[h].files
    <3>1. b \in BOOLEAN /\ asset[i] \in Asset
      BY <2>1
    <3>2. asset'[i] = IF i = ingress[h].next THEN [asset[i] EXCEPT !.rec = TRUE, !.file = b]
                                             ELSE asset[i]
      BY <2>1 DEF Records
    <3> HIDE DEF b
    <3> QED BY <3>1, <3>2 DEF Asset
  <2>3. asset' = [i \in Media |-> asset'[i]]
    BY <2>1 DEF Records
  <2> QED BY <2>2, <2>3
<1> QED BY <1>0, <1>1, <1>3, <1>4 DEF Records, Types, TypeOK, sideVars, logVars

LEMMA RecordPartsTypes ==
    ASSUME Types, NEW h \in Handler, RecordsParts(h)
    PROVE  /\ Types' /\ ingress[h].at = "parts" /\ ingress'[h].at \in {"record", "queue"}
           /\ \A g \in Handler \ {h} : ingress'[g] = ingress[g]
<1> DEFINE x == [ingress[h] EXCEPT !.next = ingress[h].next + 1,
                                        !.at = AfterRecord(ingress[h].next + 1)]
<1>0. ingress[h] \in Ingress /\ ingress[h].at = "parts"
  BY DEF Types, TypeOK, RecordsParts
<1>1. x \in Ingress /\ x.at \in {"record", "queue"} /\ Within(x)
  <2>1. ingress[h].next \in 1..N /\ ingress[h].next + 1 \in 1..N + 1
    BY <1>0, IngestAssumption DEF Types, InRange, Within, Media
  <2>2. CASE ingress[h].next + 1 > N
    BY <1>0, <2>1, <2>2 DEF Ingress, AfterRecord, Within
  <2>3. CASE ~(ingress[h].next + 1 > N)
    <3>1. ingress[h].next + 1 \in Media
      BY <2>1, <2>3, IngestAssumption DEF Media
    <3> QED BY <1>0, <2>1, <2>3, <3>1 DEF Ingress, AfterRecord, Within
  <2> QED BY <2>2, <2>3
<1>2. Goes(h, x)
  BY DEF RecordsParts
<1> HIDE DEF x
<1>3. ingress' \in [Handler -> Ingress] /\ InRange' /\ ingress'[h] = x
      /\ \A g \in Handler \ {h} : ingress'[g] = ingress[g]
  BY <1>1, <1>2, Going
<1>4. asset' \in [Media -> Asset]
  BY DEF RecordsParts, Types, TypeOK, Asset
<1> QED BY <1>0, <1>1, <1>3, <1>4 DEF RecordsParts, Types, TypeOK, sideVars, logVars

LEMMA QueueTypes ==
    ASSUME Types, NEW h \in Handler, Queues(h)
    PROVE  /\ Types' /\ ingress[h].at = "queue" /\ ingress'[h].at = "enqueue"
           /\ \A g \in Handler \ {h} : ingress'[g] = ingress[g]
<1> DEFINE x == [ingress[h] EXCEPT !.at = "enqueue"]
<1>0. ingress[h] \in Ingress /\ ingress[h].at = "queue"
  BY DEF Types, TypeOK, Queues
<1>1. x \in Ingress /\ x.at = "enqueue" /\ Within(x)
  BY <1>0 DEF Ingress, Within
<1>2. Goes(h, x)
  BY DEF Queues
<1> HIDE DEF x
<1>3. ingress' \in [Handler -> Ingress] /\ InRange' /\ ingress'[h] = x
      /\ \A g \in Handler \ {h} : ingress'[g] = ingress[g]
  BY <1>1, <1>2, Going
<1> QED BY <1>0, <1>1, <1>3 DEF Queues, Types, TypeOK, JobStatus, Open, sideVars, logVars

LEMMA EnqueueTypes ==
    ASSUME Types, NEW h \in Handler, Enqueues(h)
    PROVE  /\ Types' /\ ingress[h].at = "enqueue" /\ ingress'[h].at = "idle"
           /\ \A g \in Handler \ {h} : ingress'[g] = ingress[g]
<1> DEFINE x == Away
<1>0. ingress[h] \in Ingress /\ ingress[h].at = "enqueue"
  BY DEF Types, TypeOK, Enqueues
<1>1. x \in Ingress /\ x.at = "idle" /\ Within(x)
  BY <1>0, AwayWithin
<1>2. Goes(h, x)
  BY DEF Enqueues
<1> HIDE DEF x
<1>3. ingress' \in [Handler -> Ingress] /\ InRange' /\ ingress'[h] = x
      /\ \A g \in Handler \ {h} : ingress'[g] = ingress[g]
  BY <1>1, <1>2, Going
<1> QED BY <1>0, <1>1, <1>3, Enqueueing DEF Enqueues, Types, TypeOK, sideVars, logVars

LEMMA RefuseTypes ==
    ASSUME Types, NEW h \in Handler, Refuses(h)
    PROVE  /\ Types' /\ ingress[h].at = "refuse" /\ ingress'[h].at = "idle"
           /\ \A g \in Handler \ {h} : ingress'[g] = ingress[g]
<1> DEFINE x == Away
<1>0. ingress[h] \in Ingress /\ ingress[h].at = "refuse"
  BY DEF Types, TypeOK, Refuses
<1>1. x \in Ingress /\ x.at = "idle" /\ Within(x)
  BY <1>0, AwayWithin
<1>2. Goes(h, x)
  BY DEF Refuses
<1> HIDE DEF x
<1>3. ingress' \in [Handler -> Ingress] /\ InRange' /\ ingress'[h] = x
      /\ \A g \in Handler \ {h} : ingress'[g] = ingress[g]
  BY <1>1, <1>2, Going
<1>4. asset' \in [Media -> Asset]
  BY DEF Refuses, Types, TypeOK, Asset
<1> QED BY <1>0, <1>1, <1>3, <1>4
        DEF Refuses, Refused, Types, TypeOK, JobStatus, sideVars, logVars

LEMMA RaiseTypes ==
    ASSUME Types, NEW h \in Handler, IngressRaises(h)
    PROVE  /\ Types' /\ ingress[h].at # "idle" /\ ingress'[h].at \in {"idle", "refuse"}
           /\ ingress[h].at = "create" => ingress'[h].at = "idle"
           /\ ingress[h].at # "create" /\ ingress'[h].at = "idle" => "half" \in slips'
           /\ slips \subseteq slips'
           /\ \A g \in Handler \ {h} : ingress'[g] = ingress[g]
<1> DEFINE x == [ingress[h] EXCEPT !.at = "refuse"]
<1>1. ingress[h] \in Ingress
  BY DEF Types, TypeOK
<1>2. x \in Ingress /\ Within(x) /\ x.at = "refuse"
  BY <1>1 DEF Ingress, Within
<1> HIDE DEF x
<1>3. trouble' \in 0..MaxTrouble
  BY IngestAssumption DEF IngressRaises, Trouble, Types, TypeOK
<1>4. ASSUME NEW y \in Ingress, Goes(h, y), Within(y), slips' \subseteq Slip PROVE Types'
  <2>1. ingress' \in [Handler -> Ingress] /\ InRange'
    BY <1>4, Going
  <2> QED BY <1>3, <1>4, <2>1 DEF IngressRaises, Types, TypeOK, sideVars
<1>5. slips \subseteq Slip /\ slips \cup {"cut"} \subseteq Slip /\ slips \cup {"cut", "half"} \subseteq Slip
  BY DEF Types, TypeOK, Slip
<1>6. CASE ingress[h].at = "create" /\ Goes(h, Away) /\ UNCHANGED slips
  BY <1>4, <1>5, <1>6, AwayWithin, Going
<1>7. CASE /\ ingress[h].at \in {"record", "parts", "queue", "enqueue"}
           /\ Goes(h, x) /\ slips' = slips \cup {"cut"}
  BY <1>2, <1>4, <1>5, <1>7, Going
<1>8. CASE /\ ingress[h].at \in {"record", "parts", "queue", "enqueue", "refuse"}
           /\ Goes(h, Away) /\ slips' = slips \cup {"cut", "half"}
  BY <1>4, <1>5, <1>8, AwayWithin, Going
<1> QED BY <1>6, <1>7, <1>8 DEF IngressRaises, x

\* Where the worker is after each of its steps.
LEMMA ClaimTypes ==
    ASSUME Types, Claims
    PROVE  Types' /\ worker'.at = "load" /\ outbox'.st = "processing"
<1>1. worker' \in Worker /\ worker'.at = "load"
  BY Stepping DEF Claims, Types, TypeOK, Delivering
<1>2. outbox' \in Outbox /\ outbox'.st = "processing"
  <2> DEFINE n == IF outbox.tries = 2 THEN 2 ELSE outbox.tries + 1
  <2>1. outbox \in Outbox /\ n \in 0..2
    BY DEF Types, TypeOK, Outbox
  <2>2. outbox' = [outbox EXCEPT !.st = "processing", !.due = FALSE, !.tries = n]
    BY <2>1 DEF Claims
  <2> HIDE DEF n
  <2> QED BY <2>1, <2>2 DEF Outbox
<1> QED BY <1>1, <1>2 DEF Claims, Types, TypeOK, InRange, sideVars, logVars

LEMMA LoadTypes ==
    ASSUME Types, Redownloads \/ Loads
    PROVE  Types' /\ worker.at = "load" /\ worker'.at \in {"begin", "filter"}
<1>1. worker \in Worker
  BY DEF Types, TypeOK
<1>2. CASE Redownloads
  <2>1. worker' \in Worker /\ worker'.at = "begin"
    BY <1>1, <1>2 DEF Redownloads, Worker, Delivering
  <2> QED BY <1>2, <2>1 DEF Redownloads, Types, TypeOK, InRange, sideVars, logVars
<1>3. CASE Loads
  <2>1. PICK to \in {"begin", "filter"} :
          worker' = [worker EXCEPT !.at = to, !.res = Recorded,
                                   !.parts = {i \in Recorded : asset[i].parts},
                                   !.up = {i \in Recorded : asset[i].up}]
    BY <1>3 DEF Loads
  <2>2. /\ Recorded \subseteq Media /\ {i \in Recorded : asset[i].parts} \subseteq Media
        /\ {i \in Recorded : asset[i].up} \subseteq Media
    BY DEF Recorded
  <2> HIDE DEF Recorded
  <2>3. worker' \in Worker /\ worker'.at \in {"begin", "filter"}
    BY <1>1, <2>1, <2>2 DEF Worker, Delivering
  <2> QED BY <1>3, <2>3 DEF Loads, Types, TypeOK, InRange, sideVars, logVars
<1> QED BY <1>2, <1>3

LEMMA FailTypes ==
    ASSUME Types, CannotLoad \/ SendFails
    PROVE  Types' /\ worker.at \in {"load", "send", "finalize"} /\ worker'.at = "caught"
<1>1. worker' \in Worker /\ worker'.at = "caught"
  BY Catching DEF CannotLoad, SendFails
<1>2. CASE CannotLoad
  BY <1>1, <1>2 DEF CannotLoad, Types, TypeOK, InRange, sideVars, logVars
<1>3. CASE SendFails
  <2>1. job' \in JobStatus /\ worker.at \in {"send", "finalize"}
    BY <1>3 DEF SendFails, Sending, Types, TypeOK, JobStatus, Open
  <2> QED BY <1>1, <1>3, <2>1 DEF SendFails, Types, TypeOK, InRange, sideVars, logVars
<1> QED BY <1>2, <1>3

LEMMA ClosingTypes == [Idle EXCEPT !.at = "close"] \in Worker /\ [Idle EXCEPT !.at = "close"].at = "close"
BY Constants DEF Idle, Worker, Delivering

LEMMA FilterTypes ==
    ASSUME Types, Filters
    PROVE  Types' /\ worker'.at = "close"
BY ClosingTypes DEF Filters, Types, TypeOK, InRange, JobStatus, Done, sideVars, logVars

LEMMA BeginTypes ==
    ASSUME Types, Begins
    PROVE  Types' /\ worker'.at \in {"send", "assets"}
<1>1. worker' \in Worker /\ worker'.at \in {"send", "assets"}
  BY DEF Begins, Types, TypeOK, Worker, Delivering
<1> QED BY <1>1 DEF Begins, Types, TypeOK, InRange, JobStatus, Open, sideVars, logVars

LEMMA OnwardTypes ==
    ASSUME worker \in Worker, NEW i \in Media
    PROVE  /\ Onward(i) \in Worker /\ Onward(i).at \in {"send", "assets"}
           /\ Onward(i).res = worker.res
<1>1. CASE worker.todo = {i}
  BY <1>1 DEF Onward, Worker, Delivering
<1>2. CASE worker.todo # {i}
  BY <1>2 DEF Onward, Worker, Delivering
<1> QED BY <1>1, <1>2

LEMMA RerecordTypes ==
    ASSUME Types, NEW i \in Media, Rerecords(i)
    PROVE  /\ Types' /\ worker.at = "assets" /\ worker'.at \in {"send", "assets", "parts"}
           /\ worker'.res = worker.res
<1>1. /\ worker' \in Worker /\ worker.at = "assets" /\ worker'.at \in {"send", "assets", "parts"}
      /\ worker'.res = worker.res
  <2>1. worker \in Worker /\ worker.at = "assets"
    BY DEF Rerecords, Types, TypeOK
  <2>2. CASE worker.fresh
    BY <2>1, <2>2 DEF Rerecords, Worker, Delivering
  <2>3. CASE ~worker.fresh
    BY <2>1, <2>3, OnwardTypes DEF Rerecords
  <2> QED BY <2>1, <2>2, <2>3
<1>2. asset' \in [Media -> Asset]
  <2>1. asset \in [Media -> Asset] /\ worker.fresh \in BOOLEAN
    BY DEF Types, TypeOK, Worker
  <2>2. ASSUME NEW j \in Media PROVE asset'[j] \in Asset
    <3> DEFINE b == IF worker.fresh THEN i \in worker.files ELSE asset[i].file
    <3>1. b \in BOOLEAN /\ asset[j] \in Asset
      <4>1. asset[i] \in Asset /\ asset[j] \in Asset
        BY <2>1
      <4>2. asset[i].file \in BOOLEAN /\ (i \in worker.files) \in BOOLEAN
        BY <4>1 DEF Asset
      <4> QED BY <2>1, <4>1, <4>2
    <3>2. asset'[j] = IF j = i THEN [asset[j] EXCEPT !.rec = TRUE, !.file = b] ELSE asset[j]
      BY <2>1 DEF Rerecords
    <3> HIDE DEF b
    <3> QED BY <3>1, <3>2 DEF Asset
  <2>3. asset' = [j \in Media |-> asset'[j]]
    BY <2>1 DEF Rerecords
  <2> QED BY <2>2, <2>3
<1> QED BY <1>1, <1>2 DEF Rerecords, Types, TypeOK, InRange, sideVars, logVars

LEMMA RerecordPartsTypes ==
    ASSUME Types, NEW i \in Media, RerecordsParts(i)
    PROVE  /\ Types' /\ worker.at = "parts" /\ worker'.at \in {"send", "assets"}
           /\ worker'.res = worker.res
<1>1. /\ worker' \in Worker /\ worker.at = "parts" /\ worker'.at \in {"send", "assets"}
      /\ worker'.res = worker.res
  BY OnwardTypes DEF RerecordsParts, Types, TypeOK
<1>2. asset' \in [Media -> Asset]
  BY DEF RerecordsParts, Types, TypeOK, Asset
<1> QED BY <1>1, <1>2 DEF RerecordsParts, Types, TypeOK, InRange, sideVars, logVars

LEMMA PartTypes ==
    ASSUME Types, SkipsPart \/ \E i \in Media : SendsPart(i)
    PROVE  Types' /\ worker.at = "send" /\ worker'.at = "finalize"
<1>1. CASE SkipsPart
  <2>1. worker' \in Worker /\ worker'.at = "finalize"
    BY <1>1, Stepping DEF SkipsPart, Types, TypeOK, Delivering
  <2> QED BY <1>1, <2>1 DEF SkipsPart, Types, TypeOK, InRange, sideVars, logVars
<1>2. ASSUME NEW i \in Media, SendsPart(i) PROVE Types' /\ worker.at = "send" /\ worker'.at = "finalize"
  <2>1. worker' \in Worker /\ worker'.at = "finalize"
    BY <1>2, Stepping DEF SendsPart, Types, TypeOK, Delivering
  <2>2. asset' \in [Media -> Asset]
    BY <1>2 DEF SendsPart, Types, TypeOK, Asset
  <2> QED BY <1>2, <2>1, <2>2
          DEF SendsPart, Sending, Types, TypeOK, InRange, JobStatus, Open, sideVars, logVars
<1> QED BY <1>1, <1>2

LEMMA SubmitTypes == ASSUME Types, Submitted PROVE sent' = sent + 1 /\ sent' \in Nat /\ whole' \in BOOLEAN
BY DEF Types, TypeOK, Submitted

LEMMA FinalizeTypes ==
    ASSUME Types, NEW i \in Media, Finalizes(i)
    PROVE  /\ Types' /\ trouble' = trouble /\ manual' = manual /\ slips' = slips
           /\ \/ worker'.at = "finish" /\ sent' = sent + 1
              \/ worker'.at = "send" /\ sent' = sent
<1>1. asset' \in [Media -> Asset] /\ job' \in JobStatus /\ worker \in Worker
  BY DEF Finalizes, Types, TypeOK, Asset, JobStatus, Open
<1>2. CASE worker.todo = {i}
  <2>1. worker' \in Worker /\ worker'.at = "finish"
    <3>1. worker' = [Idle EXCEPT !.at = "finish", !.res = worker.res]
      BY <1>2 DEF Finalizes
    <3> QED BY <1>1, <3>1 DEF Worker, Idle, Delivering
  <2> QED BY <1>1, <1>2, <2>1, SubmitTypes
          DEF Finalizes, Submitted, Types, TypeOK, InRange, sideVars
<1>3. CASE worker.todo # {i}
  <2>1. worker' \in Worker /\ worker'.at = "send"
    <3>1. worker' = [worker EXCEPT !.at = "send", !.todo = worker.todo \ {i}]
      BY <1>1, <1>3 DEF Finalizes
    <3> QED BY <1>1, <3>1 DEF Worker, Delivering
  <2> QED BY <1>1, <1>3, <2>1 DEF Finalizes, Types, TypeOK, InRange, sideVars, logVars
<1> QED BY <1>2, <1>3

LEMMA TextTypes ==
    ASSUME Types, SendsText
    PROVE  Types' /\ worker.at = "send" /\ worker'.at = "finish" /\ sent' = sent + 1
<1>1. worker' \in Worker /\ worker'.at = "finish"
  BY Stepping DEF SendsText, Types, TypeOK, Delivering
<1> QED BY <1>1, SubmitTypes DEF SendsText, Submitted, Types, TypeOK, InRange, sideVars

LEMMA LostTypes ==
    ASSUME Types, AnswerLost
    PROVE  /\ Types' /\ worker.at \in {"send", "finalize"} /\ worker'.at = "caught"
           /\ sent' = sent + 1 /\ trouble' = trouble + 1
<1>1. worker' \in Worker /\ worker'.at = "caught"
  BY Catching DEF AnswerLost
<1>2. trouble' \in 0..MaxTrouble /\ trouble' = trouble + 1
  BY IngestAssumption DEF AnswerLost, Trouble, Types, TypeOK
<1> QED BY <1>1, <1>2, SubmitTypes DEF AnswerLost, Submitted, Types, TypeOK, InRange, sideVars

LEMMA FinishTypes ==
    ASSUME Types, Finishes
    PROVE  Types' /\ worker'.at = "close"
<1>1. asset' \in [Media -> Asset]
  <2>1. ASSUME NEW i \in Media PROVE [asset[i] EXCEPT !.file = @ /\ i \notin worker.res] \in Asset
    <3> DEFINE b == asset[i].file /\ i \notin worker.res
    <3>1. b \in BOOLEAN /\ asset[i] \in Asset
      BY DEF Types, TypeOK
    <3> HIDE DEF b
    <3>2. [asset[i] EXCEPT !.file = b] \in Asset
      BY <3>1 DEF Asset
    <3> QED BY <3>1, <3>2 DEF b
  <2> QED BY <2>1 DEF Finishes
<1> QED BY <1>1, ClosingTypes
        DEF Finishes, Types, TypeOK, InRange, JobStatus, Done, sideVars, logVars

LEMMA CloseTypes ==
    ASSUME Types, Closes
    PROVE  Types' /\ worker'.at = "idle" /\ outbox'.st = "completed"
<1>1. outbox' \in Outbox /\ outbox'.st = "completed"
  BY DEF Closes, Types, TypeOK, Outbox
<1> QED BY <1>1, Constants DEF Closes, Idle, Types, TypeOK, InRange, sideVars, logVars

LEMMA CatchTypes ==
    ASSUME Types, Catches
    PROVE  /\ Types' /\ worker'.at = "mark" /\ (worker'.keep <=> job # "failed")
           /\ (worker'.fix <=> job \notin {"failed", "retryable_failed"})
<1>1. /\ worker' \in Worker /\ worker'.at = "mark" /\ (worker'.keep <=> job # "failed")
      /\ (worker'.fix <=> job \notin {"failed", "retryable_failed"})
  BY DEF Catches, Types, TypeOK, Worker, Settling
<1> QED BY <1>1 DEF Catches, Types, TypeOK, InRange, sideVars, logVars

LEMMA MarkTypes ==
    ASSUME Types, Marks
    PROVE  /\ Types' /\ worker'.at = "giveup"
           /\ worker'.keep = worker.keep /\ worker'.fix = worker.fix
<1>1. /\ worker' \in Worker /\ worker'.at = "giveup"
      /\ worker'.keep = worker.keep /\ worker'.fix = worker.fix
  BY Stepping DEF Marks, Types, TypeOK, Settling
<1>2. job' \in JobStatus
  BY DEF Marks, Types, TypeOK, JobStatus, Open
<1> QED BY <1>1, <1>2 DEF Marks, Types, TypeOK, InRange, sideVars, logVars

LEMMA GiveUpTypes ==
    ASSUME Types, GivesUp
    PROVE  /\ Types' /\ worker'.at = "idle"
           /\ outbox'.st = IF worker.keep THEN "retryable_failed" ELSE "failed"
<1>1. /\ outbox' \in Outbox
      /\ outbox'.st = IF worker.keep THEN "retryable_failed" ELSE "failed"
  BY DEF GivesUp, Types, TypeOK, Outbox
<1> QED BY <1>1, Constants DEF GivesUp, Idle, Types, TypeOK, InRange, sideVars, logVars

LEMMA WorkerRaiseTypes ==
    ASSUME Types, WorkerRaises
    PROVE  /\ Types' /\ worker.at # "idle" /\ trouble' = trouble + 1
           /\ \/ worker'.at = "caught"
              \/ worker.at \in Settling \cup {"load"} /\ worker'.at = "idle"
<1>1. trouble' \in 0..MaxTrouble /\ trouble' = trouble + 1
  BY IngestAssumption DEF WorkerRaises, Trouble, Types, TypeOK
<1>2. worker' \in Worker /\ \/ worker'.at = "caught"
                            \/ worker.at \in Settling \cup {"load"} /\ worker'.at = "idle"
  <2>1. CASE Catch
    BY <2>1, Catching
  <2>2. CASE worker.at \in Settling \cup {"load"} /\ worker' = Idle
    BY <2>2, Constants DEF Idle
  <2> QED BY <2>1, <2>2 DEF WorkerRaises
<1>3. worker.at # "idle"
  BY DEF WorkerRaises, Delivering, Settling
<1> QED BY <1>1, <1>2, <1>3 DEF WorkerRaises, Types, TypeOK, InRange, sideVars

LEMMA DueTypes == ASSUME Types, ComesDue PROVE Types' /\ outbox'.st = outbox.st
<1>1. outbox' \in Outbox /\ outbox'.st = outbox.st
  BY DEF ComesDue, Types, TypeOK, Outbox
<1> QED BY <1>1 DEF ComesDue, Types, TypeOK, InRange, sideVars, logVars

\* The operator, the clean-up, n8n and the restart.
LEMMA RetryTypes == ASSUME Types, Retries PROVE Types' /\ manual' = manual + 1 /\ slips \subseteq slips'
<1>1. manual' \in 0..MaxManual /\ manual' = manual + 1
  <2>1. manual < MaxManual /\ manual' = manual + 1
    BY DEF Retries
  <2> QED BY <2>1, IngestAssumption DEF Types, TypeOK
<1>2. slips' \subseteq Slip /\ slips \subseteq slips'
  <2>1. \E S, T \in SUBSET Slip : slips' = slips \cup S \cup T
    <3> DEFINE A == IF worker.at # "idle" THEN {"overlap"} ELSE {}
    <3> DEFINE B == IF Storing THEN {"cut", "overlap"} ELSE {}
    <3>1. A \in SUBSET Slip /\ B \in SUBSET Slip
      BY DEF Slip
    <3>2. slips' = slips \cup A \cup B
      BY DEF Retries
    <3> HIDE DEF A, B
    <3> QED BY <3>1, <3>2
  <2> QED BY <2>1 DEF Types, TypeOK
<1> QED BY <1>1, <1>2 DEF Retries, Types, TypeOK, InRange, JobStatus, Open

LEMMA RetryEnqueueTypes ==
    ASSUME Types, RetryEnqueues
    PROVE  /\ Types' /\ slips \subseteq slips' /\ trouble <= trouble'
           /\ outbox'.st = "queued" \/ (outbox' = outbox /\ "half" \in slips')
<1>1. CASE outbox' = Enqueued /\ UNCHANGED <<slips, trouble>>
  <2>1. outbox' \in Outbox /\ outbox'.st = "queued"
    BY <1>1, Enqueueing DEF Types, TypeOK
  <2>2. trouble \in 0..MaxTrouble /\ trouble <= trouble'
    BY <1>1, IngestAssumption DEF Types, TypeOK
  <2> QED BY <1>1, <2>1, <2>2 DEF RetryEnqueues, Types, TypeOK, InRange
<1>2. CASE Trouble /\ slips' = slips \cup {"half"} /\ UNCHANGED outbox
  <2>1. trouble' \in 0..MaxTrouble /\ trouble <= trouble'
    BY <1>2, IngestAssumption DEF Trouble, Types, TypeOK
  <2>2. slips' \subseteq Slip
    BY <1>2 DEF Types, TypeOK, Slip
  <2> QED BY <1>2, <2>1, <2>2 DEF RetryEnqueues, Types, TypeOK, InRange
<1> QED BY <1>1, <1>2 DEF RetryEnqueues

LEMMA CleanTypes ==
    ASSUME Types, NEW i \in Media, CleansUp(i)
    PROVE  /\ Types' /\ trouble <= trouble' /\ worker'.at = worker.at
           /\ worker'.keep = worker.keep /\ worker'.fix = worker.fix
           /\ \A h \in Handler : ingress'[h].at = ingress[h].at
<1>1. trouble' \in 0..MaxTrouble /\ trouble <= trouble'
  BY IngestAssumption DEF CleansUp, Trouble, Types, TypeOK
<1>2. CASE /\ asset' = [asset EXCEPT ![i].file = FALSE] /\ UNCHANGED <<ingress, worker>>
  <2>1. asset' \in [Media -> Asset]
    BY <1>2 DEF Types, TypeOK, Asset
  <2> QED BY <1>1, <1>2, <2>1 DEF CleansUp, Types, TypeOK, InRange, sideVars
<1>3. CASE /\ worker' = [worker EXCEPT !.files = worker.files \ {i}] /\ UNCHANGED <<asset, ingress>>
  <2>1. /\ worker' \in Worker /\ worker'.at = worker.at
        /\ worker'.keep = worker.keep /\ worker'.fix = worker.fix
    BY <1>3 DEF Types, TypeOK, Worker
  <2> QED BY <1>1, <1>3, <2>1 DEF CleansUp, Types, TypeOK, InRange, sideVars
<1>4. ASSUME NEW h \in Handler, Goes(h, [ingress[h] EXCEPT !.files = ingress[h].files \ {i}]),
             UNCHANGED <<asset, worker>>
      PROVE  Types' /\ worker' = worker /\ \A g \in Handler : ingress'[g].at = ingress[g].at
  <2> DEFINE x == [ingress[h] EXCEPT !.files = ingress[h].files \ {i}]
  <2>1. ingress[h] \in Ingress /\ Within(ingress[h])
    BY DEF Types, TypeOK, InRange
  <2>2. x \in Ingress /\ Within(x) /\ x.at = ingress[h].at
    BY <2>1 DEF Ingress, Within
  <2>3. Goes(h, x)
    BY <1>4
  <2> HIDE DEF x
  <2>4. ingress' \in [Handler -> Ingress] /\ InRange' /\ ingress'[h] = x
        /\ \A g \in Handler \ {h} : ingress'[g] = ingress[g]
    BY <2>2, <2>3, Going
  <2> QED BY <1>1, <1>4, <2>2, <2>4 DEF CleansUp, Types, TypeOK, sideVars
<1> QED BY <1>1, <1>2, <1>3, <1>4 DEF CleansUp

LEMMA ReportTypes ==
    ASSUME Types, Reported \/ Analysed
    PROVE  Types' /\ job' \in {job, "analysis_pending", "completed"}
BY DEF Reported, Analysed, Types, TypeOK, InRange, JobStatus, Done, logVars

LEMMA RestartTypes ==
    ASSUME Types, Restart
    PROVE  /\ Types' /\ worker'.at = "idle" /\ trouble' = trouble + 1 /\ slips \subseteq slips'
           /\ \A h \in Handler : ingress'[h].at = "idle"
           /\ job \in Open /\ outbox.st = "none" => outbox'.st = "queued"
           /\ ~(job \in Open /\ outbox.st = "none") => outbox' = outbox
<1>1. trouble' \in 0..MaxTrouble /\ trouble' = trouble + 1
  BY IngestAssumption DEF Restart, Trouble, Types, TypeOK
<1>2. ingress' \in [Handler -> Ingress] /\ InRange' /\ \A h \in Handler : ingress'[h].at = "idle"
  BY AwayWithin DEF Restart, InRange
<1>3. outbox' \in Outbox
  BY Enqueueing DEF Restart, Types, TypeOK
<1>4. slips' \subseteq Slip /\ slips \subseteq slips'
  BY DEF Restart, Types, TypeOK, Slip
<1>5. worker' \in Worker /\ worker'.at = "idle"
  BY Constants DEF Restart, Idle
<1>6. /\ job \in Open /\ outbox.st = "none" => outbox'.st = "queued"
      /\ ~(job \in Open /\ outbox.st = "none") => outbox' = outbox
  BY Enqueueing DEF Restart, Types, TypeOK
<1> QED BY <1>1, <1>2, <1>3, <1>4, <1>5, <1>6 DEF Restart, Types, TypeOK

\* What a step may be.
LEMMA Steps ==
    ASSUME Next
    PROVE  \/ \E h \in Handler : \/ Receive(h) \/ Creates(h) \/ Records(h) \/ RecordsParts(h) \/ Queues(h)
                                \/ Enqueues(h) \/ Refuses(h) \/ IngressRaises(h)
           \/ Claims \/ Redownloads \/ CannotLoad \/ Loads \/ Filters \/ Begins
           \/ SkipsPart \/ SendFails \/ SendsText \/ Finishes \/ Closes
           \/ Catches \/ Marks \/ GivesUp \/ AnswerLost \/ WorkerRaises \/ ComesDue
           \/ \E i \in Media : Rerecords(i) \/ RerecordsParts(i) \/ SendsPart(i) \/ Finalizes(i) \/ CleansUp(i)
           \/ Retries \/ RetryEnqueues \/ Reported \/ Analysed \/ Restart
BY DEF Next, IngressStep, WorkerStep

LEMMA StepTypes == Types /\ [Next]_vars => Types'
<1> SUFFICES ASSUME Types, [Next]_vars PROVE Types'
  OBVIOUS
<1>1. CASE UNCHANGED vars
  BY <1>1 DEF Types, TypeOK, InRange, vars
<1>2. CASE Next
  <2>1. CASE \E h \in Handler : \/ Receive(h) \/ Creates(h) \/ Records(h) \/ RecordsParts(h) \/ Queues(h)
                               \/ Enqueues(h) \/ Refuses(h) \/ IngressRaises(h)
    BY <2>1, ReceiveTypes, CreateTypes, RecordTypes, RecordPartsTypes, QueueTypes, EnqueueTypes, RefuseTypes, RaiseTypes
  <2>2. CASE Claims \/ Redownloads \/ CannotLoad \/ Loads \/ Filters \/ Begins
    BY <2>2, ClaimTypes, LoadTypes, FailTypes, FilterTypes, BeginTypes
  <2>3. CASE SkipsPart \/ SendFails \/ SendsText \/ Finishes \/ Closes
    BY <2>3, PartTypes, FailTypes, TextTypes, FinishTypes, CloseTypes
  <2>4. CASE Catches \/ Marks \/ GivesUp \/ AnswerLost \/ WorkerRaises \/ ComesDue
    BY <2>4, CatchTypes, MarkTypes, GiveUpTypes, LostTypes, WorkerRaiseTypes, DueTypes
  <2>5. CASE \E i \in Media : Rerecords(i) \/ RerecordsParts(i) \/ SendsPart(i) \/ Finalizes(i) \/ CleansUp(i)
    BY <2>5, RerecordTypes, RerecordPartsTypes, PartTypes, FinalizeTypes, CleanTypes
  <2>6. CASE Retries \/ RetryEnqueues \/ Reported \/ Analysed \/ Restart
    BY <2>6, RetryTypes, RetryEnqueueTypes, ReportTypes, RestartTypes
  <2> QED BY <1>2, Steps, <2>1, <2>2, <2>3, <2>4, <2>5, <2>6
<1> QED BY <1>1, <1>2

LEMMA AlwaysTyped == Spec => []Types
BY InitTypes, StepTypes, PTL DEF Spec

\* The ledger rows, the ingresses and the worker keep their types: no media
\* loop runs past the message's media.
THEOREM IngestTypeCorrect == Spec => []TypeOK
<1>1. Types => TypeOK
  BY DEF Types
<1> QED BY <1>1, AlwaysTyped, PTL

-----------------------------------------------------------------------------
(* Submissions are bounded, and no job is stranded                         *)

Live == {"queued", "processing", "retryable_failed"}
Stores(h) == ingress[h].at \in {"record", "parts", "queue", "enqueue", "refuse"}

\* One ingress at most has made the job; before it nothing else has begun.
Single == \A g, h \in Handler : Stores(g) /\ Stores(h) => g = h
Untouched ==
    job = "none" => ~Storing /\ ~retrying /\ outbox.st = "none" /\ worker.at = "idle"

\* While the worker works, the row it claimed is live; that it works, or that
\* there is a row, while the ingress still stores, is a retry's doing.
Held == worker.at # "idle" => outbox.st \in Live
Early ==
    Storing /\ (worker.at # "idle" \/ outbox.st # "none" \/ retrying) => "overlap" \in slips

\* The submissions that may still come.
Pending == IF outbox.st \in Live /\ worker.at \notin {"finish", "close"} THEN 1 ELSE 0
Arriving == IF job = "none" \/ Storing THEN 1 ELSE 0
Asked == IF retrying THEN 1 ELSE 0
Budget == sent + Pending + Arriving + Asked <= 1 + manual + trouble

\* What the worker knows of the job when it ends.
Closing == worker.at = "close" /\ job \in Open => Excused
GivingUp ==
    worker.at \in {"mark", "giveup"} =>
        (worker.fix => worker.keep) /\ (~worker.keep /\ job \in Open => Excused)
Served ==
    job \in Open /\ ~Excused => outbox.st \in Live \/ Storing \/ retrying

Order == Single /\ Untouched /\ Held /\ Early
Ends == Closing /\ GivingUp /\ Served
Sound == Order /\ Budget /\ Ends

LEMMA InitSound == Init => Sound
<1> SUFFICES ASSUME Init PROVE Sound
  OBVIOUS
<1>1. worker.at = "idle" /\ outbox.st = "none" /\ \A h \in Handler : ingress[h].at = "idle"
  BY DEF Init, Idle, Away
<1>2. ~Storing /\ Single
  BY <1>1 DEF Storing, Single, Stores
<1>3. Order /\ Ends
  BY <1>1, <1>2 DEF Init, Order, Untouched, Held, Early, Ends, Closing, GivingUp, Served, Open, Live
<1>4. Budget
  <2>1. Pending = 0 /\ Arriving = 1 /\ Asked = 0
    BY <1>1 DEF Init, Pending, Arriving, Asked, Live
  <2> QED BY <2>1 DEF Init, Budget
<1> QED BY <1>3, <1>4 DEF Sound

LEMMA Weights ==
    /\ Pending \in {0, 1} /\ Arriving \in {0, 1} /\ Asked \in {0, 1}
    /\ Pending' \in {0, 1} /\ Arriving' \in {0, 1} /\ Asked' \in {0, 1}
BY DEF Pending, Arriving, Asked

\* Steps that leave the ingresses where they are keep Single and Storing.
LEMMA SameIngress ==
    ASSUME \A h \in Handler : ingress'[h].at = ingress[h].at, Single
    PROVE  Single' /\ (Storing' <=> Storing)
BY DEF Single, Stores, Storing

LEMMA Balance ==
    ASSUME NEW s \in Nat, NEW p \in Nat, NEW a \in Nat, NEW k \in Nat, NEW m \in Nat, NEW t \in Nat,
           NEW s1 \in Nat, NEW p1 \in Nat, NEW t1 \in Nat,
           s + p + a + k <= 1 + m + t, s1 + p1 + t <= s + p + t1
    PROVE  s1 + p1 + a + k <= 1 + m + t1
OBVIOUS

\* The budget of a step that keeps Arriving and Asked.
LEMMA Spends ==
    ASSUME Types, Types', Budget, Arriving' = Arriving, Asked' = Asked, manual' = manual,
           sent' + Pending' + trouble <= sent + Pending + trouble'
    PROVE  Budget'
<1> DEFINE p1 == Pending'
<1> DEFINE s1 == sent'
<1> DEFINE t1 == trouble'
<1>1. sent \in Nat /\ manual \in Nat /\ trouble \in Nat /\ s1 \in Nat /\ t1 \in Nat
  BY IngestAssumption DEF Types, TypeOK
<1>2. Pending \in Nat /\ Arriving \in Nat /\ Asked \in Nat /\ p1 \in Nat
  BY Weights
<1>3. s1 + p1 + trouble <= sent + Pending + t1
  OBVIOUS
<1>4. sent + Pending + Arriving + Asked <= 1 + manual + trouble
  BY DEF Budget
<1>5. Budget' <=> s1 + p1 + Arriving + Asked <= 1 + manual + t1
  BY DEF Budget
<1> HIDE DEF p1, s1, t1
<1>6. s1 + p1 + Arriving + Asked <= 1 + manual + t1
  BY <1>1, <1>2, <1>3, <1>4, Balance
<1> QED BY <1>5, <1>6

\* What is shared by the worker's steps: the job stays made, the row lives or
\* the worker has left it, and nothing else moves.
LEMMA WorkerOrder ==
    ASSUME Types, Order, ingress' = ingress, retrying' = retrying, slips' = slips,
           worker.at # "idle", job' # "none",
           worker'.at # "idle" => outbox'.st = outbox.st,
           outbox'.st # "none"
    PROVE  Order' /\ (Storing' <=> Storing) /\ Arriving' = Arriving /\ Asked' = Asked
<1>1. Single' /\ (Storing' <=> Storing)
  BY SameIngress DEF Order
<1>2. Untouched' /\ Held' /\ Early'
  BY <1>1 DEF Order, Untouched, Held, Early, Live
<1>3. job # "none"
  BY DEF Order, Untouched
<1>4. Arriving' = Arriving /\ Asked' = Asked
  BY <1>1, <1>3 DEF Arriving, Asked
<1> QED BY <1>1, <1>2, <1>4 DEF Order

\* A step of a worker that stays at work on the row it claimed.
LEMMA Working ==
    ASSUME Types, Types', Sound, ingress' = ingress, retrying' = retrying, slips' = slips,
           manual' = manual, worker.at # "idle", worker'.at # "idle", outbox'.st = outbox.st,
           job' # "none", Closing', GivingUp',
           sent' + Pending' + trouble <= sent + Pending + trouble'
    PROVE  Sound'
<1>1. outbox.st \in Live /\ outbox.st # "none"
  BY DEF Sound, Order, Held, Live
<1>2. Order' /\ Arriving' = Arriving /\ Asked' = Asked
  BY <1>1, WorkerOrder DEF Sound
<1>3. Budget'
  BY <1>2, Spends DEF Sound
<1>4. Served'
  BY <1>1 DEF Served
<1> QED BY <1>2, <1>3, <1>4 DEF Sound, Ends

\* What a worker at work still has to send.
LEMMA Owing ==
    ASSUME Sound, worker.at # "idle"
    PROVE  /\ job # "none" /\ outbox.st \in Live
           /\ worker.at \notin {"finish", "close"} => Pending = 1
           /\ worker.at \in {"finish", "close"} => Pending = 0
BY DEF Sound, Order, Untouched, Held, Pending

\* Steps that send nothing: Pending does not grow.
LEMMA Idling ==
    ASSUME Types, Pending' = Pending, sent' = sent, trouble' = trouble
    PROVE  sent' + Pending' + trouble <= sent + Pending + trouble'
<1>1. sent \in Nat /\ trouble \in Nat /\ Pending \in Nat
  BY Weights, IngestAssumption DEF Types, TypeOK
<1> QED BY <1>1

LEMMA QuietSound ==
    ASSUME Types, Types', Sound, worker.at \notin {"idle", "finish", "close"},
           worker'.at \notin {"idle", "finish", "close"}, outbox' = outbox, ingress' = ingress,
           UNCHANGED <<sideVars, logVars>>, job' # "none", GivingUp'
    PROVE  Sound'
<1>1. Pending = 1 /\ outbox.st \in Live
  BY Owing
<1>2. Pending' = 1
  BY <1>1 DEF Pending
<1>3. sent' + Pending' + trouble <= sent + Pending + trouble'
  BY <1>1, <1>2, Idling DEF logVars
<1>4. Closing'
  BY DEF Closing
<1> QED BY <1>3, <1>4, Working DEF sideVars, logVars

LEMMA LoadSound == ASSUME Types, Sound, Redownloads \/ Loads PROVE Sound'
<1>1. Types' /\ worker.at = "load" /\ worker'.at \in {"begin", "filter"}
  BY LoadTypes
<1>2. job # "none" /\ GivingUp'
  BY <1>1, Owing DEF GivingUp
<1> QED BY <1>1, <1>2, QuietSound DEF Redownloads, Loads

LEMMA FailSound == ASSUME Types, Sound, CannotLoad \/ SendFails PROVE Sound'
<1>1. Types' /\ worker.at \in {"load", "send", "finalize"} /\ worker'.at = "caught"
  BY FailTypes
<1>2. job # "none" /\ GivingUp'
  BY <1>1, Owing DEF GivingUp
<1> QED BY <1>1, <1>2, QuietSound DEF CannotLoad, SendFails

LEMMA BeginSound ==
    ASSUME Types, Sound, Begins \/ \E i \in Media : Rerecords(i) \/ RerecordsParts(i)
    PROVE  Sound'
<1>1. /\ Types' /\ worker.at \in {"begin", "assets", "parts"}
      /\ worker'.at \in {"send", "assets", "parts"}
  BY BeginTypes, RerecordTypes, RerecordPartsTypes DEF Begins
<1>2. job # "none" /\ GivingUp'
  BY <1>1, Owing DEF GivingUp
<1>3. job' # "none"
  BY <1>2 DEF Begins, Rerecords, RerecordsParts
<1>4. UNCHANGED <<outbox, ingress, sideVars, logVars>>
  BY DEF Begins, Rerecords, RerecordsParts
<1> QED BY <1>1, <1>2, <1>3, <1>4, QuietSound

LEMMA PartSound ==
    ASSUME Types, Sound, SkipsPart \/ \E i \in Media : SendsPart(i)
    PROVE  Sound'
<1>1. Types' /\ worker.at = "send" /\ worker'.at = "finalize"
  BY PartTypes
<1>2. job # "none" /\ GivingUp'
  BY <1>1, Owing DEF GivingUp
<1>3. job' # "none"
  BY <1>2 DEF SkipsPart, SendsPart
<1> QED BY <1>1, <1>2, <1>3, QuietSound DEF SkipsPart, SendsPart

\* A catch block that will give up read the job as failed.
LEMMA CatchSound == ASSUME Types, Sound, Catches PROVE Sound'
<1>1. /\ Types' /\ worker'.at = "mark" /\ (worker'.keep <=> job # "failed")
      /\ (worker'.fix <=> job \notin {"failed", "retryable_failed"})
  BY CatchTypes
<1>2. worker.at = "caught" /\ job' = job
  BY DEF Catches
<1>3. job # "none"
  BY <1>2, Owing
<1>4. GivingUp'
  BY <1>1, <1>2 DEF GivingUp, Open
<1> QED BY <1>1, <1>2, <1>3, <1>4, QuietSound DEF Catches

LEMMA MarkSound == ASSUME Types, Sound, Marks PROVE Sound'
<1>1. /\ Types' /\ worker'.at = "giveup"
      /\ worker'.keep = worker.keep /\ worker'.fix = worker.fix
  BY MarkTypes
<1>2. worker.at = "mark" /\ job' = (IF worker.fix THEN "retryable_failed" ELSE job)
  BY DEF Marks
<1>3. job # "none" /\ GivingUp
  BY <1>2, Owing DEF Sound, Ends
<1>4. job' # "none" /\ slips' = slips
  BY <1>2, <1>3 DEF Marks, logVars
<1>5. GivingUp'
  BY <1>1, <1>2, <1>3, <1>4 DEF GivingUp, Excused
<1> QED BY <1>1, <1>2, <1>4, <1>5, QuietSound DEF Marks

\* The submission itself turns what was pending into what is sent.
LEMMA SendSound ==
    ASSUME Types, Sound, SendsText \/ \E i \in Media : Finalizes(i)
    PROVE  Sound'
<1>1. /\ Types' /\ worker.at \in {"send", "finalize"}
      /\ \/ worker'.at = "finish" /\ sent' = sent + 1
         \/ worker'.at = "send" /\ sent' = sent
  BY TextTypes, FinalizeTypes DEF Finalizes
<1>2. Pending = 1 /\ outbox.st \in Live /\ job # "none"
  BY <1>1, Owing
<1>3. UNCHANGED <<outbox, ingress, retrying, slips, manual, trouble>>
  BY FinalizeTypes DEF SendsText, Finalizes, Submitted, sideVars
<1>4. Pending' = IF worker'.at = "finish" THEN 0 ELSE 1
  BY <1>1, <1>2, <1>3 DEF Pending
<1>5. sent' + Pending' + trouble <= sent + Pending + trouble'
  <2>1. sent \in Nat /\ trouble \in Nat /\ trouble' = trouble
    BY <1>3, IngestAssumption DEF Types, TypeOK
  <2>2. sent' + Pending' = sent + 1
    BY <1>1, <1>4, <2>1
  <2> QED BY <1>2, <2>1, <2>2
<1>6. Closing' /\ GivingUp' /\ worker'.at # "idle"
  BY <1>1 DEF Closing, GivingUp
<1>7. job' # "none"
  BY <1>2 DEF SendsText, Finalizes
<1> QED BY <1>1, <1>3, <1>5, <1>6, <1>7, Working

\* An answer lost is paid for by the trouble it is.
LEMMA LostSound == ASSUME Types, Sound, AnswerLost PROVE Sound'
<1>1. /\ Types' /\ worker.at \in {"send", "finalize"} /\ worker'.at = "caught"
      /\ sent' = sent + 1 /\ trouble' = trouble + 1
  BY LostTypes
<1>2. Pending = 1 /\ outbox.st \in Live /\ job # "none"
  BY <1>1, Owing
<1>3. UNCHANGED <<job, outbox, ingress, retrying, slips, manual>>
  BY DEF AnswerLost, Submitted, sideVars
<1>4. Pending' = 1
  BY <1>1, <1>2, <1>3 DEF Pending
<1>5. sent' + Pending' + trouble <= sent + Pending + trouble'
  <2>1. sent \in Nat /\ trouble \in Nat
    BY IngestAssumption DEF Types, TypeOK
  <2> QED BY <1>1, <1>2, <1>4, <2>1
<1>6. Closing' /\ GivingUp'
  BY <1>1 DEF Closing, GivingUp
<1> QED BY <1>1, <1>2, <1>3, <1>5, <1>6, Working

LEMMA FinishSound == ASSUME Types, Sound, Finishes \/ Filters PROVE Sound'
<1>1. Types' /\ worker.at \in {"finish", "filter"} /\ worker'.at = "close"
  BY FinishTypes, FilterTypes DEF Finishes, Filters
<1>2. Pending \in {0, 1} /\ outbox.st \in Live
  BY <1>1, Owing, Weights
<1>3. UNCHANGED <<outbox, ingress, retrying, slips, manual, trouble, sent>>
  BY DEF Finishes, Filters, sideVars, logVars
<1>4. job' \in {"completed", "filtered"}
  BY DEF Finishes, Filters
<1>5. Pending' = 0
  BY <1>1 DEF Pending
<1>6. sent' + Pending' + trouble <= sent + Pending + trouble'
  <2>1. sent \in Nat /\ trouble \in Nat
    BY IngestAssumption DEF Types, TypeOK
  <2> QED BY <1>2, <1>3, <1>5, <2>1
<1>7. Closing' /\ GivingUp'
  BY <1>1, <1>4 DEF Closing, GivingUp, Open
<1> QED BY <1>1, <1>3, <1>4, <1>6, <1>7, Working

\* A worker that raises owes the submission again, or leaves its live row.
LEMMA WorkerRaiseSound == ASSUME Types, Sound, WorkerRaises PROVE Sound'
<1>1. /\ Types' /\ worker.at # "idle" /\ trouble' = trouble + 1
      /\ \/ worker'.at = "caught"
         \/ worker.at \in Settling \cup {"load"} /\ worker'.at = "idle"
  BY WorkerRaiseTypes
<1>2. Pending \in {0, 1} /\ Pending' \in {0, 1} /\ outbox.st \in Live /\ job # "none"
  BY <1>1, Owing, Weights
<1>3. UNCHANGED <<job, outbox, ingress, retrying, slips, manual, sent>>
  BY DEF WorkerRaises, sideVars
<1>4. sent' + Pending' + trouble <= sent + Pending + trouble'
  <2>1. sent \in Nat /\ trouble \in Nat
    BY IngestAssumption DEF Types, TypeOK
  <2>2. (Pending' = 0 \/ Pending' = 1) /\ (Pending = 0 \/ Pending = 1)
    BY <1>2
  <2>3. sent' = sent
    BY <1>3
  <2> QED BY <1>1, <2>1, <2>2, <2>3
<1>5. Closing' /\ GivingUp'
  BY <1>1 DEF Closing, GivingUp
<1>6. outbox'.st # "none" /\ outbox'.st \in Live
  BY <1>2, <1>3 DEF Live
<1>7. Order' /\ Arriving' = Arriving /\ Asked' = Asked
  BY <1>1, <1>2, <1>3, <1>6, WorkerOrder DEF Sound
<1>8. Budget'
  BY <1>1, <1>3, <1>4, <1>7, Spends DEF Sound
<1> QED BY <1>5, <1>6, <1>7, <1>8 DEF Sound, Ends, Served

\* A claim takes a live row, when the worker is free.
LEMMA ClaimSound == ASSUME Types, Sound, Claims PROVE Sound'
<1>1. Types' /\ worker'.at = "load" /\ outbox'.st = "processing"
  BY ClaimTypes
<1>2. outbox.st \in Live /\ outbox.st # "none" /\ worker.at = "idle"
  BY DEF Claims, Claimable, Live
<1>3. UNCHANGED <<job, ingress, retrying, slips, manual, trouble, sent>>
  BY DEF Claims, sideVars, logVars
<1>4. Single' /\ (Storing' <=> Storing) /\ job # "none"
  BY <1>2, <1>3, SameIngress DEF Sound, Order, Untouched
<1>5. Early
  BY DEF Sound, Order
<1>6. Early'
  BY <1>2, <1>3, <1>4, <1>5 DEF Early
<1>7. Untouched' /\ Held'
  BY <1>1, <1>3, <1>4 DEF Untouched, Held, Live
<1>8. Pending' = Pending /\ Arriving' = Arriving /\ Asked' = Asked
  BY <1>1, <1>2, <1>3, <1>4 DEF Pending, Arriving, Asked, Live
<1>9. Budget'
  BY <1>1, <1>3, <1>8, Idling, Spends DEF Sound
<1>10. Ends'
  BY <1>1 DEF Ends, Closing, GivingUp, Served, Live
<1> QED BY <1>4, <1>6, <1>7, <1>9, <1>10 DEF Sound, Order

\* A worker that closes its row, or gives it up, leaves no open job behind.
LEMMA LeaveSound == ASSUME Types, Sound, Closes \/ GivesUp PROVE Sound'
<1>1. /\ Types' /\ worker.at \in {"close", "giveup"} /\ worker'.at = "idle"
      /\ outbox'.st \in {"completed", "failed", "retryable_failed"}
      /\ worker.at = "giveup" /\ worker.keep => outbox'.st = "retryable_failed"
      /\ worker.at = "close" => outbox'.st = "completed"
  BY CloseTypes, GiveUpTypes DEF Closes, GivesUp
<1>2. outbox.st \in Live /\ job # "none"
      /\ (worker.at = "giveup" => Pending = 1) /\ (worker.at = "close" => Pending = 0)
  BY <1>1, Owing
<1>3. UNCHANGED <<job, ingress, retrying, slips, manual, trouble, sent>>
  BY DEF Closes, GivesUp, sideVars, logVars
<1>4. Order' /\ (Storing' <=> Storing) /\ Arriving' = Arriving /\ Asked' = Asked
  BY <1>1, <1>2, <1>3, WorkerOrder DEF Sound
<1>5. Pending' \in {0, 1} /\ (worker.at = "close" => Pending' = 0)
  BY <1>1, Weights DEF Pending, Live
<1>6. sent' + Pending' + trouble <= sent + Pending + trouble'
  <2>1. sent \in Nat /\ trouble \in Nat /\ sent' = sent /\ trouble' = trouble
    BY <1>3, IngestAssumption DEF Types, TypeOK
  <2>2. (Pending' = 0 \/ Pending' = 1) /\ (Pending = 0 \/ Pending = 1)
    BY <1>5, Weights
  <2>3. Pending' = 0 \/ Pending = 1
    BY <1>1, <1>2, <1>5
  <2> QED BY <2>1, <2>2, <2>3
<1>7. Budget'
  BY <1>1, <1>3, <1>4, <1>6, Spends DEF Sound
<1>8. Closing' /\ GivingUp'
  BY <1>1 DEF Closing, GivingUp
<1>9. Served'
  <2>1. Closing /\ GivingUp
    BY DEF Sound, Ends
  <2>2. CASE worker.at = "close"
    BY <1>3, <2>1, <2>2 DEF Closing, Served, Excused
  <2>3. CASE worker.at = "giveup" /\ worker.keep
    BY <1>1, <2>3 DEF Served, Live
  <2>4. CASE worker.at = "giveup" /\ ~worker.keep
    BY <1>3, <2>1, <2>4 DEF GivingUp, Served, Excused
  <2> QED BY <1>1, <2>2, <2>3, <2>4
<1> QED BY <1>4, <1>7, <1>8, <1>9 DEF Sound, Ends

\* How the step of one ingress bears on who stores the message.
LEMMA StoresOn ==
    ASSUME Single, NEW h \in Handler, \A g \in Handler \ {h} : ingress'[g] = ingress[g],
           (ingress'[h].at \in {"record", "parts", "queue", "enqueue", "refuse"})
              <=> (ingress[h].at \in {"record", "parts", "queue", "enqueue", "refuse"})
    PROVE  Single' /\ (Storing' <=> Storing)
<1>1. \A g \in Handler : Stores(g)' <=> Stores(g)
  BY DEF Stores
<1>2. (Storing <=> \E g \in Handler : Stores(g)) /\ (Storing' <=> \E g \in Handler : Stores(g)')
  BY DEF Storing, Stores
<1> QED BY <1>1, <1>2 DEF Single

LEMMA StoresBegin ==
    ASSUME ~Storing, NEW h \in Handler, \A g \in Handler \ {h} : ingress'[g] = ingress[g],
           ingress'[h].at \in {"record", "queue"}
    PROVE  Single' /\ Storing'
<1>1. \A g \in Handler \ {h} : ~Stores(g)'
  BY DEF Stores, Storing
<1> QED BY <1>1 DEF Single, Stores, Storing

LEMMA StoresEnd ==
    ASSUME Single, NEW h \in Handler, \A g \in Handler \ {h} : ingress'[g] = ingress[g],
           ingress[h].at \in {"record", "parts", "queue", "enqueue", "refuse"}, ingress'[h].at = "idle"
    PROVE  Single' /\ Storing /\ ~Storing'
<1>1. Stores(h) /\ ~Stores(h)'
  BY DEF Stores
<1>2. \A g \in Handler : ~Stores(g)'
  <2>1. \A g \in Handler \ {h} : ~Stores(g)
    BY <1>1 DEF Single
  <2> QED BY <1>1, <2>1 DEF Stores
<1>3. (Storing <=> \E g \in Handler : Stores(g)) /\ (Storing' <=> \E g \in Handler : Stores(g)')
  BY DEF Storing, Stores
<1> QED BY <1>1, <1>2, <1>3 DEF Single

\* What arrived and what was asked for become what is pending.
LEMMA Trade ==
    ASSUME Types, Types', Budget, UNCHANGED <<sent, manual>>, trouble <= trouble',
           Arriving' + Asked' + 1 = Arriving + Asked
    PROVE  Budget'
<1> DEFINE t1 == trouble'
<1> DEFINE p1 == Pending'
<1> DEFINE a1 == Arriving'
<1> DEFINE k1 == Asked'
<1>1. sent \in Nat /\ manual \in Nat /\ trouble \in Nat /\ t1 \in Nat
  BY IngestAssumption DEF Types, TypeOK
<1>2. (Pending = 0 \/ Pending = 1) /\ (p1 = 0 \/ p1 = 1)
  BY Weights
<1>3. (Arriving = 0 \/ Arriving = 1) /\ (Asked = 0 \/ Asked = 1)
      /\ (a1 = 0 \/ a1 = 1) /\ (k1 = 0 \/ k1 = 1)
  BY Weights
<1>4. sent + Pending + Arriving + Asked <= 1 + manual + trouble
  BY DEF Budget
<1>5. a1 + k1 + 1 = Arriving + Asked /\ trouble <= t1
  OBVIOUS
<1>6. Budget' <=> sent + p1 + a1 + k1 <= 1 + manual + t1
  BY DEF Budget
<1> HIDE DEF t1, p1, a1, k1
<1>7. sent + p1 + a1 + k1 <= 1 + manual + t1
  <2>1. p1 <= Pending + 1
    BY <1>2
  <2>2. sent + p1 + a1 + k1 <= sent + Pending + Arriving + Asked
    BY <1>1, <1>2, <1>3, <1>5, <2>1
  <2> QED BY <1>1, <1>2, <1>3, <1>4, <1>5, <2>2
<1> QED BY <1>6, <1>7

\* A step that leaves the row, the worker and the retry where they are, and
\* opens the job only while an ingress stores it.
LEMMA Steady ==
    ASSUME Types, Types', Sound, Single', Storing' <=> Storing,
           outbox'.st = outbox.st, worker'.at = worker.at, worker'.keep = worker.keep,
           worker'.fix = worker.fix, UNCHANGED <<retrying, sent, manual>>,
           trouble <= trouble', slips \subseteq slips', job' = "none" => job = "none",
           job' \in Open => job \in Open \/ Storing
    PROVE  Sound'
<1>1. Single /\ Untouched /\ Held /\ Early /\ Closing /\ GivingUp /\ Served /\ Budget
  BY DEF Sound, Order, Ends
<1>2. /\ Pending' = Pending /\ Asked' = Asked
      /\ Arriving' = Arriving \/ Arriving' + 1 = Arriving
  BY DEF Pending, Arriving, Asked
<1>3. Budget'
  <2>1. sent \in Nat /\ trouble \in Nat /\ trouble' \in Nat
    BY IngestAssumption DEF Types, TypeOK
  <2>2. Pending = 0 \/ Pending = 1
    BY Weights
  <2>3. sent' + Pending' + trouble <= sent + Pending + trouble'
    BY <1>2, <2>1, <2>2
  <2>4. CASE Arriving' = Arriving
    BY <1>1, <1>2, <2>3, <2>4, Spends
  <2>5. CASE Arriving' + 1 = Arriving
    <3>1. (Asked = 0 \/ Asked = 1) /\ (Arriving' = 0 \/ Arriving' = 1)
      BY Weights
    <3>2. Arriving' + Asked' + 1 = Arriving + Asked
      BY <1>2, <2>5, <3>1
    <3> QED BY <1>1, <3>2, Trade
  <2> QED BY <1>2, <2>4, <2>5
<1>4. Untouched' /\ Held' /\ Early'
  BY <1>1 DEF Untouched, Held, Early
<1>5. Excused => Excused'
  BY DEF Excused
<1>6. Storing /\ worker.at # "idle" => Excused'
  BY <1>1, <1>5 DEF Early, Excused
<1>7. Closing' /\ GivingUp' /\ Served'
  BY <1>1, <1>5, <1>6 DEF Closing, GivingUp, Served
<1> QED BY <1>3, <1>4, <1>7 DEF Sound, Order, Ends

LEMMA ReceiveSound == ASSUME Types, Sound, NEW h \in Handler, Receive(h) PROVE Sound'
<1>1. /\ Types' /\ ingress'[h].at \in {"idle", "create"}
      /\ \A g \in Handler \ {h} : ingress'[g] = ingress[g]
  BY ReceiveTypes
<1>2. ingress[h].at = "idle" /\ UNCHANGED <<job, outbox, worker, sideVars, logVars>>
  BY DEF Receive
<1>3. Single' /\ (Storing' <=> Storing)
  BY <1>1, <1>2, StoresOn DEF Sound, Order
<1>4. trouble <= trouble'
  BY <1>2, IngestAssumption DEF Types, TypeOK, logVars
<1> QED BY <1>1, <1>2, <1>3, <1>4, Steady DEF sideVars, logVars

LEMMA CreateSound == ASSUME Types, Sound, NEW h \in Handler, Creates(h) PROVE Sound'
<1>1. /\ Types' /\ ingress'[h].at \in {"idle", "record", "queue"}
      /\ \A g \in Handler \ {h} : ingress'[g] = ingress[g]
  BY CreateTypes
<1>2. ingress[h].at = "create" /\ UNCHANGED <<outbox, worker, sideVars, logVars>>
  BY DEF Creates
<1>3. trouble <= trouble'
  BY <1>2, IngestAssumption DEF Types, TypeOK, logVars
<1>4. CASE ~Unseen
  <2>1. ingress'[h].at = "idle" /\ job' = job
    BY <1>4, Going, AwayWithin DEF Creates
  <2>2. Single' /\ (Storing' <=> Storing)
    BY <1>1, <1>2, <2>1, StoresOn DEF Sound, Order
  <2> QED BY <1>1, <1>2, <1>3, <2>1, <2>2, Steady DEF sideVars, logVars
<1>5. CASE Unseen
  <2>1. job = "none" /\ job' = "queued"
    BY <1>5 DEF Unseen, Creates
  <2>2. ~Storing /\ ~retrying /\ outbox.st = "none" /\ worker.at = "idle"
    BY <2>1 DEF Sound, Order, Untouched
  <2>3. ingress'[h].at \in {"record", "queue"}
    <3> DEFINE x == [ingress[h] EXCEPT !.at = AfterRecord(1)]
    <3>1. ingress[h] \in Ingress /\ ingress[h].next = 1
      BY <1>2 DEF Types, TypeOK, InRange, Within
    <3>2. x \in Ingress /\ x.at \in {"record", "queue"} /\ Within(x)
      BY <3>1, IngestAssumption DEF Ingress, AfterRecord, Within, Media
    <3>3. Goes(h, x)
      BY <1>5 DEF Creates
    <3> HIDE DEF x
    <3> QED BY <3>2, <3>3, Going
  <2>4. Single' /\ Storing'
    BY <1>1, <2>2, <2>3, StoresBegin
  <2>5. Order'
    BY <1>2, <2>1, <2>2, <2>4 DEF Order, Untouched, Held, Early, sideVars
  <2>6. Pending' = Pending /\ Arriving' = Arriving /\ Asked' = Asked
    BY <1>2, <2>1, <2>4 DEF Pending, Arriving, Asked, sideVars
  <2>7. Budget'
    BY <1>1, <1>2, <2>6, Idling, Spends DEF Sound, logVars
  <2>8. Ends'
    BY <1>2, <2>2, <2>4 DEF Ends, Closing, GivingUp, Served
  <2> QED BY <2>5, <2>7, <2>8 DEF Sound
<1> QED BY <1>4, <1>5

LEMMA StoreSound ==
    ASSUME Types, Sound, NEW h \in Handler, Records(h) \/ RecordsParts(h) \/ Queues(h)
    PROVE  Sound'
<1>1. /\ Types' /\ ingress[h].at \in {"record", "parts", "queue"}
      /\ ingress'[h].at \in {"record", "parts", "queue", "enqueue"}
      /\ \A g \in Handler \ {h} : ingress'[g] = ingress[g]
  BY RecordTypes, RecordPartsTypes, QueueTypes
<1>2. UNCHANGED <<outbox, worker, sideVars, logVars>> /\ job' \in {job, "queued"}
  BY DEF Records, RecordsParts, Queues
<1>3. Single' /\ (Storing' <=> Storing) /\ Storing
  BY <1>1, StoresOn DEF Sound, Order, Storing
<1>4. job # "none"
  BY <1>3 DEF Sound, Order, Untouched
<1>5. trouble <= trouble'
  BY <1>2, IngestAssumption DEF Types, TypeOK, logVars
<1> QED BY <1>1, <1>2, <1>3, <1>4, <1>5, Steady DEF sideVars, logVars

\* An ingress that ends has enqueued the row, failed the job, or left both.
LEMMA Ending ==
    ASSUME Types, Types', Sound, Single', Storing, ~Storing', worker' = worker,
           UNCHANGED <<retrying, sent, manual>>, trouble <= trouble', slips \subseteq slips',
           job' # "none", outbox'.st = outbox.st \/ outbox'.st = "queued",
           job' \in Open => Excused' \/ outbox'.st = "queued"
    PROVE  Sound'
<1>1. Single /\ Untouched /\ Held /\ Early /\ GivingUp /\ Budget
  BY DEF Sound, Order, Ends
<1>2. Order'
  BY <1>1 DEF Order, Untouched, Held, Early, Live
<1>3. Arriving = 1 /\ Arriving' = 0 /\ Asked' = Asked
  BY DEF Arriving, Asked
<1>4. Budget'
  <2>1. Asked = 0 \/ Asked = 1
    BY Weights
  <2>2. Arriving' + Asked' + 1 = Arriving + Asked
    BY <1>3, <2>1
  <2> QED BY <1>1, <2>2, Trade
<1>5. worker.at # "idle" => Excused'
  BY <1>1 DEF Early, Excused
<1>6. Ends'
  BY <1>1, <1>5 DEF Ends, Closing, GivingUp, Served, Live
<1> QED BY <1>2, <1>4, <1>6 DEF Sound

LEMMA EndSound ==
    ASSUME Types, Sound, NEW h \in Handler, Enqueues(h) \/ Refuses(h)
    PROVE  Sound'
<1>1. /\ Types' /\ ingress[h].at \in {"enqueue", "refuse"} /\ ingress'[h].at = "idle"
      /\ \A g \in Handler \ {h} : ingress'[g] = ingress[g]
  BY EnqueueTypes, RefuseTypes
<1>2. UNCHANGED <<worker, retrying, sent, manual, trouble, slips>>
  BY DEF Enqueues, Refuses, sideVars, logVars
<1>3. Single' /\ Storing /\ ~Storing'
  BY <1>1, StoresEnd DEF Sound, Order
<1>4. job # "none"
  BY <1>3 DEF Sound, Order, Untouched
<1>5. /\ job' # "none" /\ (outbox'.st = outbox.st \/ outbox'.st = "queued")
      /\ job' \in Open => outbox'.st = "queued"
  BY <1>4, Enqueueing DEF Enqueues, Refuses, Refused, Open, Types, TypeOK
<1>6. trouble <= trouble'
  BY <1>2, IngestAssumption DEF Types, TypeOK
<1> QED BY <1>1, <1>2, <1>3, <1>5, <1>6, Ending

LEMMA RaiseSound == ASSUME Types, Sound, NEW h \in Handler, IngressRaises(h) PROVE Sound'
<1>1. /\ Types' /\ ingress[h].at # "idle" /\ ingress'[h].at \in {"idle", "refuse"}
      /\ ingress[h].at = "create" => ingress'[h].at = "idle"
      /\ ingress[h].at # "create" /\ ingress'[h].at = "idle" => "half" \in slips'
      /\ slips \subseteq slips'
      /\ \A g \in Handler \ {h} : ingress'[g] = ingress[g]
  BY RaiseTypes
<1>2. UNCHANGED <<job, outbox, worker, sideVars, sent, manual>> /\ trouble' = trouble + 1
  BY DEF IngressRaises, Trouble
<1>3. trouble <= trouble'
  BY <1>2, IngestAssumption DEF Types, TypeOK
<1>4. ingress[h].at \in {"create", "record", "parts", "queue", "enqueue", "refuse"}
  BY <1>1 DEF Types, TypeOK, Ingress
<1>5. CASE ingress[h].at # "create" /\ ingress'[h].at = "idle"
  <2>1. Single' /\ Storing /\ ~Storing'
    BY <1>1, <1>4, <1>5, StoresEnd DEF Sound, Order
  <2>2. job # "none" /\ Excused'
    BY <1>1, <1>5, <2>1 DEF Sound, Order, Untouched, Excused
  <2> QED BY <1>1, <1>2, <1>3, <2>1, <2>2, Ending DEF sideVars
<1>6. CASE ingress[h].at = "create" \/ ingress'[h].at = "refuse"
  <2>1. Single' /\ (Storing' <=> Storing)
    BY <1>1, <1>4, <1>6, StoresOn DEF Sound, Order
  <2> QED BY <1>1, <1>2, <1>3, <2>1, Steady DEF sideVars
<1> QED BY <1>1, <1>5, <1>6

\* The steps of nobody's ingress and of no worker.
LEMMA AsideSound ==
    ASSUME Types, Sound,
           ComesDue \/ Reported \/ Analysed \/ \E i \in Media : CleansUp(i)
    PROVE  Sound'
<1>1. /\ Types' /\ trouble <= trouble' /\ outbox'.st = outbox.st /\ worker'.at = worker.at
      /\ worker'.keep = worker.keep /\ worker'.fix = worker.fix
      /\ \A h \in Handler : ingress'[h].at = ingress[h].at
  <2>1. CASE \E i \in Media : CleansUp(i)
    BY <2>1, CleanTypes DEF CleansUp
  <2>2. CASE ComesDue \/ Reported \/ Analysed
    <3>1. trouble <= trouble'
      BY <2>2, IngestAssumption DEF Types, TypeOK, ComesDue, Reported, Analysed, logVars
    <3> QED BY <2>2, <3>1, DueTypes, ReportTypes DEF ComesDue, Reported, Analysed
  <2> QED BY <2>1, <2>2
<1>2. UNCHANGED <<retrying, sent, manual, slips>>
  BY DEF ComesDue, Reported, Analysed, CleansUp, sideVars, logVars
<1>3. Single' /\ (Storing' <=> Storing)
  BY <1>1, SameIngress DEF Sound, Order
<1>4. job' \in {job, "analysis_pending", "completed"}
  BY ReportTypes DEF ComesDue, Reported, Analysed, CleansUp
<1>5. job' \in Open => job \in Open
  BY <1>4 DEF Open
<1>6. job' = "none" => job = "none"
  BY <1>4
<1> QED BY <1>1, <1>2, <1>3, <1>5, <1>6, Steady

\* An accepted retry is counted by the operator's budget.
LEMMA RetrySound == ASSUME Types, Sound, Retries PROVE Sound'
<1>1. Types' /\ manual' = manual + 1 /\ slips \subseteq slips'
  BY RetryTypes
<1>2. /\ job # "none" /\ job' = "queued" /\ ~retrying /\ retrying'
      /\ UNCHANGED <<outbox, ingress, worker, sent, trouble>>
  BY DEF Retries
<1>3. /\ worker.at # "idle" => "overlap" \in slips'
      /\ Storing => "overlap" \in slips'
  BY DEF Retries
<1>4. Single' /\ (Storing' <=> Storing)
  BY <1>2, SameIngress DEF Sound, Order
<1>5. Order'
  BY <1>2, <1>3, <1>4 DEF Sound, Order, Untouched, Held, Early
<1>6. Ends'
  BY <1>2, <1>3 DEF Sound, Ends, Closing, GivingUp, Served, Excused
<1>7. Budget'
  <2>1. Pending' = Pending /\ Arriving' = Arriving /\ Asked = 0 /\ Asked' = 1
    BY <1>2, <1>4 DEF Pending, Arriving, Asked
  <2>2. /\ sent \in Nat /\ manual \in Nat /\ trouble \in Nat
        /\ Pending \in Nat /\ Arriving \in Nat
    BY Weights, IngestAssumption DEF Types, TypeOK
  <2>3. sent + Pending + Arriving + 0 <= 1 + manual + trouble
    BY <2>1 DEF Sound, Budget
  <2>4. sent + Pending + Arriving + 1 <= 1 + (manual + 1) + trouble
    BY <2>2, <2>3
  <2> QED BY <1>1, <1>2, <2>1, <2>4 DEF Budget
<1> QED BY <1>5, <1>6, <1>7 DEF Sound

LEMMA RetryEnqueueSound == ASSUME Types, Sound, RetryEnqueues PROVE Sound'
<1>1. /\ Types' /\ slips \subseteq slips' /\ trouble <= trouble'
      /\ outbox'.st = "queued" \/ (outbox' = outbox /\ "half" \in slips')
  BY RetryEnqueueTypes
<1>2. retrying /\ ~retrying' /\ UNCHANGED <<job, ingress, worker, sent, manual>>
  BY DEF RetryEnqueues
<1>3. Single' /\ (Storing' <=> Storing)
  BY <1>2, SameIngress DEF Sound, Order
<1>4. job # "none" /\ (Storing => "overlap" \in slips')
  BY <1>1, <1>2 DEF Sound, Order, Untouched, Early
<1>5. Order'
  BY <1>1, <1>2, <1>3, <1>4 DEF Sound, Order, Untouched, Held, Early, Live
<1>6. Excused => Excused'
  BY <1>1 DEF Excused
<1>7. Ends'
  BY <1>1, <1>2, <1>6 DEF Sound, Ends, Closing, GivingUp, Served, Excused, Live
<1>8. Budget'
  <2>1. Arriving' = Arriving /\ Asked = 1 /\ Asked' = 0
    BY <1>2, <1>3 DEF Arriving, Asked
  <2>2. Arriving' + Asked' + 1 = Arriving + Asked
    BY <2>1, Weights
  <2> QED BY <1>1, <1>2, <2>2, Trade DEF Sound
<1> QED BY <1>5, <1>7, <1>8 DEF Sound

\* A restart cuts what it finds; an open job without a row gets one.
LEMMA RestartSound == ASSUME Types, Sound, Restart PROVE Sound'
<1>1. /\ Types' /\ worker'.at = "idle" /\ trouble' = trouble + 1 /\ slips \subseteq slips'
      /\ \A h \in Handler : ingress'[h].at = "idle"
      /\ job \in Open /\ outbox.st = "none" => outbox'.st = "queued"
      /\ ~(job \in Open /\ outbox.st = "none") => outbox' = outbox
  BY RestartTypes
<1>2. ~retrying' /\ UNCHANGED <<job, sent, manual>> /\ (retrying => "half" \in slips')
  BY DEF Restart
<1>3. Single' /\ ~Storing'
  BY <1>1 DEF Single, Stores, Storing
<1>4. job = "none" => outbox'.st = "none"
  BY <1>1 DEF Sound, Order, Untouched, Open
<1>5. Order'
  BY <1>1, <1>2, <1>3, <1>4 DEF Order, Untouched, Held, Early
<1>6. job \in Open => Excused' \/ outbox'.st \in Live
  <2>1. SUFFICES ASSUME job \in Open, ~Excused' PROVE outbox'.st \in Live
    OBVIOUS
  <2>2. ~Excused /\ ~retrying
    BY <1>1, <1>2, <2>1 DEF Excused
  <2>3. outbox.st \in Live \/ Storing
    BY <2>1, <2>2 DEF Sound, Ends, Served
  <2>4. outbox.st \in Live \/ outbox.st = "none"
    BY <2>2, <2>3 DEF Sound, Order, Early, Excused
  <2> QED BY <1>1, <2>1, <2>4 DEF Live
<1>7. Ends'
  BY <1>1, <1>2, <1>6 DEF Ends, Closing, GivingUp, Served
<1>8. Budget'
  <2> DEFINE p1 == Pending'
  <2> DEFINE a1 == Arriving'
  <2>1. sent \in Nat /\ manual \in Nat /\ trouble \in Nat
    BY IngestAssumption DEF Types, TypeOK
  <2>2. (Pending = 0 \/ Pending = 1) /\ (p1 = 0 \/ p1 = 1)
    BY Weights
  <2>3. (Arriving = 0 \/ Arriving = 1) /\ (Asked = 0 \/ Asked = 1) /\ Asked' = 0
    BY <1>2, Weights DEF Asked
  <2>4. a1 = 0 \/ (a1 = 1 /\ Arriving = 1)
    BY <1>2, <1>3 DEF Arriving
  <2>5. sent + Pending + Arriving + Asked <= 1 + manual + trouble
    BY DEF Sound, Budget
  <2>6. Budget' <=> sent + p1 + a1 + 0 <= 1 + manual + (trouble + 1)
    BY <1>1, <1>2, <2>3 DEF Budget
  <2> HIDE DEF p1, a1
  <2>7. p1 <= Pending + 1 /\ a1 <= Arriving
    BY <2>2, <2>3, <2>4
  <2>8. p1 \in Nat /\ a1 \in Nat /\ Pending \in Nat /\ Arriving \in Nat /\ Asked \in Nat
    BY <2>2, <2>3, <2>4
  <2>9. sent + p1 + a1 + 0 <= 1 + manual + (trouble + 1)
    BY <2>1, <2>5, <2>7, <2>8
  <2> QED BY <2>6, <2>9
<1> QED BY <1>5, <1>7, <1>8 DEF Sound

LEMMA StepSound == Types /\ Sound /\ [Next]_vars => Sound'
<1> SUFFICES ASSUME Types, Sound, [Next]_vars PROVE Sound'
  OBVIOUS
<1>1. CASE UNCHANGED vars
  <2>1. UNCHANGED <<job, outbox, ingress, worker, retrying, sent, slips, manual, trouble>>
    BY <1>1 DEF vars
  <2>2. Storing' <=> Storing
    BY <2>1 DEF Storing
  <2>3. Pending' = Pending /\ Arriving' = Arriving /\ Asked' = Asked
    BY <2>1, <2>2 DEF Pending, Arriving, Asked
  <2>4. Single' <=> Single
    BY <2>1 DEF Single, Stores
  <2>5. Order' /\ Ends' /\ Budget'
    BY <2>1, <2>2, <2>3, <2>4
       DEF Sound, Order, Untouched, Held, Early, Ends, Closing, GivingUp, Served, Excused, Budget
  <2> QED BY <2>5 DEF Sound
<1>2. CASE Next
  <2>1. CASE \E h \in Handler : \/ Receive(h) \/ Creates(h) \/ Records(h) \/ RecordsParts(h) \/ Queues(h)
                               \/ Enqueues(h) \/ Refuses(h) \/ IngressRaises(h)
    BY <2>1, ReceiveSound, CreateSound, StoreSound, EndSound, RaiseSound
  <2>2. CASE Claims \/ Redownloads \/ CannotLoad \/ Loads \/ Filters \/ Begins
    BY <2>2, ClaimSound, LoadSound, FailSound, FinishSound, BeginSound
  <2>3. CASE SkipsPart \/ SendFails \/ SendsText \/ Finishes \/ Closes
    BY <2>3, PartSound, FailSound, SendSound, FinishSound, LeaveSound
  <2>4. CASE Catches \/ Marks \/ GivesUp \/ AnswerLost \/ WorkerRaises \/ ComesDue
    BY <2>4, CatchSound, MarkSound, LeaveSound, LostSound, WorkerRaiseSound, AsideSound
  <2>5. CASE \E i \in Media : Rerecords(i) \/ RerecordsParts(i) \/ SendsPart(i) \/ Finalizes(i) \/ CleansUp(i)
    BY <2>5, BeginSound, PartSound, SendSound, AsideSound
  <2>6. CASE Retries \/ RetryEnqueues \/ Reported \/ Analysed \/ Restart
    BY <2>6, RetrySound, RetryEnqueueSound, AsideSound, RestartSound
  <2> QED BY <1>2, Steps, <2>1, <2>2, <2>3, <2>4, <2>5, <2>6
<1> QED BY <1>1, <1>2

LEMMA AlwaysSound == Spec => [](Types /\ Sound)
<1>1. Init => Types /\ Sound
  BY InitTypes, InitSound
<1>2. Types /\ Sound /\ [Next]_vars => (Types /\ Sound)'
  BY StepTypes, StepSound
<1> QED BY <1>1, <1>2, PTL DEF Spec

\* However deliveries of the event, the worker, the operator and the ledger's
\* failures interleave, n8n takes the message at most once, once more for each
\* retry asked for and once more for each answer, query or process lost.
THEOREM SubmissionsAreBounded == Spec => []SubmissionsExplained
<1>1. Types /\ Sound => SubmissionsExplained
  <2> SUFFICES ASSUME Types, Sound PROVE SubmissionsExplained
    OBVIOUS
  <2>1. /\ sent \in Nat /\ manual \in Nat /\ trouble \in Nat
        /\ Pending \in Nat /\ Arriving \in Nat /\ Asked \in Nat
    BY Weights, IngestAssumption DEF Types, TypeOK
  <2>2. sent + Pending + Arriving + Asked <= 1 + manual + trouble
    BY DEF Sound, Budget
  <2> QED BY <2>1, <2>2 DEF SubmissionsExplained
<1> QED BY <1>1, AlwaysSound, PTL

\* A job that is open when nobody works on it and no row will be claimed for it
\* got there by a retry that overlapped the worker, or by half a step.
THEOREM NothingIsStranded == Spec => []NothingStranded
<1>1. Types /\ Sound => NothingStranded
  <2> SUFFICES ASSUME Sound, Resting, job \in Open, ~Excused PROVE FALSE
    BY DEF NothingStranded
  <2>1. outbox.st \notin Live /\ ~Storing /\ ~retrying
    BY DEF Resting, Live, Storing
  <2> QED BY <2>1 DEF Sound, Ends, Served
<1> QED BY <1>1, AlwaysSound, PTL

-----------------------------------------------------------------------------
(* What is closed as completed was submitted whole                         *)

\* The media loop of an ingress records the media in turn.  Unless the ingress
\* was cut short, a row or a retry is there only when the loop is done; so what
\* the worker loads is the whole message, and what it has submitted was too.
Recording == \E h \in Handler : ingress[h].at \in {"record", "parts"}
SoFar ==
    \A h \in Handler : \A i \in Media :
        /\ ingress[h].at \in {"record", "parts"} /\ i < ingress[h].next => asset[i].rec
        /\ ingress[h].at = "parts" /\ i = ingress[h].next => asset[i].rec
Filed == job = "none" \/ Recording \/ \A i \in Media : asset[i].rec
Apart == outbox.st # "none" \/ retrying => ~Recording
Carried ==
    /\ worker.at # "filter"
    /\ worker.at \in {"begin", "assets", "parts", "send", "finalize"} => worker.res = Media
Told == worker.at \in {"finish", "close"} \/ outbox.st = "completed" => whole
\* Before there is a job nothing was sent, reported or analysed.
Unheard == job = "none" => sent = 0 /\ analysis = "none" /\ ~analysing
Uncut == Filed /\ Apart /\ Carried /\ Told
Kept == SoFar /\ ("cut" \in slips \/ Uncut)

LEMMA InitKept == Init => Kept /\ Unheard
BY DEF Init, Unheard, Kept, SoFar, Uncut, Filed, Apart, Carried, Told, Recording, Idle, Away

\* Steps that begin no recording and undo none.
LEMMA Keeps ==
    ASSUME Kept, slips \subseteq slips',
           \A h \in Handler : ingress'[h].at \in {"record", "parts"} =>
               ingress[h].at = ingress'[h].at /\ ingress'[h].next = ingress[h].next,
           \A i \in Media : asset[i].rec => asset'[i].rec,
           "cut" \notin slips' =>
               /\ Recording => Recording'
               /\ job' = "none" \/ job # "none"
               /\ outbox'.st # "none" \/ retrying' => outbox.st # "none" \/ retrying \/ ~Recording'
               /\ Uncut => Carried' /\ Told'
    PROVE  Kept'
<1>1. SoFar'
  BY DEF Kept, SoFar
<1>2. Recording' => Recording
  BY DEF Recording
<1>3. ASSUME "cut" \notin slips' PROVE Uncut'
  <2>1. Uncut
    BY <1>3 DEF Kept
  <2>2. Filed'
    BY <1>3, <2>1 DEF Uncut, Filed
  <2>3. Apart'
    BY <1>2, <1>3, <2>1 DEF Uncut, Apart
  <2> QED BY <1>3, <2>1, <2>2, <2>3 DEF Uncut
<1> QED BY <1>1, <1>3 DEF Kept

\* Steps of the worker at work: the row it claimed is there.
LEMMA WorkerKeeps ==
    ASSUME Sound, Kept, UNCHANGED <<ingress, retrying, slips>>, worker.at # "idle",
           \A i \in Media : asset[i].rec => asset'[i].rec,
           Uncut => Carried' /\ Told'
    PROVE  Kept'
<1>1. job # "none" /\ outbox.st # "none"
  BY Owing DEF Live
<1>2. Recording' <=> Recording
  BY DEF Recording
<1> QED BY <1>1, <1>2, Keeps

\* A worker that leaves, or goes where nothing is carried.
LEMMA LeavesKept ==
    ASSUME Sound, Kept, UNCHANGED <<ingress, retrying, slips, asset>>, worker.at # "idle",
           worker'.at \in {"idle", "caught", "mark", "giveup"},
           whole' = whole \/ whole', outbox'.st # "completed" \/ outbox' = outbox
    PROVE  Kept'
<1>1. Uncut => Carried' /\ Told'
  BY DEF Uncut, Carried, Told
<1> QED BY <1>1, WorkerKeeps

LEMMA LoadKept == ASSUME Types, Sound, Kept, Redownloads \/ Loads PROVE Kept'
<1>1. /\ UNCHANGED <<job, asset, outbox, ingress, sideVars, logVars>> /\ worker.at = "load"
      /\ UNCHANGED <<ingress, retrying, slips, asset, outbox, whole>>
  <2>1. UNCHANGED <<job, asset, outbox, ingress, sideVars, logVars>> /\ worker.at = "load"
    <3>1. CASE Redownloads
      BY <3>1 DEF Redownloads
    <3>2. CASE Loads
      BY <3>2, Zenon DEF Loads
    <3> QED BY <3>1, <3>2
  <2> QED BY <2>1 DEF sideVars, logVars
<1>2. ASSUME Uncut PROVE Carried' /\ Told'
  <2>1. \A i \in Media : asset[i].rec
    BY <1>1, <1>2, Owing DEF Uncut, Filed, Apart, Live
  <2>2. Recorded = Media
    BY <2>1 DEF Recorded
  <2>3. worker'.at = "begin" /\ worker'.res = Media
    <3>1. worker \in Worker
      BY DEF Types, TypeOK
    <3>2. CASE Redownloads
      BY <3>1, <3>2 DEF Redownloads, Worker
    <3>3. CASE Loads
      <4> DEFINE U == {i \in Recorded : asset[i].up}
      <4> DEFINE P == {i \in Recorded : asset[i].parts}
      <4> DEFINE T == {"begin"} \cup (IF Recorded = {} /\ N > 0 THEN {"filter"} ELSE {})
      <4>1. PICK to \in T :
               worker' = [worker EXCEPT !.at = to, !.res = Recorded, !.parts = P, !.up = U]
        BY <3>3, Zenon DEF Loads
      <4>2. ~(Recorded = {} /\ N > 0)
        BY <2>2, IngestAssumption DEF Media
      <4>3. to = "begin"
        BY <4>1, <4>2
      <4>4. worker' = [worker EXCEPT !.at = "begin", !.res = Media, !.parts = P, !.up = U]
        BY <2>2, <4>1, <4>3
      <4> HIDE DEF U, P
      <4> QED BY <3>1, <4>4 DEF Worker
    <3> QED BY <3>2, <3>3
  <2> QED BY <1>1, <1>2, <2>3 DEF Uncut, Carried, Told
<1> QED BY <1>1, <1>2, WorkerKeeps

\* Steps between the load and the submission: the same media are carried.
LEMMA CarryKept ==
    ASSUME Types, Sound, Kept,
           Begins \/ SkipsPart \/ \E i \in Media : Rerecords(i) \/ RerecordsParts(i) \/ SendsPart(i)
    PROVE  Kept'
<1>0. worker \in Worker /\ asset \in [Media -> Asset]
  BY DEF Types, TypeOK
<1>1. UNCHANGED <<ingress, retrying, slips, outbox, whole>>
  BY DEF Begins, SkipsPart, Rerecords, RerecordsParts, SendsPart, sideVars, logVars
<1>2. /\ worker.at \in {"begin", "assets", "parts", "send"}
      /\ worker'.at \in {"assets", "parts", "send", "finalize"} /\ worker'.res = worker.res
  <2>1. CASE Begins
    BY <1>0, <2>1 DEF Begins, Worker
  <2>2. CASE SkipsPart
    BY <1>0, <2>2 DEF SkipsPart, Step, Worker
  <2>3. ASSUME NEW i \in Media, Rerecords(i) \/ RerecordsParts(i)
        PROVE  /\ worker.at \in {"assets", "parts"} /\ worker'.at \in {"assets", "parts", "send"}
               /\ worker'.res = worker.res
    BY <2>3, RerecordTypes, RerecordPartsTypes
  <2>4. ASSUME NEW i \in Media, SendsPart(i)
        PROVE  worker.at = "send" /\ worker'.at = "finalize" /\ worker'.res = worker.res
    BY <1>0, <2>4 DEF SendsPart, Sending, Step, Worker
  <2> QED BY <2>1, <2>2, <2>3, <2>4
<1>3. \A i \in Media : asset[i].rec => asset'[i].rec
  <2>1. CASE Begins \/ SkipsPart
    BY <2>1 DEF Begins, SkipsPart
  <2>2. ASSUME NEW i \in Media, Rerecords(i) \/ RerecordsParts(i)
        PROVE  \A j \in Media : asset[j].rec => asset'[j].rec
    BY <1>0, <2>2 DEF Rerecords, RerecordsParts, Asset
  <2>3. ASSUME NEW i \in Media, SendsPart(i) PROVE \A j \in Media : asset[j].rec => asset'[j].rec
    BY <1>0, <2>3 DEF SendsPart, Asset
  <2> QED BY <2>1, <2>2, <2>3
<1>4. Uncut => Carried' /\ Told'
  BY <1>1, <1>2 DEF Uncut, Carried, Told
<1> QED BY <1>1, <1>2, <1>3, <1>4, WorkerKeeps

LEMMA TextKept == ASSUME Types, Sound, Kept, SendsText PROVE Kept'
<1>1. worker'.at = "finish" /\ worker.at = "send"
  BY TextTypes
<1>2. UNCHANGED <<ingress, retrying, slips, outbox, asset>>
  BY DEF SendsText, Submitted, sideVars
<1>3. ASSUME Uncut PROVE Carried' /\ Told'
  <2>1. worker.res = Media
    BY <1>1, <1>3 DEF Uncut, Carried
  <2>2. whole'
    BY <2>1 DEF SendsText, Submitted
  <2> QED BY <1>1, <2>2 DEF Carried, Told
<1> QED BY <1>1, <1>2, <1>3, WorkerKeeps

LEMMA FinalizeKept == ASSUME Types, Sound, Kept, NEW i \in Media, Finalizes(i) PROVE Kept'
<1>0. worker \in Worker /\ asset \in [Media -> Asset]
  BY DEF Types, TypeOK
<1>1. UNCHANGED <<ingress, retrying, slips, outbox>> /\ worker.at = "finalize"
  <2>1. UNCHANGED <<outbox, ingress, retrying>> /\ worker.at = "finalize"
    BY DEF Finalizes, sideVars
  <2> QED BY <2>1, FinalizeTypes
<1>2. \A j \in Media : asset[j].rec => asset'[j].rec
  <2>1. asset' = [asset EXCEPT ![i].done = TRUE]
    BY DEF Finalizes
  <2> QED BY <1>0, <2>1 DEF Asset
<1>3. ASSUME Uncut PROVE Carried' /\ Told'
  <2>1. worker.res = Media
    BY <1>1, <1>3 DEF Uncut, Carried
  <2>2. CASE worker.todo = {i}
    <3>1. Submitted /\ worker' = [Idle EXCEPT !.at = "finish", !.res = worker.res]
      BY <2>2 DEF Finalizes
    <3>2. whole'
      BY <2>1, <3>1 DEF Submitted
    <3>3. worker'.at = "finish"
      BY <3>1 DEF Idle
    <3> QED BY <3>2, <3>3 DEF Carried, Told
  <2>3. CASE worker.todo # {i}
    <3>1. worker' = [worker EXCEPT !.at = "send", !.todo = worker.todo \ {i}] /\ UNCHANGED logVars
      BY <2>3 DEF Finalizes
    <3>2. worker'.at = "send" /\ worker'.res = Media
      BY <1>0, <2>1, <3>1 DEF Worker
    <3>3. Carried'
      BY <3>2 DEF Carried
    <3>4. whole' = whole
      BY <3>1 DEF logVars
    <3> QED BY <1>1, <1>3, <3>2, <3>3, <3>4 DEF Uncut, Told
  <2> QED BY <2>2, <2>3
<1> QED BY <1>1, <1>2, <1>3, WorkerKeeps

LEMMA FinishKept ==
    ASSUME Types, Sound, Kept, Filters \/ Finishes \/ Closes
    PROVE  Kept'
<1>0. asset \in [Media -> Asset]
  BY DEF Types, TypeOK
<1>1. /\ UNCHANGED <<ingress, retrying, slips, whole>>
      /\ worker.at \in {"filter", "finish", "close"} /\ worker'.at \in {"close", "idle"}
      /\ outbox' = outbox \/ worker.at = "close"
  BY DEF Filters, Finishes, Closes, Idle, sideVars, logVars
<1>2. \A i \in Media : asset[i].rec => asset'[i].rec
  BY <1>0 DEF Filters, Finishes, Closes, Asset
<1>3. Uncut => Carried' /\ Told'
  BY <1>1 DEF Uncut, Carried, Told
<1> QED BY <1>1, <1>2, <1>3, WorkerKeeps

LEMMA LostKept ==
    ASSUME Types, Sound, Kept,
           CannotLoad \/ SendFails \/ AnswerLost \/ Catches \/ Marks \/ GivesUp \/ WorkerRaises
    PROVE  Kept'
<1>0. worker \in Worker /\ outbox \in Outbox
  BY DEF Types, TypeOK
<1>1. CASE CannotLoad \/ SendFails
  <2>1. /\ worker.at # "idle" /\ worker'.at = "caught"
        /\ UNCHANGED <<ingress, retrying, slips, asset, outbox, whole>>
    BY <1>1, Catching DEF CannotLoad, SendFails, Sending, sideVars, logVars
  <2> QED BY <2>1, LeavesKept
<1>2. CASE AnswerLost
  <2>1. /\ worker.at # "idle" /\ worker'.at = "caught"
        /\ UNCHANGED <<ingress, retrying, slips, asset, outbox>>
    BY <1>2, Catching DEF AnswerLost, Submitted, sideVars
  <2>2. whole' = whole \/ whole'
    BY <1>2 DEF AnswerLost, Submitted, Types, TypeOK
  <2> QED BY <2>1, <2>2, LeavesKept
<1>3. CASE Catches \/ Marks
  <2>1. /\ worker.at # "idle" /\ worker'.at \in {"mark", "giveup"}
        /\ UNCHANGED <<ingress, retrying, slips, asset, outbox, whole>>
    BY <1>0, <1>3 DEF Catches, Marks, Step, Worker, sideVars, logVars
  <2> QED BY <2>1, LeavesKept
<1>4. CASE GivesUp
  <2>1. outbox'.st # "completed"
    BY <1>0, <1>4 DEF GivesUp, Outbox
  <2>2. /\ worker.at # "idle" /\ worker'.at = "idle"
        /\ UNCHANGED <<ingress, retrying, slips, asset, whole>>
    BY <1>4 DEF GivesUp, Idle, sideVars, logVars
  <2> QED BY <2>1, <2>2, LeavesKept
<1>5. CASE WorkerRaises
  <2>1. /\ worker.at # "idle" /\ worker'.at \in {"idle", "caught"}
        /\ UNCHANGED <<ingress, retrying, slips, asset, outbox, whole>>
    BY <1>5, Catching DEF WorkerRaises, Delivering, Settling, Idle, sideVars
  <2> QED BY <2>1, LeavesKept
<1> QED BY <1>1, <1>2, <1>3, <1>4, <1>5

LEMMA ClaimKept == ASSUME Types, Sound, Kept, Claims \/ ComesDue PROVE Kept'
<1>0. worker \in Worker /\ outbox \in Outbox
  BY DEF Types, TypeOK
<1>1. UNCHANGED <<job, asset, ingress, retrying, slips, whole>> /\ outbox.st # "none"
  BY DEF Claims, Claimable, ComesDue, sideVars, logVars
<1>2. /\ worker' = worker \/ worker'.at = "load"
      /\ outbox'.st = "completed" => outbox.st = "completed"
  BY <1>0 DEF Claims, ComesDue, Step, Worker, Outbox
<1>3. Uncut => Carried' /\ Told'
  BY <1>1, <1>2 DEF Uncut, Carried, Told
<1>4. Recording' <=> Recording
  BY <1>1 DEF Recording
<1> QED BY <1>1, <1>3, <1>4, Keeps

\* Steps of an ingress that records nothing.
LEMMA ArriveKept ==
    ASSUME Types, Sound, Kept, NEW h \in Handler, Receive(h) \/ (Creates(h) /\ ~Unseen)
    PROVE  Kept'
<1>1. /\ ingress[h].at \in {"idle", "create"} /\ ingress'[h].at \in {"idle", "create"}
      /\ \A g \in Handler \ {h} : ingress'[g] = ingress[g]
  <2>1. CASE Receive(h)
    BY <2>1, ReceiveTypes DEF Receive
  <2>2. CASE Creates(h) /\ ~Unseen
    <3>1. Goes(h, Away) /\ ingress[h].at = "create"
      BY <2>2 DEF Creates
    <3>2. ingress'[h] = Away /\ \A g \in Handler \ {h} : ingress'[g] = ingress[g]
      BY <3>1, Going, AwayWithin
    <3> QED BY <3>1, <3>2 DEF Away
  <2> QED BY <2>1, <2>2
<1>2. UNCHANGED <<job, asset, outbox, worker, retrying, slips, whole>>
  BY DEF Receive, Creates, sideVars, logVars
<1>3. Recording' <=> Recording
  BY <1>1 DEF Recording
<1>4. Uncut => Carried' /\ Told'
  BY <1>2 DEF Uncut, Carried, Told
<1> QED BY <1>1, <1>2, <1>3, <1>4, Keeps

\* The winner of the insert: nothing else has begun.
LEMMA CreateKept == ASSUME Types, Sound, Kept, NEW h \in Handler, Creates(h), Unseen PROVE Kept'
<1> DEFINE x == [ingress[h] EXCEPT !.at = AfterRecord(1)]
<1>1. /\ job = "none" /\ outbox.st = "none" /\ ~retrying /\ worker.at = "idle" /\ ~Storing
  BY DEF Unseen, Sound, Order, Untouched
<1>2. /\ Goes(h, x) /\ UNCHANGED <<asset, outbox, worker, retrying, slips, whole>>
  BY <1>1 DEF Creates, Unseen, sideVars, logVars
<1>3. /\ ingress[h] \in Ingress /\ ingress[h].next = 1
      /\ x \in Ingress /\ Within(x) /\ x.next = 1
      /\ x.at = IF 1 > N THEN "queue" ELSE "record"
  BY IngestAssumption DEF Types, TypeOK, InRange, Within, Creates, Ingress, AfterRecord, Media
<1> HIDE DEF x
<1>4. ingress'[h] = x /\ \A g \in Handler \ {h} : ingress'[g] = ingress[g]
  BY <1>2, <1>3, Going
<1>5. \A g \in Handler : ingress[g].at \notin {"record", "parts"}
  BY <1>1 DEF Storing
<1>6. ASSUME NEW g \in Handler
      PROVE  ingress'[g].at # "parts" /\ (ingress'[g].at = "record" => ingress'[g].next = 1)
  <2>1. CASE g = h
    BY <1>3, <1>4, <2>1
  <2>2. CASE g # h
    BY <1>4, <1>5, <2>2
  <2> QED BY <2>1, <2>2
<1>7. SoFar'
  <2> SUFFICES ASSUME NEW g \in Handler, NEW i \in Media
               PROVE  /\ ingress'[g].at \in {"record", "parts"} /\ i < ingress'[g].next => asset'[i].rec
                      /\ ingress'[g].at = "parts" /\ i = ingress'[g].next => asset'[i].rec
    BY DEF SoFar
  <2>1. ~(i < 1)
    BY IngestAssumption DEF Media
  <2> QED BY <1>6, <2>1
<1>8. Filed'
  <2>1. CASE 1 > N
    BY <2>1, IngestAssumption DEF Filed, Media
  <2>2. CASE ~(1 > N)
    BY <1>3, <1>4, <2>2 DEF Filed, Recording
  <2> QED BY <2>1, <2>2
<1>9. Apart'
  BY <1>1, <1>2 DEF Apart
<1>10. Carried' /\ Told'
  BY <1>1, <1>2 DEF Carried, Told
<1> QED BY <1>7, <1>8, <1>9, <1>10 DEF Kept, Uncut

LEMMA RecordKept == ASSUME Types, Sound, Kept, NEW h \in Handler, Records(h) PROVE Kept'
<1> DEFINE n == ingress[h].next
<1> DEFINE x == [ingress[h] EXCEPT !.at = "parts"]
<1>1. /\ Goes(h, x) /\ ingress[h].at = "record" /\ ingress[h] \in Ingress /\ n \in Media
      /\ UNCHANGED <<job, outbox, worker, retrying, slips, whole>>
  BY DEF Records, Types, TypeOK, InRange, Within, sideVars, logVars
<1>2. /\ ingress'[h].at = "parts" /\ ingress'[h].next = n
      /\ \A g \in Handler \ {h} : ingress'[g] = ingress[g]
  BY <1>1 DEF Goes, Types, TypeOK, Ingress
<1>3. \A g \in Handler \ {h} : ingress[g].at \notin {"record", "parts"}
  BY <1>1 DEF Sound, Order, Single, Stores
<1>4. asset'[n].rec /\ \A i \in Media : asset[i].rec => asset'[i].rec
  <2>1. asset \in [Media -> Asset]
    BY DEF Types, TypeOK
  <2>2. asset' = [asset EXCEPT ![n].rec = TRUE, ![n].file = n \in ingress[h].files]
    BY DEF Records
  <2> QED BY <1>1, <2>1, <2>2 DEF Asset
<1>5. \A i \in Media : i < n => asset'[i].rec
  BY <1>1, <1>4 DEF Kept, SoFar
<1> HIDE DEF n, x
<1>6. SoFar'
  BY <1>2, <1>3, <1>4, <1>5 DEF SoFar
<1>7. Recording /\ Recording'
  BY <1>1, <1>2 DEF Recording
<1>8. ASSUME Uncut PROVE Filed' /\ Apart' /\ Carried' /\ Told'
  BY <1>1, <1>7, <1>8 DEF Uncut, Filed, Apart, Carried, Told
<1> QED BY <1>1, <1>6, <1>8 DEF Kept, Uncut

LEMMA RecordPartsKept == ASSUME Types, Sound, Kept, NEW h \in Handler, RecordsParts(h) PROVE Kept'
<1> DEFINE n == ingress[h].next
<1> DEFINE x == [ingress[h] EXCEPT !.next = n + 1, !.at = AfterRecord(n + 1)]
<1>1. /\ Goes(h, x) /\ ingress[h].at = "parts" /\ ingress[h] \in Ingress /\ n \in Media
      /\ UNCHANGED <<job, outbox, worker, retrying, slips, whole>>
  BY DEF RecordsParts, Types, TypeOK, InRange, Within, sideVars, logVars
<1>2. /\ ingress'[h].at = (IF n + 1 > N THEN "queue" ELSE "record") /\ ingress'[h].next = n + 1
      /\ \A g \in Handler \ {h} : ingress'[g] = ingress[g]
  BY <1>1 DEF Goes, Types, TypeOK, Ingress, AfterRecord
<1>3. \A g \in Handler \ {h} : ingress[g].at \notin {"record", "parts"}
  BY <1>1 DEF Sound, Order, Single, Stores
<1>4. \A i \in Media : asset[i].rec => asset'[i].rec
  <2>1. asset \in [Media -> Asset]
    BY DEF Types, TypeOK
  <2>2. asset' = [asset EXCEPT ![n].parts = TRUE]
    BY DEF RecordsParts
  <2> QED BY <1>1, <2>1, <2>2 DEF Asset
<1>5. n \in 1..N /\ \A i \in Media : i < n + 1 => asset'[i].rec
  <2>1. n \in 1..N
    BY <1>1 DEF Media
  <2>2. \A i \in Media : i < n \/ i = n => asset[i].rec
    BY <1>1 DEF Kept, SoFar
  <2> HIDE DEF n
  <2>3. \A i \in Media : i < n + 1 => i < n \/ i = n
    BY <2>1, IngestAssumption DEF Media
  <2> QED BY <1>4, <2>1, <2>2, <2>3
<1> HIDE DEF n, x
<1>6. SoFar'
  BY <1>2, <1>3, <1>5 DEF SoFar
<1>7. Filed'
  <2>1. CASE n + 1 > N
    <3>1. \A i \in Media : i < n + 1
      BY <1>5, <2>1, IngestAssumption DEF Media
    <3> QED BY <1>5, <3>1 DEF Filed
  <2>2. CASE ~(n + 1 > N)
    BY <1>2, <2>2 DEF Filed, Recording
  <2> QED BY <2>1, <2>2
<1>8. Recording
  BY <1>1 DEF Recording
<1>9. ASSUME Uncut PROVE Apart' /\ Carried' /\ Told'
  BY <1>1, <1>8, <1>9 DEF Uncut, Apart, Carried, Told
<1> QED BY <1>1, <1>6, <1>7, <1>9 DEF Kept, Uncut

\* The other steps of the ingress: past the media loop.
LEMMA StoreKept ==
    ASSUME Types, Sound, Kept, NEW h \in Handler, Queues(h) \/ Enqueues(h) \/ Refuses(h)
    PROVE  Kept'
<1>1. /\ ingress[h].at \in {"queue", "enqueue", "refuse"} /\ ingress'[h].at \in {"enqueue", "idle"}
      /\ \A g \in Handler \ {h} : ingress'[g] = ingress[g]
  BY QueueTypes, EnqueueTypes, RefuseTypes
<1>2. UNCHANGED <<worker, retrying, slips, whole>>
  BY DEF Queues, Enqueues, Refuses, sideVars, logVars
<1>3. (Recording' <=> Recording) /\ ~Recording
  BY <1>1 DEF Recording, Sound, Order, Single, Stores
<1>4. \A i \in Media : asset[i].rec => asset'[i].rec
  BY DEF Queues, Enqueues, Refuses, Types, TypeOK, Asset
<1>5. job # "none"
  BY <1>1 DEF Sound, Order, Untouched, Storing
<1>6. outbox' = outbox \/ outbox'.st = "queued"
  BY Enqueueing DEF Queues, Enqueues, Refuses, Types, TypeOK
<1>7. Uncut => Carried' /\ Told'
  BY <1>2, <1>6 DEF Uncut, Carried, Told
<1> QED BY <1>1, <1>2, <1>3, <1>4, <1>5, <1>7, Keeps

LEMMA RaiseKept == ASSUME Types, Sound, Kept, NEW h \in Handler, IngressRaises(h) PROVE Kept'
<1>1. /\ ingress'[h].at \in {"idle", "refuse"} /\ \A g \in Handler \ {h} : ingress'[g] = ingress[g]
      /\ ingress[h].at = "create" \/ "cut" \in slips'
      /\ slips \subseteq slips'
  BY RaiseTypes DEF IngressRaises
<1>2. UNCHANGED <<job, asset, outbox, worker, retrying, whole>>
  BY DEF IngressRaises, sideVars
<1>3. "cut" \notin slips' => (Recording' <=> Recording)
  BY <1>1 DEF Recording
<1>4. Uncut => Carried' /\ Told'
  BY <1>2 DEF Uncut, Carried, Told
<1> QED BY <1>1, <1>2, <1>3, <1>4, Keeps

\* A retry asked for while the message is being stored is one of the cuts.
LEMMA RetryKept == ASSUME Types, Sound, Kept, Retries \/ RetryEnqueues PROVE Kept'
<1>1. UNCHANGED <<asset, ingress, worker, whole>> /\ slips \subseteq slips'
  BY DEF Retries, RetryEnqueues
<1>2. (Recording' <=> Recording) /\ (Recording => Storing)
  BY <1>1 DEF Recording, Storing
<1>3. job # "none"
  BY DEF Retries, RetryEnqueues, Sound, Order, Untouched
<1>4. /\ outbox' = outbox \/ outbox'.st = "queued"
      /\ "cut" \notin slips' => retrying \/ ~Storing
  BY Enqueueing DEF Retries, RetryEnqueues, Types, TypeOK
<1>5. Uncut => Carried' /\ Told'
  BY <1>1, <1>4 DEF Uncut, Carried, Told
<1> QED BY <1>1, <1>2, <1>3, <1>4, <1>5, Keeps

\* The clean-up removes files, not their rows.
LEMMA CleanKept == ASSUME Types, Sound, Kept, NEW i \in Media, CleansUp(i) PROVE Kept'
<1>0. asset \in [Media -> Asset] /\ worker \in Worker /\ ingress \in [Handler -> Ingress]
  BY DEF Types, TypeOK
<1>1. UNCHANGED <<job, outbox, retrying, slips, whole>>
  BY DEF CleansUp, sideVars
<1>2. \A j \in Media : asset[j].rec => asset'[j].rec
  <2>1. asset' = asset \/ asset' = [asset EXCEPT ![i].file = FALSE]
    BY DEF CleansUp
  <2> QED BY <1>0, <2>1 DEF Asset
<1>3. worker'.at = worker.at /\ worker'.res = worker.res
  <2>1. worker' = worker \/ worker' = [worker EXCEPT !.files = worker.files \ {i}]
    BY DEF CleansUp
  <2> QED BY <1>0, <2>1 DEF Worker
<1>4. \A h \in Handler : ingress'[h].at = ingress[h].at /\ ingress'[h].next = ingress[h].next
  <2>1. \/ ingress' = ingress
        \/ \E h \in Handler : ingress' = [ingress EXCEPT ![h] = [ingress[h] EXCEPT !.files = ingress[h].files \ {i}]]
    BY DEF CleansUp, Goes
  <2> QED BY <1>0, <2>1 DEF Ingress
<1>5. Recording' <=> Recording
  BY <1>4 DEF Recording
<1>6. Uncut => Carried' /\ Told'
  BY <1>1, <1>3 DEF Uncut, Carried, Told
<1> QED BY <1>1, <1>2, <1>4, <1>5, <1>6, Keeps

\* n8n's report and the analysis: a job that is not made has neither.
LEMMA AsideKept == ASSUME Types, Sound, Unheard, Kept, Reported \/ Analysed PROVE Kept'
<1>1. UNCHANGED <<asset, outbox, ingress, worker, retrying, slips, whole>>
  BY DEF Reported, Analysed, logVars
<1>2. job # "none"
  BY DEF Reported, Analysed, Unheard
<1>3. Recording' <=> Recording
  BY <1>1 DEF Recording
<1>4. Uncut => Carried' /\ Told'
  BY <1>1 DEF Uncut, Carried, Told
<1> QED BY <1>1, <1>2, <1>3, <1>4, Keeps

LEMMA RestartKept == ASSUME Types, Sound, Kept, Restart PROVE Kept'
<1>1. /\ worker'.at = "idle" /\ UNCHANGED <<job, asset, whole>> /\ slips \subseteq slips'
      /\ \A h \in Handler : ingress'[h].at = "idle"
  BY DEF Restart, Idle, Away
<1>2. "cut" \notin slips' => ~Storing
  BY DEF Restart
<1>3. ~Recording' /\ (Recording => Storing)
  BY <1>1 DEF Recording, Storing
<1>4. outbox' = outbox \/ outbox'.st = "queued"
  BY Enqueueing DEF Restart, Types, TypeOK
<1>5. Uncut => Carried' /\ Told'
  BY <1>1, <1>4 DEF Uncut, Carried, Told
<1> QED BY <1>1, <1>2, <1>3, <1>5, Keeps

LEMMA StepUnheard == ASSUME Types, Sound, Unheard, [Next]_vars PROVE Unheard'
<1> SUFFICES ASSUME job' = "none" PROVE UNCHANGED <<job, sent, analysis, analysing>>
  BY DEF Unheard
<1>0. job = "none" => /\ outbox.st = "none" /\ ~retrying /\ worker.at = "idle" /\ ~Storing
                      /\ sent = 0 /\ analysis = "none" /\ ~analysing
  BY DEF Sound, Order, Untouched, Unheard
<1>1. CASE UNCHANGED vars
  BY <1>1 DEF vars
<1>2. ASSUME NEW h \in Handler,
             \/ Receive(h) \/ Creates(h) \/ Records(h) \/ RecordsParts(h) \/ Queues(h)
             \/ Enqueues(h) \/ Refuses(h) \/ IngressRaises(h)
      PROVE  UNCHANGED <<job, sent, analysis, analysing>>
  BY <1>2 DEF Receive, Creates, Records, RecordsParts, Queues, Enqueues, Refuses, Refused, IngressRaises,
             sideVars, logVars
<1>3. CASE Claims \/ Redownloads \/ CannotLoad \/ Loads \/ Filters \/ Begins
  <2>1. CASE Loads
    <3>1. UNCHANGED <<job, sideVars, logVars>>
      BY <2>1, Zenon DEF Loads
    <3> QED BY <3>1 DEF sideVars, logVars
  <2>2. CASE Claims \/ Redownloads \/ CannotLoad
    BY <2>2 DEF Claims, Redownloads, CannotLoad, sideVars, logVars
  <2>3. CASE Filters \/ Begins
    BY <2>3 DEF Filters, Begins
  <2> QED BY <1>3, <2>1, <2>2, <2>3
<1>4. CASE SkipsPart \/ SendFails \/ SendsText \/ Finishes \/ Closes
  BY <1>0, <1>4, TextTypes DEF SkipsPart, SendFails, SendsText, Finishes, Closes, sideVars, logVars
<1>5. CASE Catches \/ Marks \/ GivesUp \/ AnswerLost \/ WorkerRaises \/ ComesDue
  BY <1>0, <1>5, LostTypes DEF Catches, Marks, GivesUp, AnswerLost, WorkerRaises, ComesDue, sideVars, logVars
<1>6. ASSUME NEW i \in Media, Rerecords(i) \/ RerecordsParts(i) \/ SendsPart(i) \/ Finalizes(i) \/ CleansUp(i)
      PROVE  UNCHANGED <<job, sent, analysis, analysing>>
  BY <1>6 DEF Rerecords, RerecordsParts, SendsPart, Finalizes, CleansUp, sideVars, logVars
<1>7. CASE Retries \/ RetryEnqueues \/ Reported \/ Analysed \/ Restart
  <2>1. CASE Retries \/ RetryEnqueues
    BY <1>0, <2>1 DEF Retries, RetryEnqueues
  <2>2. CASE Reported
    BY <2>2 DEF Reported
  <2>3. CASE Analysed
    <3>1. job # "none"
      BY <1>0, <2>3 DEF Analysed
    <3> QED BY <2>3, <3>1 DEF Analysed
  <2>4. CASE Restart
    <3>1. job = "none" /\ UNCHANGED <<job, sent, analysis>>
      BY <2>4 DEF Restart
    <3>2. analysing = FALSE /\ analysing' = FALSE
      BY <1>0, <2>4, <3>1 DEF Restart, Types, TypeOK
    <3> QED BY <3>1, <3>2
  <2> QED BY <1>7, <2>1, <2>2, <2>3, <2>4
<1> QED BY <1>1, <1>2, <1>3, <1>4, <1>5, <1>6, <1>7, Steps

LEMMA StepKept == ASSUME Types, Sound, Unheard, Kept, [Next]_vars PROVE Kept'
<1>1. CASE UNCHANGED vars
  BY <1>1 DEF vars, Kept, SoFar, Uncut, Filed, Apart, Carried, Told, Recording
<1>2. CASE Next
  <2>1. CASE \E h \in Handler : \/ Receive(h) \/ Creates(h) \/ Records(h) \/ RecordsParts(h) \/ Queues(h)
                               \/ Enqueues(h) \/ Refuses(h) \/ IngressRaises(h)
    BY <2>1, ArriveKept, CreateKept, RecordKept, RecordPartsKept, StoreKept, RaiseKept
  <2>2. CASE Claims \/ Redownloads \/ CannotLoad \/ Loads \/ Filters \/ Begins
    BY <2>2, ClaimKept, LoadKept, LostKept, FinishKept, CarryKept
  <2>3. CASE SkipsPart \/ SendFails \/ SendsText \/ Finishes \/ Closes
    BY <2>3, CarryKept, LostKept, TextKept, FinishKept
  <2>4. CASE Catches \/ Marks \/ GivesUp \/ AnswerLost \/ WorkerRaises \/ ComesDue
    BY <2>4, LostKept, ClaimKept
  <2>5. CASE \E i \in Media : Rerecords(i) \/ RerecordsParts(i) \/ SendsPart(i) \/ Finalizes(i) \/ CleansUp(i)
    BY <2>5, CarryKept, FinalizeKept, CleanKept
  <2>6. CASE Retries \/ RetryEnqueues \/ Reported \/ Analysed \/ Restart
    BY <2>6, RetryKept, AsideKept, RestartKept
  <2> QED BY <1>2, Steps, <2>1, <2>2, <2>3, <2>4, <2>5, <2>6
<1> QED BY <1>1, <1>2

\* A delivery closed as completed has submitted the message with every medium,
\* whatever was re-read, cleaned up, refused or lost before, unless its ingress
\* was cut short: for any number of media and of deliveries.
THEOREM ClosedDeliveriesAreWhole == Spec => []ClosedIsWhole
<1> DEFINE Inv == Types /\ Sound /\ Unheard /\ Kept
<1>1. Init => Inv
  BY InitTypes, InitSound, InitKept
<1>2. Inv /\ [Next]_vars => Inv'
  BY StepTypes, StepSound, StepUnheard, StepKept
<1>3. Inv => ClosedIsWhole
  BY DEF Kept, Uncut, Told, ClosedIsWhole
<1> HIDE DEF Inv
<1> QED BY <1>1, <1>2, <1>3, PTL DEF Spec


===============================================================================
