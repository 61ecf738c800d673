------------------------- MODULE EvidenceSpoolProofs -------------------------
(***************************************************************************)
(* Proofs about EvidenceSpool, for any observations, files, processes and  *)
(* bounds, also while passes and writers run side by side: what the        *)
(* variables hold (Types) and what a process has at each place (Controls), *)
(* with the lemmas they rest on about the lines of a segment file and      *)
(* about the batches a pass cuts from them.                                *)
(***************************************************************************)
EXTENDS EvidenceSpool, SequenceTheorems, TLAPS

-----------------------------------------------------------------------------
(* Lines of a segment file                                                 *)

\* What is written: a record holds an observation.
GoodLine == {l \in Line : l.type = "record" => l.obs \in Obs}
Lined == Seq(GoodLine)

LEMMA LinesWritten ==
    /\ Header \in GoodLine /\ Torn \in GoodLine /\ Cut \in GoodLine
    /\ \A o \in Obs : Record(o) \in GoodLine
    /\ \A n \in Nat, c \in Content : Footer(n, c) \in GoodLine
<1>1. <<>> \in Content
  BY DEF Content
<1>2. Header \in GoodLine /\ Torn \in GoodLine /\ Cut \in GoodLine
  BY <1>1 DEF Header, Torn, Cut, GoodLine, Line, Kind
<1>3. \A o \in Obs : Record(o) \in GoodLine
  BY <1>1 DEF Header, Record, GoodLine, Line, Kind
<1>4. \A n \in Nat, c \in Content : Footer(n, c) \in GoodLine
  BY DEF Header, Footer, GoodLine, Line, Kind
<1> QED BY <1>2, <1>3, <1>4

LEMMA LineTypes ==
    /\ Header.type = "header" /\ Torn.type = "torn"
    /\ \A o : Record(o).type = "record" /\ Record(o).obs = o
    /\ \A n, c : Footer(n, c).type = "footer"
BY DEF Header, Torn, Record, Footer

LEMMA GoodIsLine == \A l \in GoodLine : l \in Line /\ l.obs \in Obs \cup {NoObs} /\ l.type \in Kind
BY DEF GoodLine, Line

LEMMA LinedIsLines == Lined \subseteq Seq(Line) /\ NoFile \notin Lined
<1>1. GoodLine \subseteq Line
  BY GoodIsLine
<1>2. Lined \subseteq Seq(Line)
  BY <1>1, SeqMonotonic DEF Lined
<1> QED BY <1>2, FileAssumption

\* The records of a file, by their places in it.
LEMMA InRecords ==
    \A lines : \A o : o \in RecordsOf(lines) <=>
        \E i \in DOMAIN lines : lines[i].type = "record" /\ lines[i].obs = o
BY DEF RecordsOf

\* One more line.
LEMMA OneMore ==
    ASSUME NEW lines \in Lined, NEW l \in GoodLine
    PROVE  /\ Append(lines, l) \in Lined /\ Append(lines, l) # <<>>
           /\ Len(Append(lines, l)) = Len(lines) + 1 /\ Len(lines) \in Nat
           /\ \A i \in 1..Len(lines) : Append(lines, l)[i] = lines[i]
           /\ Append(lines, l)[Len(lines) + 1] = l
           /\ RecordsOf(lines) \subseteq RecordsOf(Append(lines, l))
           /\ l.type = "record" => l.obs \in RecordsOf(Append(lines, l))
<1>1. /\ Append(lines, l) \in Lined /\ Append(lines, l) # <<>>
      /\ Len(Append(lines, l)) = Len(lines) + 1 /\ Len(lines) \in Nat
      /\ \A i \in 1..Len(lines) : Append(lines, l)[i] = lines[i]
      /\ Append(lines, l)[Len(lines) + 1] = l
  BY AppendProperties, LenProperties DEF Lined
<1> DEFINE more == Append(lines, l)
<1>2. DOMAIN lines = 1..Len(lines) /\ DOMAIN more = 1..Len(lines) + 1
  BY <1>1, LenProperties DEF Lined
<1>3. RecordsOf(lines) \subseteq RecordsOf(more)
  <2> SUFFICES ASSUME NEW i \in DOMAIN lines, lines[i].type = "record" PROVE lines[i].obs \in RecordsOf(more)
    BY InRecords
  <2>1. i \in DOMAIN more /\ more[i] = lines[i]
    BY <1>1, <1>2
  <2> QED BY <2>1, InRecords
<1>4. l.type = "record" => l.obs \in RecordsOf(more)
  <2>1. Len(lines) + 1 \in DOMAIN more /\ more[Len(lines) + 1] = l
    BY <1>1, <1>2
  <2> HIDE DEF more
  <2> QED BY <2>1, InRecords
<1> QED BY <1>1, <1>3, <1>4

LEMMA OneLine ==
    ASSUME NEW l \in GoodLine
    PROVE  <<l>> \in Lined /\ <<l>> # <<>> /\ Len(<<l>>) = 1 /\ <<l>>[1] = l
BY DEF Lined

LEMMA NoLine == <<>> \in Lined /\ RecordsOf(<<>>) = {} /\ Len(<<>>) = 0
<1>1. <<>> \in Lined
  BY DEF Lined
<1>2. RecordsOf(<<>>) = {}
  BY InRecords
<1> QED BY <1>1, <1>2

\* What is hashed: the observations line by line.
LEMMA Hashing ==
    ASSUME NEW lines \in Lined
    PROVE  /\ Hashed(lines) \in Content /\ Len(Hashed(lines)) = Len(lines)
           /\ \A i \in 1..Len(lines) : Hashed(lines)[i] = lines[i].obs
<1>1. Len(lines) \in Nat /\ DOMAIN lines = 1..Len(lines)
  BY LenProperties DEF Lined
<1>2. \A i \in 1..Len(lines) : lines[i].obs \in Obs \cup {NoObs}
  BY <1>1, GoodIsLine, ElementOfSeq DEF Lined
<1>3. Hashed(lines) = [i \in 1..Len(lines) |-> lines[i].obs]
  BY <1>1 DEF Hashed
<1>4. Hashed(lines) \in Content
  BY <1>1, <1>2, <1>3, IsASeq DEF Content
<1>5. Hashed(lines) \in [1..Len(lines) -> Obs \cup {NoObs}]
  BY <1>2, <1>3
<1>6. Len(Hashed(lines)) = Len(lines)
  BY <1>1, <1>3, <1>4, <1>5, LenProperties DEF Content
<1> QED BY <1>3, <1>4, <1>6

LEMMA Parts ==
    ASSUME NEW S, NEW s \in Seq(S), NEW m \in Nat \ {0}, NEW n \in Int, n <= Len(s)
    PROVE  SubSeq(s, m, n) \in Seq(S)
<1>1. \A i \in m..n : s[i] \in S
  BY ElementOfSeq, LenProperties
<1> QED BY <1>1, SubSeqProperties

\* The records of a file accepted by read_segment are the observations between
\* its first and its last line.
LEMMA ValidShape ==
    ASSUME NEW lines \in Lined, Valid(lines)
    PROVE  /\ Len(lines) \in Nat /\ Len(lines) >= 3 /\ lines[1].type = "header"
           /\ \A i \in 2..(Len(lines) - 1) : lines[i].type = "record"
           /\ lines[Len(lines)].type = "footer" /\ ~IsTorn(lines)
<1>1. /\ Len(lines) \in Nat /\ Len(lines) >= 3 /\ lines[1].type = "header"
      /\ \A i \in 2..(Len(lines) - 1) : lines[i].type = "record"
      /\ lines[Len(lines)].type = "footer" /\ DOMAIN lines = 1..Len(lines)
  BY LenProperties, LineTypes DEF Valid, Lined
<1>2. ASSUME NEW i \in DOMAIN lines PROVE lines[i].type # "torn"
  <2>1. i = 1 \/ i = Len(lines) \/ i \in 2..(Len(lines) - 1)
    BY <1>1
  <2> QED BY <1>1, <2>1
<1> QED BY <1>1, <1>2 DEF IsTorn

LEMMA ValidRecords ==
    ASSUME NEW lines \in Lined, Valid(lines)
    PROVE  LET records == SubSeq(Hashed(lines), 2, Len(lines) - 1) IN
           records \in Seq(Obs) /\ RecordsOf(lines) = Items(records)
<1> DEFINE n == Len(lines)
<1> DEFINE records == SubSeq(Hashed(lines), 2, n - 1)
<1>1. /\ n \in Nat /\ n >= 3 /\ DOMAIN lines = 1..n
      /\ lines[1].type # "record" /\ lines[n].type # "record"
      /\ \A i \in 2..(n - 1) : lines[i].type = "record"
  BY ValidShape, LenProperties DEF Lined
<1>2. \A i \in 1..n : Hashed(lines)[i] = lines[i].obs
  BY Hashing
<1>3. \A i \in 2..(n - 1) : lines[i].obs \in Obs
  <2> TAKE i \in 2..(n - 1)
  <2>1. lines[i] \in GoodLine
    BY <1>1, ElementOfSeq DEF Lined
  <2> QED BY <1>1, <2>1 DEF GoodLine
<1> HIDE DEF n
<1>4. \A i \in 2..(n - 1) : Hashed(lines)[i] \in Obs
  BY <1>1, <1>2, <1>3
<1>5. /\ records \in Seq(Obs) /\ Len(records) = n - 2
      /\ \A i \in 1..(n - 2) : records[i] = Hashed(lines)[i + 1]
  <2>1. /\ SubSeq(Hashed(lines), 2, n - 1) \in Seq(Obs)
        /\ Len(SubSeq(Hashed(lines), 2, n - 1)) = IF 2 <= n - 1 THEN (n - 1) - 2 + 1 ELSE 0
        /\ \A i \in 1 .. (n - 1) - 2 + 1 : SubSeq(Hashed(lines), 2, n - 1)[i] = Hashed(lines)[2 + i - 1]
    BY <1>1, <1>4, SubSeqProperties
  <2> QED BY <1>1, <2>1
<1>6. DOMAIN records = 1..(n - 2)
  BY <1>5, LenProperties
<1> HIDE DEF records
<1>7. \A i \in 1..(n - 2) : records[i] = lines[i + 1].obs
  BY <1>1, <1>2, <1>5
<1>8. RecordsOf(lines) \subseteq Items(records)
  <2> SUFFICES ASSUME NEW i \in 1..n, lines[i].type = "record" PROVE lines[i].obs \in Items(records)
    BY <1>1, InRecords
  <2>1. i - 1 \in 1..(n - 2) /\ (i - 1) + 1 = i
    BY <1>1
  <2>2. records[i - 1] = lines[i].obs
    BY <1>7, <2>1
  <2> QED BY <1>6, <2>1, <2>2 DEF Items
<1>9. Items(records) \subseteq RecordsOf(lines)
  <2> SUFFICES ASSUME NEW i \in 1..(n - 2) PROVE records[i] \in RecordsOf(lines)
    BY <1>6 DEF Items
  <2>1. i + 1 \in 1..n /\ i + 1 \in 2..(n - 1)
    BY <1>1
  <2> QED BY <1>1, <1>7, <2>1, InRecords
<1> QED BY <1>5, <1>8, <1>9 DEF records, n

-----------------------------------------------------------------------------
(* Items of a sequence                                                     *)

LEMMA ItemsOfParts ==
    ASSUME NEW S, NEW s \in Seq(S), NEW k \in Nat
    PROVE  LET few == SubSeq(s, 1, IF Len(s) < k THEN Len(s) ELSE k)
               left == SubSeq(s, k + 1, Len(s))
           IN  /\ few \in Seq(S) /\ left \in Seq(S)
               /\ Len(few) <= k /\ (left # <<>> => Len(few) = k)
               /\ Items(s) = Items(few) \cup Items(left)
<1> DEFINE n == Len(s)
<1> DEFINE m == IF n < k THEN n ELSE k
<1> DEFINE few == SubSeq(s, 1, m)
<1> DEFINE left == SubSeq(s, k + 1, n)
<1>0. n \in Nat /\ m \in Nat /\ m <= n /\ m <= k /\ \A i \in 1..n : s[i] \in S
  BY LenProperties, ElementOfSeq
<1>1. DOMAIN s = 1..n
  BY LenProperties
<1> HIDE DEF n
<1>2. few \in Seq(S) /\ Len(few) = m /\ \A i \in 1..m : few[i] = s[i]
  <2>1. \A i \in 1..m : s[i] \in S
    BY <1>0
  <2>2. /\ SubSeq(s, 1, m) \in Seq(S)
        /\ Len(SubSeq(s, 1, m)) = IF 1 <= m THEN m - 1 + 1 ELSE 0
        /\ \A i \in 1..m - 1 + 1 : SubSeq(s, 1, m)[i] = s[1 + i - 1]
    BY <1>0, <2>1, SubSeqProperties
  <2> QED BY <1>0, <2>2
<1>3. /\ left \in Seq(S) /\ Len(left) = IF k + 1 <= n THEN n - k ELSE 0
      /\ \A i \in 1..n - k : left[i] = s[k + i]
  <2>1. \A i \in k + 1..n : s[i] \in S
    BY <1>0
  <2>2. /\ SubSeq(s, k + 1, n) \in Seq(S)
        /\ Len(SubSeq(s, k + 1, n)) = IF k + 1 <= n THEN n - (k + 1) + 1 ELSE 0
        /\ \A i \in 1..n - (k + 1) + 1 : SubSeq(s, k + 1, n)[i] = s[(k + 1) + i - 1]
    BY <1>0, <2>1, SubSeqProperties
  <2> QED BY <1>0, <2>2
<1>4. DOMAIN few = 1..m /\ DOMAIN left = 1..(IF k + 1 <= n THEN n - k ELSE 0)
  BY <1>2, <1>3, LenProperties
<1>5. left # <<>> => Len(few) = k
  <2>1. left # <<>> => k + 1 <= n
    BY <1>0, <1>3, EmptySeq
  <2> QED BY <1>0, <1>2, <2>1
<1> HIDE DEF few, left
<1>6. Items(s) \subseteq Items(few) \cup Items(left)
  <2> SUFFICES ASSUME NEW i \in 1..n PROVE s[i] \in Items(few) \cup Items(left)
    BY <1>1 DEF Items
  <2>1. CASE i <= k
    <3>1. i \in 1..m
      BY <1>0, <2>1
    <3> QED BY <1>2, <1>4, <3>1 DEF Items
  <2>2. CASE ~(i <= k)
    <3>1. i - k \in 1..n - k /\ k + (i - k) = i /\ i - k \in DOMAIN left
      BY <1>0, <1>4, <2>2
    <3> QED BY <1>3, <3>1 DEF Items
  <2> QED BY <2>1, <2>2
<1>7. Items(few) \subseteq Items(s)
  <2> SUFFICES ASSUME NEW i \in 1..m PROVE few[i] \in Items(s)
    BY <1>4 DEF Items
  <2>1. i \in 1..n
    BY <1>0
  <2> QED BY <1>1, <1>2, <2>1 DEF Items
<1>8. Items(left) \subseteq Items(s)
  <2> SUFFICES ASSUME NEW i \in DOMAIN left PROVE left[i] \in Items(s)
    BY DEF Items
  <2>1. i \in 1..n - k /\ k + i \in 1..n
    BY <1>0, <1>4
  <2> QED BY <1>1, <1>3, <2>1 DEF Items
<1>9. /\ few \in Seq(S) /\ left \in Seq(S) /\ Len(few) <= k /\ (left # <<>> => Len(few) = k)
      /\ Items(s) = Items(few) \cup Items(left)
  BY <1>0, <1>2, <1>3, <1>5, <1>6, <1>7, <1>8
<1> QED BY <1>9 DEF few, left, n

LEMMA ItemsOfTail ==
    ASSUME NEW S, NEW s \in Seq(S), s # <<>>
    PROVE  /\ Head(s) \in S /\ Tail(s) \in Seq(S)
           /\ Items(s) = {Head(s)} \cup Items(Tail(s))
<1>1. /\ Head(s) \in S /\ Tail(s) \in Seq(S) /\ Len(Tail(s)) = Len(s) - 1
      /\ \A i \in 1..Len(Tail(s)) : Tail(s)[i] = s[i + 1]
  BY HeadTailProperties
<1>2. Len(s) \in Nat \ {0} /\ DOMAIN s = 1..Len(s) /\ DOMAIN Tail(s) = 1..Len(s) - 1 /\ Head(s) = s[1]
  BY <1>1, LenProperties, EmptySeq
<1> DEFINE t == Tail(s)
<1> HIDE DEF t
<1>3. ASSUME NEW i \in DOMAIN s PROVE s[i] \in {Head(s)} \cup Items(Tail(s))
  <2>1. CASE i = 1
    BY <1>2, <2>1
  <2>2. CASE i # 1
    <3>1. i - 1 \in DOMAIN Tail(s) /\ (i - 1) + 1 = i
      BY <1>2, <2>2
    <3>2. Tail(s)[i - 1] = s[i]
      BY <1>1, <1>2, <3>1
    <3> QED BY <3>1, <3>2 DEF Items
  <2> QED BY <2>1, <2>2
<1>4. ASSUME NEW i \in DOMAIN Tail(s) PROVE Tail(s)[i] \in Items(s)
  <2>1. i + 1 \in DOMAIN s /\ Tail(s)[i] = s[i + 1]
    BY <1>1, <1>2
  <2> QED BY <2>1 DEF Items
<1>5. Head(s) \in Items(s)
  BY <1>2 DEF Items
<1> QED BY <1>1, <1>3, <1>4, <1>5 DEF Items

LEMMA ItemsOfConcat ==
    ASSUME NEW S, NEW s \in Seq(S), NEW t \in Seq(S)
    PROVE  s \o t \in Seq(S) /\ Len(s \o t) = Len(s) + Len(t) /\ Items(s \o t) = Items(s) \cup Items(t)
<1>1. /\ s \o t \in Seq(S) /\ Len(s \o t) = Len(s) + Len(t)
      /\ \A i \in 1..Len(s) + Len(t) : (s \o t)[i] = IF i <= Len(s) THEN s[i] ELSE t[i - Len(s)]
  BY ConcatProperties
<1>2. /\ Len(s) \in Nat /\ Len(t) \in Nat /\ DOMAIN s = 1..Len(s) /\ DOMAIN t = 1..Len(t)
      /\ DOMAIN (s \o t) = 1..Len(s) + Len(t)
  BY <1>1, LenProperties
<1> DEFINE u == s \o t
<1>3. /\ DOMAIN u = 1..Len(s) + Len(t)
      /\ \A i \in 1..Len(s) + Len(t) : u[i] = IF i <= Len(s) THEN s[i] ELSE t[i - Len(s)]
  BY <1>1, <1>2
<1> HIDE DEF u
<1>4. ASSUME NEW i \in DOMAIN u PROVE u[i] \in Items(s) \cup Items(t)
  <2>1. CASE i <= Len(s)
    <3>1. i \in DOMAIN s /\ u[i] = s[i]
      BY <1>2, <1>3, <2>1
    <3> QED BY <3>1 DEF Items
  <2>2. CASE ~(i <= Len(s))
    <3>1. i - Len(s) \in DOMAIN t /\ u[i] = t[i - Len(s)]
      BY <1>2, <1>3, <2>2
    <3> QED BY <3>1 DEF Items
  <2> QED BY <2>1, <2>2
<1>5. ASSUME NEW i \in DOMAIN s PROVE s[i] \in Items(u)
  <2>1. i \in DOMAIN u /\ u[i] = s[i]
    BY <1>2, <1>3
  <2> QED BY <2>1 DEF Items
<1>6. ASSUME NEW i \in DOMAIN t PROVE t[i] \in Items(u)
  <2>1. Len(s) + i \in DOMAIN u /\ ~(Len(s) + i <= Len(s)) /\ (Len(s) + i) - Len(s) = i
    BY <1>2, <1>3
  <2>2. u[Len(s) + i] = t[i]
    BY <1>3, <2>1
  <2> QED BY <2>1, <2>2 DEF Items
<1>7. Items(u) = Items(s) \cup Items(t)
  BY <1>4, <1>5, <1>6 DEF Items
<1> QED BY <1>1, <1>7 DEF u

-----------------------------------------------------------------------------
(* Types, and what a process has at each place                             *)

Disks == [Dir -> [File -> Lined \cup {NoFile}]]
Segs == [file : File \cup {NoFile}, rows : Nat]
Paths == [dir : Pending, file : File \cup {NoFile}]
Forgotten == [o \in Obs |-> NoPath]

StoreTypes ==
    /\ db \subseteq Obs /\ written \subseteq Obs /\ hurt \subseteq File
    /\ trouble \in 0..MaxTrouble
ProcTypes ==
    /\ at \in [Proc -> Place] /\ op \in [Proc -> Step] /\ seg \in [Proc -> Segs]
    /\ memory \in [Proc -> [Obs -> Paths]] /\ cur \in [Proc -> Obs \cup {NoObs}]
    /\ content \in [Proc -> Content] /\ todo \in [Proc -> SUBSET File]
    /\ batch \in [Proc -> Seq(Obs)] /\ rest \in [Proc -> Seq(Obs)]
    /\ taken \in [Proc -> Seq(File)] /\ bad \in [Proc -> File \cup {NoFile}]
Types == disk \in Disks /\ StoreTypes /\ ProcTypes

\* A process that is not up has nothing.
Off(p) ==
    /\ op[p] = "none" /\ seg[p] = NoSeg /\ memory[p] = Forgotten /\ cur[p] = NoObs
    /\ content[p] = <<>> /\ todo[p] = {} /\ batch[p] = <<>> /\ rest[p] = <<>>
    /\ taken[p] = <<>> /\ bad[p] = NoFile

\* The step of a spool object goes with its segment and its observation, and
\* a pass has an observation in hand only while it splits.
Control(p) ==
    /\ at[p] = "off" => Off(p)
    /\ p \in Writer => at[p] \in {"off", "ready"}
    /\ p \in Replayer => at[p] # "ready"
    /\ seg[p] = NoSeg \/ seg[p].file \in File
    /\ op[p] = "none" => cur[p] = NoObs
    /\ op[p] # "none" => seg[p] # NoSeg
    /\ op[p] \in {"header", "append"} \/ (p \in Writer /\ op[p] # "none") => cur[p] # NoObs
    /\ p \in Replayer /\ cur[p] # NoObs =>
           at[p] = "split" /\ rest[p] # <<>> /\ cur[p] = Head(rest[p])
    /\ at[p] \in {"take", "insert", "archive"} => op[p] = "none" /\ seg[p] = NoSeg
    /\ at[p] = "discover" =>
           batch[p] = <<>> /\ rest[p] = <<>> /\ taken[p] = <<>> /\ memory[p] = Forgotten
Controls == \A p \in Proc : Control(p)

\* A step of p touches nothing of another process.
Mine(p) ==
    \A q \in Proc \ {p} :
        /\ at'[q] = at[q] /\ op'[q] = op[q] /\ seg'[q] = seg[q] /\ memory'[q] = memory[q]
        /\ cur'[q] = cur[q] /\ content'[q] = content[q] /\ todo'[q] = todo[q]
        /\ batch'[q] = batch[q] /\ rest'[q] = rest[q] /\ taken'[q] = taken[q]
        /\ bad'[q] = bad[q]
Fits(p) == Types' /\ Control(p)' /\ Mine(p)

LEMMA Kinds == \A p \in Proc : p \in Writer <=> p \notin Replayer
BY EvidenceAssumption DEF Proc

LEMMA ControlsOn == ASSUME Controls, NEW p \in Proc, Mine(p), Control(p)' PROVE Controls'
<1> SUFFICES ASSUME NEW q \in Proc \ {p} PROVE Control(q)'
  BY DEF Controls
<1>1. Control(q)
  BY DEF Controls
<1> QED BY <1>1 DEF Mine, Control, Off

LEMMA Nothings ==
    /\ NoSeg \in Segs /\ NoPath \in Paths /\ Forgotten \in [Obs -> Paths]
    /\ NoSeg.file = NoFile /\ NoFile \notin File
    /\ \A f \in File, n \in Nat : [file |-> f, rows |-> n] \in Segs /\ [file |-> f, rows |-> n] # NoSeg
    /\ \A f \in File, d \in Pending : [dir |-> d, file |-> f] \in Paths /\ [dir |-> d, file |-> f] # NoPath
BY EvidenceAssumption DEF NoSeg, NoPath, Segs, Paths, Forgotten, Pending

LEMMA Putting ==
    ASSUME disk \in Disks, NEW d \in Dir, NEW f \in File, NEW lines \in Lined \cup {NoFile}
    PROVE  /\ Put(d, f, lines) \in Disks
           /\ \A e \in Dir, g \in File :
                Put(d, f, lines)[e][g] = IF e = d /\ g = f THEN lines ELSE disk[e][g]
BY DEF Disks, Put

LEMMA Existing ==
    ASSUME disk \in Disks, NEW d \in Dir, NEW f \in File
    PROVE  Exists(d, f) <=> disk[d][f] \in Lined
BY LinedIsLines DEF Disks, Exists

LEMMA Dirs == Dir = {"open", "sealed", "done", "away"} /\ Pending = {"open", "sealed"}
BY DEF Dir, Pending

LEMMA Discarding ==
    ASSUME disk \in Disks, NEW d \in Dir, NEW f \in File
    PROVE  Discard(d, f) \in Disks
<1>1. \A e \in Dir : Lines(e, f) \in Lined
  BY Existing, NoLine DEF Lines
<1>2. Lines("away", f) \o Lines(d, f) \in Lined
  BY <1>1, ConcatProperties, Dirs DEF Lined
<1> QED BY <1>2 DEF Disks, Discard

LEMMA Moving ==
    ASSUME disk \in Disks, NEW from \in Dir, NEW to \in Dir, NEW f \in File
    PROVE  Move(from, to, f) \in Disks
<1> DEFINE base == IF Exists(to, f) THEN Discard(to, f) ELSE disk
<1>1. base \in Disks
  BY Discarding
<1>2. disk[from][f] \in Lined \cup {NoFile}
  BY DEF Disks
<1>3. Move(from, to, f) = [base EXCEPT ![from][f] = NoFile, ![to][f] = disk[from][f]]
  BY DEF Move
<1> HIDE DEF base
<1>4. [base EXCEPT ![from][f] = NoFile] \in Disks
  BY <1>1 DEF Disks
<1>5. Move(from, to, f) = [[base EXCEPT ![from][f] = NoFile] EXCEPT ![to][f] = disk[from][f]]
  BY <1>3
<1> DEFINE left == [base EXCEPT ![from][f] = NoFile]
<1>6. left \in Disks
  BY <1>4
<1> HIDE DEF left
<1>7. [left EXCEPT ![to][f] = disk[from][f]] \in Disks
  BY <1>2, <1>6 DEF Disks
<1> QED BY <1>5, <1>7 DEF left

LEMMA Appending ==
    ASSUME disk \in Disks, NEW p \in Proc, seg[p].file \in File, NEW line \in GoodLine
    PROVE  LET f == seg[p].file
               lines == IF Exists("open", f) THEN Append(disk["open"][f], line) ELSE <<line>>
           IN  /\ lines \in Lined /\ Appended(p, line) = Put("open", f, lines)
               /\ Appended(p, line) \in Disks
               /\ \A e \in Dir, g \in File :
                    Appended(p, line)[e][g] = IF e = "open" /\ g = f THEN lines ELSE disk[e][g]
<1> DEFINE f == seg[p].file
<1> DEFINE lines == IF Exists("open", f) THEN Append(disk["open"][f], line) ELSE <<line>>
<1>1. lines \in Lined
  BY Existing, OneMore, OneLine, Dirs
<1>2. Appended(p, line) = Put("open", f, lines)
  BY DEF Appended
<1> HIDE DEF lines
<1>3. /\ Put("open", f, lines) \in Disks
      /\ \A e \in Dir, g \in File :
           Put("open", f, lines)[e][g] = IF e = "open" /\ g = f THEN lines ELSE disk[e][g]
  BY <1>1, Putting, Dirs
<1>4. /\ lines \in Lined /\ Appended(p, line) = Put("open", f, lines)
      /\ Appended(p, line) \in Disks
      /\ \A e \in Dir, g \in File :
           Appended(p, line)[e][g] = IF e = "open" /\ g = f THEN lines ELSE disk[e][g]
  BY <1>1, <1>2, <1>3
<1> QED BY <1>4 DEF lines

LEMMA InitTypes == Init => Types /\ Controls
<1> SUFFICES ASSUME Init PROVE Types /\ Controls
  OBVIOUS
<1>1. disk \in Disks
  BY DEF Init, Disks
<1>2. StoreTypes
  BY EvidenceAssumption DEF Init, StoreTypes
<1>3. <<>> \in Content /\ <<>> \in Seq(Obs) /\ <<>> \in Seq(File)
  BY DEF Content
<1>4. ProcTypes
  BY <1>3, Nothings DEF Init, ProcTypes, Place, Step, Forgotten
<1>5. Controls
  BY DEF Init, Controls, Control, Off, Forgotten
<1> QED BY <1>1, <1>2, <1>4, <1>5 DEF Types

\* What several steps have in common.
LEMMA Ending ==
    ASSUME ProcTypes, NEW p \in Proc, Ended(p)
    PROVE  ProcTypes' /\ at'[p] = "off" /\ Off(p)' /\ Control(p)' /\ Mine(p)
<1>1. <<>> \in Content /\ <<>> \in Seq(Obs) /\ <<>> \in Seq(File)
  BY DEF Content
<1>2. ProcTypes'
  BY <1>1, Nothings DEF Ended, ProcTypes, Place, Step, Forgotten
<1>3. at'[p] = "off" /\ Off(p)'
  BY DEF Ended, ProcTypes, Off, Forgotten
<1>4. Mine(p)
  BY DEF Ended, ProcTypes, Mine
<1>5. Control(p)'
  BY <1>3 DEF Control, Off
<1> QED BY <1>2, <1>3, <1>4, <1>5

LEMMA Asking ==
    ASSUME Types, Controls, NEW p \in Proc, NEW o \in Asked(p)
    PROVE  /\ o \in Obs
           /\ p \in Writer => at[p] = "ready"
           /\ p \in Replayer => at[p] = "split" /\ rest[p] # <<>> /\ o = Head(rest[p])
           /\ at[p] \in {"ready", "split"}
<1>1. Control(p) /\ rest[p] \in Seq(Obs)
  BY DEF Controls, Types, ProcTypes
<1>2. CASE at[p] = "ready"
  BY <1>1, <1>2, Kinds DEF Asked, Control
<1>3. CASE at[p] = "split" /\ rest[p] # <<>>
  <2>1. o = Head(rest[p])
    BY <1>3 DEF Asked
  <2>2. Head(rest[p]) \in Obs
    BY <1>1, <1>3, ItemsOfTail
  <2> QED BY <1>1, <1>3, <2>1, <2>2, Kinds DEF Control
<1>4. CASE ~(at[p] = "ready") /\ ~(at[p] = "split" /\ rest[p] # <<>>)
  BY <1>4 DEF Asked
<1> QED BY <1>2, <1>3, <1>4

\* write() returns: nothing of the object but its step and observation moves.
LEMMA Returning ==
    ASSUME Types, NEW p \in Proc, NEW o \in Obs, Returned(p, o),
           p \in Replayer => rest[p] # <<>>
    PROVE  /\ op' \in [Proc -> Step] /\ op'[p] = "none"
           /\ cur' \in [Proc -> Obs \cup {NoObs}] /\ cur'[p] = NoObs
           /\ rest' \in [Proc -> Seq(Obs)]
           /\ \A q \in Proc \ {p} : op'[q] = op[q] /\ cur'[q] = cur[q] /\ rest'[q] = rest[q]
           /\ UNCHANGED <<db, at, todo, batch, taken, bad>>
           /\ p \in Writer => written' = written \cup {o} /\ rest' = rest
           /\ p \in Replayer => written' = written /\ rest'[p] = Tail(rest[p])
           /\ written' \subseteq Obs
<1>1. /\ op \in [Proc -> Step] /\ cur \in [Proc -> Obs \cup {NoObs}]
      /\ rest \in [Proc -> Seq(Obs)] /\ written \subseteq Obs
  BY DEF Types, ProcTypes, StoreTypes
<1>2. /\ op' = [op EXCEPT ![p] = "none"] /\ cur' = [cur EXCEPT ![p] = NoObs]
      /\ UNCHANGED <<db, at, todo, batch, taken, bad>>
      /\ p \in Writer => written' = written \cup {o} /\ rest' = rest
      /\ p \in Replayer => written' = written /\ rest' = [rest EXCEPT ![p] = Tail(rest[p])]
  BY Kinds DEF Returned
<1>3. p \in Replayer => Tail(rest[p]) \in Seq(Obs)
  BY <1>1, ItemsOfTail
<1>4. rest' \in [Proc -> Seq(Obs)] /\ \A q \in Proc \ {p} : rest'[q] = rest[q]
  BY <1>1, <1>2, <1>3, Kinds
<1>5. op' \in [Proc -> Step] /\ op'[p] = "none" /\ \A q \in Proc \ {p} : op'[q] = op[q]
  BY <1>1, <1>2 DEF Step
<1>6. cur' \in [Proc -> Obs \cup {NoObs}] /\ cur'[p] = NoObs /\ \A q \in Proc \ {p} : cur'[q] = cur[q]
  BY <1>1, <1>2
<1>7. p \in Replayer => rest'[p] = Tail(rest[p])
  BY <1>1, <1>2
<1> QED BY <1>1, <1>2, <1>4, <1>5, <1>6, <1>7, Kinds

\* write() or a sealing raises.
LEMMA Raising ==
    ASSUME Types, Controls, NEW p \in Proc, NEW o \in Obs \cup {NoObs}, Raised(p, o),
           p \in Writer => o \in Obs, at[p] # "off"
    PROVE  /\ ProcTypes' /\ Control(p)' /\ Mine(p) /\ db' \subseteq Obs /\ written' = written
           /\ db \subseteq db'
           /\ \/ /\ p \in Writer /\ db' = db \cup {o} /\ at'[p] = at[p] /\ op'[p] = "none"
                 /\ seg'[p] = IF op[p] = "header" THEN NoSeg ELSE seg[p]
                 /\ memory'[p] = memory[p]
              \/ /\ at[p] = "split" /\ at'[p] = "archive" /\ db' = db
                 /\ todo'[p] = Items(ButTheSplit(taken[p]))
              \/ at[p] = "discover" /\ Ended(p) /\ db' = db
<1>1. Control(p) /\ ProcTypes /\ db \subseteq Obs
  BY DEF Controls, Types, StoreTypes
<1>2. CASE p \in Writer /\ db' = db \cup {o} /\ op' = [op EXCEPT ![p] = "none"]
           /\ cur' = [cur EXCEPT ![p] = NoObs]
           /\ seg' = [seg EXCEPT ![p] = IF op[p] = "header" THEN NoSeg ELSE @]
           /\ UNCHANGED <<written, at, memory, content, passVars>>
  <2>1. ProcTypes'
    BY <1>1, <1>2, Nothings DEF ProcTypes, Step, passVars
  <2>2. Mine(p)
    BY <1>1, <1>2 DEF ProcTypes, Mine, passVars
  <2>3. /\ at'[p] = at[p] /\ op'[p] = "none" /\ cur'[p] = NoObs /\ memory'[p] = memory[p]
        /\ seg'[p] = IF op[p] = "header" THEN NoSeg ELSE seg[p]
    BY <1>1, <1>2 DEF ProcTypes
  <2>4. Control(p)'
    BY <1>1, <1>2, <2>3, Kinds DEF Control
  <2> QED BY <1>1, <1>2, <2>1, <2>2, <2>3, <2>4
<1>3. CASE /\ at[p] = "split"
           /\ at' = [at EXCEPT ![p] = "archive"]
           /\ op' = [op EXCEPT ![p] = "none"]
           /\ cur' = [cur EXCEPT ![p] = NoObs]
           /\ seg' = [seg EXCEPT ![p] = NoSeg]
           /\ rest' = [rest EXCEPT ![p] = <<>>]
           /\ taken' = [taken EXCEPT ![p] = ButTheSplit(@)]
           /\ todo' = [todo EXCEPT ![p] = Items(ButTheSplit(taken[p]))]
           /\ UNCHANGED <<storeVars, memory, content, batch, bad>>
  <2>1. ButTheSplit(taken[p]) \in Seq(File) /\ Items(ButTheSplit(taken[p])) \subseteq File
    <3>1. taken[p] \in Seq(File) /\ Len(taken[p]) \in Nat
      BY <1>1, LenProperties DEF ProcTypes
    <3>2. ButTheSplit(taken[p]) \in Seq(File)
      BY <3>1, Parts DEF ButTheSplit
    <3> QED BY <3>2, ElementOfSeq, LenProperties DEF Items
  <2>2. ProcTypes'
    BY <1>1, <1>3, <2>1, Nothings DEF ProcTypes, Step, Place, storeVars
  <2>3. Mine(p)
    BY <1>1, <1>3 DEF ProcTypes, Mine, storeVars
  <2>4. /\ at'[p] = "archive" /\ op'[p] = "none" /\ cur'[p] = NoObs /\ seg'[p] = NoSeg
        /\ todo'[p] = Items(ButTheSplit(taken[p]))
    BY <1>1, <1>3 DEF ProcTypes
  <2>5. p \in Replayer
    BY <1>1, <1>3, Kinds DEF Control
  <2>6. Control(p)'
    BY <2>4, <2>5, Kinds DEF Control
  <2> QED BY <1>1, <1>3, <2>2, <2>3, <2>4, <2>6 DEF storeVars
<1>4. CASE at[p] = "discover" /\ Ended(p) /\ UNCHANGED storeVars
  BY <1>1, <1>4, Ending DEF storeVars
<1> QED BY <1>2, <1>3, <1>4, Zenon DEF Raised

-----------------------------------------------------------------------------
(* The steps of a spool object                                             *)

LEMMA WriteKnownFits ==
    ASSUME Types, Controls, NEW p \in Proc, NEW o \in Obs, WriteKnown(p, o)
    PROVE  Fits(p) /\ o \in Asked(p) /\ Returned(p, o)
<1>1. o \in Asked(p) /\ Returned(p, o) /\ op[p] = "none"
  BY DEF WriteKnown
<1>2. Control(p) /\ ProcTypes
  BY DEF Controls, Types
<1>3. /\ op' \in [Proc -> Step] /\ op'[p] = "none"
      /\ cur' \in [Proc -> Obs \cup {NoObs}] /\ cur'[p] = NoObs
      /\ rest' \in [Proc -> Seq(Obs)] /\ written' \subseteq Obs
      /\ \A q \in Proc \ {p} : op'[q] = op[q] /\ cur'[q] = cur[q] /\ rest'[q] = rest[q]
      /\ UNCHANGED <<db, at, todo, batch, taken, bad>>
  BY <1>1, Asking, Returning
<1>4. UNCHANGED <<disk, hurt, trouble, seg, memory, content>>
  BY DEF WriteKnown, fileVars
<1>5. Types'
  BY <1>3, <1>4 DEF Types, StoreTypes, ProcTypes
<1>6. Mine(p)
  BY <1>3, <1>4 DEF Mine
<1>7. at[p] \in {"ready", "split"}
  BY <1>1, Asking
<1>8. Control(p)'
  BY <1>2, <1>3, <1>4, <1>7 DEF Control
<1> QED BY <1>1, <1>5, <1>6, <1>8 DEF Fits

LEMMA WriteRefusedFits ==
    ASSUME Types, Controls, NEW p \in Proc, NEW o \in Obs, WriteRefused(p, o)
    PROVE  Fits(p) /\ o \in Asked(p)
<1>1. o \in Asked(p) /\ Raised(p, o) /\ at[p] # "off"
  BY Asking DEF WriteRefused
<1>2. ProcTypes' /\ Control(p)' /\ Mine(p) /\ db' \subseteq Obs /\ written' = written
  BY <1>1, Raising
<1>3. UNCHANGED <<disk, hurt, trouble>>
  BY DEF WriteRefused, fileVars
<1> QED BY <1>1, <1>2, <1>3 DEF Fits, Types, StoreTypes

LEMMA FreshFile == ASSUME NEW f \in File, Fresh(f) PROVE \A d \in Dir : disk[d][f] = NoFile
<1> DEFINE unused == {g \in File : \A d \in Dir : disk[d][g] = NoFile}
<1>1. unused # {} /\ f = CHOOSE g \in unused : TRUE
  BY DEF Fresh
<1>2. f \in unused
  BY <1>1
<1> QED BY <1>2

LEMMA WriteCreateFits ==
    ASSUME Types, Controls, NEW p \in Proc, NEW o \in Obs, NEW f \in File, WriteCreate(p, o, f)
    PROVE  /\ Fits(p) /\ o \in Asked(p) /\ op[p] = "none" /\ op'[p] = "header" /\ cur'[p] = o
           /\ seg'[p] = [file |-> f, rows |-> 0] /\ \A d \in Dir : disk[d][f] = NoFile
<1>0. Control(p) /\ ProcTypes /\ disk \in Disks
  BY DEF Controls, Types
<1>1. /\ o \in Asked(p) /\ op[p] = "none" /\ Fresh(f) /\ disk' = Put("open", f, <<>>)
      /\ op' = [op EXCEPT ![p] = "header"] /\ cur' = [cur EXCEPT ![p] = o]
      /\ seg' = [seg EXCEPT ![p] = [file |-> f, rows |-> 0]]
      /\ UNCHANGED <<hurt, db, written, trouble, at, memory, content, todo, batch, rest, taken, bad>>
  BY DEF WriteCreate, storeVars, passVars
<1>2. disk' \in Disks
  BY <1>0, <1>1, Putting, NoLine, Dirs
<1>3. ProcTypes'
  BY <1>0, <1>1, Nothings DEF ProcTypes, Step
<1>4. Mine(p) /\ op'[p] = "header" /\ cur'[p] = o /\ seg'[p] = [file |-> f, rows |-> 0]
  BY <1>0, <1>1 DEF ProcTypes, Mine
<1>5. /\ p \in Replayer => at[p] = "split" /\ rest[p] # <<>> /\ o = Head(rest[p])
      /\ at[p] \in {"ready", "split"} /\ o # NoObs
  BY <1>1, Asking, EvidenceAssumption
<1>6. Control(p)'
  BY <1>0, <1>1, <1>4, <1>5, Nothings DEF Control
<1> QED BY <1>1, <1>2, <1>3, <1>4, <1>6, FreshFile DEF Fits, Types, StoreTypes

\* A step of the object writes its own file.
LEMMA Segment ==
    ASSUME Types, Controls, NEW p \in Proc, op[p] # "none"
    PROVE  /\ seg[p].file \in File /\ seg[p].rows \in Nat /\ at[p] \in {"ready", "discover", "split"}
           /\ cur[p] # NoObs => cur[p] \in Obs /\ at[p] \in {"ready", "split"}
           /\ p \in Writer => at[p] = "ready" /\ cur[p] # NoObs
           /\ p \in Replayer /\ cur[p] # NoObs => rest[p] # <<>>
<1>1. Control(p) /\ ProcTypes
  BY DEF Controls, Types
<1>2. seg[p] \in Segs /\ cur[p] \in Obs \cup {NoObs} /\ at[p] \in Place
  BY <1>1 DEF ProcTypes
<1>3. seg[p].file \in File /\ seg[p].rows \in Nat
  BY <1>1, <1>2 DEF Control, Segs
<1>4. at[p] \in {"ready", "discover", "split"}
  BY <1>1, <1>2 DEF Control, Off, Place
<1>5. p \in Writer => at[p] = "ready" /\ cur[p] # NoObs
  BY <1>1, <1>4 DEF Control
<1>6. p \in Replayer /\ cur[p] # NoObs => rest[p] # <<>> /\ at[p] = "split"
  BY <1>1 DEF Control
<1> QED BY <1>2, <1>3, <1>4, <1>5, <1>6, Kinds

LEMMA WriteHeaderFits ==
    ASSUME Types, Controls, NEW p \in Proc, WriteHeader(p)
    PROVE  Fits(p) /\ op'[p] = "append" /\ seg' = seg /\ cur' = cur
<1>0. Control(p) /\ ProcTypes /\ disk \in Disks
  BY DEF Controls, Types
<1>1. /\ op[p] = "header" /\ disk' = Put("open", seg[p].file, <<Header>>)
      /\ op' = [op EXCEPT ![p] = "append"]
      /\ UNCHANGED <<hurt, db, written, trouble, at, seg, memory, cur, content, todo, batch, rest, taken, bad>>
  BY DEF WriteHeader, storeVars, passVars
<1>2. seg[p].file \in File
  BY <1>1, Segment
<1>3. disk' \in Disks
  BY <1>0, <1>1, <1>2, Putting, OneLine, LinesWritten, Dirs
<1>4. ProcTypes' /\ Mine(p) /\ op'[p] = "append"
  BY <1>0, <1>1 DEF ProcTypes, Step, Mine
<1>5. Control(p)'
  BY <1>0, <1>1, <1>4 DEF Control, Off
<1> QED BY <1>1, <1>3, <1>4, <1>5 DEF Fits, Types, StoreTypes

LEMMA WriteExtendFits ==
    ASSUME Types, Controls, NEW p \in Proc, NEW o \in Obs, WriteExtend(p, o)
    PROVE  Fits(p) /\ o \in Asked(p) /\ op[p] = "none" /\ seg[p] # NoSeg /\ op'[p] = "append" /\ cur'[p] = o
<1>0. Control(p) /\ ProcTypes
  BY DEF Controls, Types
<1>1. /\ o \in Asked(p) /\ op[p] = "none" /\ seg[p] # NoSeg
      /\ op' = [op EXCEPT ![p] = "append"] /\ cur' = [cur EXCEPT ![p] = o]
      /\ UNCHANGED <<disk, hurt, db, written, trouble, at, seg, memory, content, todo, batch, rest, taken, bad>>
  BY DEF WriteExtend, fileVars, storeVars, passVars
<1>2. ProcTypes' /\ Mine(p) /\ op'[p] = "append" /\ cur'[p] = o
  BY <1>0, <1>1 DEF ProcTypes, Step, Mine
<1>3. /\ p \in Replayer => at[p] = "split" /\ rest[p] # <<>> /\ o = Head(rest[p])
      /\ at[p] \in {"ready", "split"} /\ o # NoObs
  BY <1>1, Asking, EvidenceAssumption
<1>4. Control(p)'
  BY <1>0, <1>1, <1>2, <1>3 DEF Control
<1> QED BY <1>1, <1>2, <1>4 DEF Fits, Types, StoreTypes

LEMMA WriteAppendFits ==
    ASSUME Types, Controls, NEW p \in Proc, WriteAppend(p)
    PROVE  /\ Fits(p) /\ cur[p] \in Obs /\ seg'[p] = [seg[p] EXCEPT !.rows = @ + 1]
           /\ memory'[p] = [memory[p] EXCEPT ![cur[p]] = [dir |-> "open", file |-> seg[p].file]]
           /\ \/ /\ op'[p] = "seal" /\ cur'[p] = cur[p]
                 /\ UNCHANGED <<db, written, at, todo, batch, rest, taken, bad>>
              \/ op'[p] = "none" /\ Returned(p, cur[p])
<1>0. Control(p) /\ ProcTypes /\ disk \in Disks
  BY DEF Controls, Types
<1>1. /\ op[p] = "append" /\ disk' = Appended(p, Record(cur[p]))
      /\ seg' = [seg EXCEPT ![p].rows = @ + 1]
      /\ memory' = [memory EXCEPT ![p][cur[p]] = [dir |-> "open", file |-> seg[p].file]]
      /\ UNCHANGED <<hurt, trouble, content>>
  BY DEF WriteAppend
<1>2. \/ op' = [op EXCEPT ![p] = "seal"] /\ UNCHANGED <<db, written, at, cur, todo, batch, rest, taken, bad>>
      \/ Returned(p, cur[p])
  BY DEF WriteAppend, storeVars, passVars
<1>3. /\ seg[p].file \in File /\ seg[p].rows \in Nat /\ cur[p] \in Obs
      /\ at[p] \in {"ready", "split"} /\ (p \in Replayer => rest[p] # <<>>)
  BY <1>0, <1>1, Segment DEF Control
<1>4. disk' \in Disks
  BY <1>0, <1>1, <1>3, Appending, LinesWritten
<1>5. seg' \in [Proc -> Segs] /\ seg'[p] = [seg[p] EXCEPT !.rows = @ + 1] /\ \A q \in Proc \ {p} : seg'[q] = seg[q]
  <2>1. seg \in [Proc -> Segs] /\ seg[p] \in Segs
    BY <1>0 DEF ProcTypes
  <2>2. [seg[p] EXCEPT !.rows = @ + 1] \in Segs
    BY <2>1 DEF Segs
  <2>3. seg' = [seg EXCEPT ![p] = [seg[p] EXCEPT !.rows = @ + 1]]
    BY <1>1
  <2> QED BY <2>1, <2>2, <2>3
<1>6. /\ memory' \in [Proc -> [Obs -> Paths]] /\ \A q \in Proc \ {p} : memory'[q] = memory[q]
      /\ memory'[p] = [memory[p] EXCEPT ![cur[p]] = [dir |-> "open", file |-> seg[p].file]]
  <2>1. [dir |-> "open", file |-> seg[p].file] \in Paths
    BY <1>3, Nothings, Dirs
  <2> QED BY <1>0, <1>1, <1>3, <2>1 DEF ProcTypes
<1>7. seg'[p] # NoSeg /\ seg'[p].file \in File
  <2>1. seg[p] \in Segs
    BY <1>0 DEF ProcTypes
  <2>2. seg'[p].file = seg[p].file
    BY <1>5, <2>1 DEF Segs
  <2> QED BY <1>3, <2>2, Nothings
<1>8. CASE op' = [op EXCEPT ![p] = "seal"] /\ UNCHANGED <<db, written, at, cur, todo, batch, rest, taken, bad>>
  <2>1. op' \in [Proc -> Step] /\ op'[p] = "seal" /\ \A q \in Proc \ {p} : op'[q] = op[q]
    BY <1>0, <1>8 DEF ProcTypes, Step
  <2>2. Types'
    BY <1>0, <1>1, <1>4, <1>5, <1>6, <1>8, <2>1 DEF Types, StoreTypes, ProcTypes
  <2>3. Mine(p)
    BY <1>1, <1>5, <1>6, <1>8, <2>1 DEF Mine
  <2>4. Control(p)'
    BY <1>0, <1>1, <1>3, <1>7, <1>8, <2>1 DEF Control
  <2> QED BY <1>3, <1>5, <1>6, <1>8, <2>1, <2>2, <2>3, <2>4 DEF Fits
<1>9. CASE Returned(p, cur[p])
  <2>1. /\ op' \in [Proc -> Step] /\ op'[p] = "none"
        /\ cur' \in [Proc -> Obs \cup {NoObs}] /\ cur'[p] = NoObs
        /\ rest' \in [Proc -> Seq(Obs)] /\ written' \subseteq Obs
        /\ \A q \in Proc \ {p} : op'[q] = op[q] /\ cur'[q] = cur[q] /\ rest'[q] = rest[q]
        /\ UNCHANGED <<db, at, todo, batch, taken, bad>>
    BY <1>3, <1>9, Returning
  <2>2. Types'
    BY <1>0, <1>1, <1>4, <1>5, <1>6, <2>1 DEF Types, StoreTypes, ProcTypes
  <2>3. Mine(p)
    BY <1>1, <1>5, <1>6, <2>1 DEF Mine
  <2>4. Control(p)'
    BY <1>0, <1>1, <1>3, <1>7, <2>1 DEF Control
  <2> QED BY <1>3, <1>5, <1>6, <1>9, <2>1, <2>2, <2>3, <2>4 DEF Fits
<1> QED BY <1>2, <1>8, <1>9

LEMMA SealDueFits ==
    ASSUME Types, Controls, NEW p \in Proc, SealDue(p)
    PROVE  /\ Fits(p) /\ seg[p] # NoSeg /\ seg[p].file \in File /\ op[p] = "none" /\ cur'[p] = NoObs
           /\ Exists("open", seg[p].file) => op'[p] = "seal" /\ seg' = seg
<1>0. Control(p) /\ ProcTypes
  BY DEF Controls, Types
<1>1. /\ at[p] \in {"discover", "split"} /\ op[p] = "none" /\ seg[p] # NoSeg
      /\ \/ op' = [op EXCEPT ![p] = "seal"] /\ seg' = seg /\ Exists("open", seg[p].file)
         \/ seg' = [seg EXCEPT ![p] = NoSeg] /\ op' = op /\ ~Exists("open", seg[p].file)
      /\ UNCHANGED <<disk, hurt, db, written, trouble, at, memory, cur, content, todo, batch, rest, taken, bad>>
  BY DEF SealDue, fileVars, storeVars, passVars
<1>2. ProcTypes' /\ Mine(p)
  BY <1>0, <1>1, Nothings DEF ProcTypes, Step, Mine
<1>3. \/ op'[p] = "seal" /\ seg'[p] = seg[p]
      \/ op'[p] = "none" /\ seg'[p] = NoSeg
  BY <1>0, <1>1 DEF ProcTypes
<1>4. p \notin Writer
  BY <1>0, <1>1 DEF Control
<1>5. Control(p)'
  BY <1>0, <1>1, <1>3, <1>4 DEF Control
<1>6. Exists("open", seg[p].file) => op'[p] = "seal" /\ seg' = seg
  BY <1>0, <1>1 DEF ProcTypes
<1> QED BY <1>0, <1>1, <1>2, <1>5, <1>6 DEF Fits, Types, StoreTypes, Control

LEMMA SealReadFits ==
    ASSUME Types, Controls, NEW p \in Proc, SealRead(p)
    PROVE  LET lines == disk["open"][seg[p].file] IN
           /\ Fits(p) /\ op[p] = "seal" /\ op'[p] = "footer" /\ seg' = seg /\ cur' = cur
           /\ content'[p] = Hashed(SubSeq(lines, 2, Len(lines)))
<1>0. Control(p) /\ ProcTypes /\ disk \in Disks
  BY DEF Controls, Types
<1> DEFINE lines == disk["open"][seg[p].file]
<1>1. /\ op[p] = "seal" /\ Exists("open", seg[p].file)
      /\ content' = [content EXCEPT ![p] = Hashed(SubSeq(lines, 2, Len(lines)))]
      /\ op' = [op EXCEPT ![p] = "footer"]
      /\ UNCHANGED <<disk, hurt, db, written, trouble, at, seg, memory, cur, todo, batch, rest, taken, bad>>
  BY DEF SealRead, fileVars, storeVars, passVars
<1>2. lines \in Lined
  BY <1>0, <1>1, Segment, Existing, Dirs
<1>3. SubSeq(lines, 2, Len(lines)) \in Lined
  BY <1>2, Parts, LenProperties DEF Lined
<1>4. Hashed(SubSeq(lines, 2, Len(lines))) \in Content
  BY <1>3, Hashing
<1> HIDE DEF lines
<1>5. ProcTypes' /\ Mine(p) /\ op'[p] = "footer" /\ content'[p] = Hashed(SubSeq(lines, 2, Len(lines)))
  BY <1>0, <1>1, <1>4 DEF ProcTypes, Step, Mine
<1>6. Control(p)'
  BY <1>0, <1>1, <1>5 DEF Control, Off
<1>7. Fits(p)
  BY <1>1, <1>5, <1>6 DEF Fits, Types, StoreTypes
<1> QED BY <1>1, <1>5, <1>7 DEF lines

LEMMA SealFooterFits ==
    ASSUME Types, Controls, NEW p \in Proc, SealFooter(p)
    PROVE  /\ Fits(p) /\ op[p] = "footer" /\ op'[p] = "rename" /\ seg' = seg /\ cur' = cur
           /\ Footer(seg[p].rows, content[p]) \in GoodLine
<1>0. Control(p) /\ ProcTypes /\ disk \in Disks
  BY DEF Controls, Types
<1>1. /\ op[p] = "footer" /\ disk' = Appended(p, Footer(seg[p].rows, content[p]))
      /\ content' = [content EXCEPT ![p] = <<>>] /\ op' = [op EXCEPT ![p] = "rename"]
      /\ UNCHANGED <<hurt, db, written, trouble, at, seg, memory, cur, todo, batch, rest, taken, bad>>
  BY DEF SealFooter, storeVars, passVars
<1>2. Footer(seg[p].rows, content[p]) \in GoodLine
  <2>1. seg[p].rows \in Nat /\ content[p] \in Content
    BY <1>0, <1>1, Segment DEF ProcTypes
  <2> QED BY <2>1, LinesWritten
<1>3. disk' \in Disks
  BY <1>0, <1>1, <1>2, Segment, Appending
<1>4. <<>> \in Content
  BY DEF Content
<1>5. ProcTypes' /\ Mine(p) /\ op'[p] = "rename"
  BY <1>0, <1>1, <1>4 DEF ProcTypes, Step, Mine
<1>6. Control(p)'
  BY <1>0, <1>1, <1>5 DEF Control, Off
<1> QED BY <1>1, <1>2, <1>3, <1>5, <1>6 DEF Fits, Types, StoreTypes

\* Every path of the object that is renamed, and no other.
LEMMA SealRenameFits ==
    ASSUME Types, Controls, NEW p \in Proc, SealRename(p)
    PROVE  LET f == seg[p].file IN
           /\ Fits(p) /\ op[p] = "rename" /\ f \in File /\ disk' = Move("open", "sealed", f)
           /\ UNCHANGED <<hurt, trouble, db, at, todo, batch, taken, bad>>
           /\ op'[p] = "none" /\ seg'[p] = NoSeg /\ cur'[p] = NoObs
           /\ memory'[p] = [o \in Obs |-> IF memory[p][o] = [dir |-> "open", file |-> f]
                                          THEN [dir |-> "sealed", file |-> f] ELSE memory[p][o]]
           /\ \/ cur[p] # NoObs /\ Returned(p, cur[p])
              \/ cur[p] = NoObs /\ UNCHANGED <<written, rest>> /\ p \in Replayer
<1> DEFINE f == seg[p].file
<1> DEFINE renamed == [o \in Obs |-> IF memory[p][o] = [dir |-> "open", file |-> f]
                                     THEN [dir |-> "sealed", file |-> f] ELSE memory[p][o]]
<1>0. Control(p) /\ ProcTypes /\ disk \in Disks /\ Types
  BY DEF Controls, Types
<1>1. /\ op[p] = "rename" /\ disk' = Move("open", "sealed", f)
      /\ seg' = [seg EXCEPT ![p] = NoSeg]
      /\ memory' = [memory EXCEPT ![p] = renamed]
      /\ UNCHANGED <<hurt, trouble, content>>
  BY DEF SealRename
<1>2. \/ cur[p] # NoObs /\ Returned(p, cur[p])
      \/ /\ cur[p] = NoObs /\ op' = [op EXCEPT ![p] = "none"]
         /\ UNCHANGED <<db, written, at, cur, todo, batch, rest, taken, bad>>
  BY DEF SealRename, storeVars, passVars
<1>3. /\ f \in File /\ at[p] \in {"ready", "discover", "split"}
      /\ (cur[p] # NoObs => cur[p] \in Obs /\ at[p] \in {"ready", "split"})
      /\ (p \in Writer => at[p] = "ready" /\ cur[p] # NoObs)
      /\ (p \in Replayer /\ cur[p] # NoObs => rest[p] # <<>>)
  BY <1>0, <1>1, Segment
<1>4. disk' \in Disks
  BY <1>0, <1>1, <1>3, Moving, Dirs
<1>5. renamed \in [Obs -> Paths] /\ (memory[p] = Forgotten => renamed = Forgotten)
  <2>1. memory[p] \in [Obs -> Paths]
    BY <1>0 DEF ProcTypes
  <2>2. [dir |-> "sealed", file |-> f] \in Paths /\ [dir |-> "open", file |-> f] # NoPath
    BY <1>3, Nothings, Dirs
  <2>3. renamed \in [Obs -> Paths]
    BY <2>1, <2>2
  <2>4. ASSUME memory[p] = Forgotten PROVE renamed = Forgotten
    BY <2>2, <2>4 DEF Forgotten
  <2> QED BY <2>3, <2>4
<1> HIDE DEF renamed, f
<1>6. /\ seg' \in [Proc -> Segs] /\ seg'[p] = NoSeg
      /\ memory' \in [Proc -> [Obs -> Paths]] /\ memory'[p] = renamed
      /\ \A q \in Proc \ {p} : seg'[q] = seg[q] /\ memory'[q] = memory[q]
  BY <1>0, <1>1, <1>5, Nothings DEF ProcTypes
<1>7. /\ op' \in [Proc -> Step] /\ op'[p] = "none" /\ cur' \in [Proc -> Obs \cup {NoObs}] /\ cur'[p] = NoObs
      /\ rest' \in [Proc -> Seq(Obs)] /\ written' \subseteq Obs
      /\ \A q \in Proc \ {p} : op'[q] = op[q] /\ cur'[q] = cur[q] /\ rest'[q] = rest[q]
      /\ UNCHANGED <<db, at, todo, batch, taken, bad>>
      /\ (at[p] = "discover" => rest' = rest)
  <2>1. CASE cur[p] # NoObs /\ Returned(p, cur[p])
    <3>1. cur[p] \in Obs /\ (p \in Replayer => rest[p] # <<>>) /\ at[p] # "discover"
      BY <1>3, <2>1
    <3> QED BY <1>0, <2>1, <3>1, Returning
  <2>2. CASE /\ cur[p] = NoObs /\ op' = [op EXCEPT ![p] = "none"]
             /\ UNCHANGED <<db, written, at, cur, todo, batch, rest, taken, bad>>
    <3>1. op' \in [Proc -> Step] /\ op'[p] = "none" /\ \A q \in Proc \ {p} : op'[q] = op[q]
      BY <1>0, <2>2 DEF ProcTypes, Step
    <3> QED BY <1>0, <2>2, <3>1 DEF ProcTypes, Types, StoreTypes
  <2> QED BY <1>2, <2>1, <2>2
<1>8. Types'
  BY <1>0, <1>1, <1>4, <1>6, <1>7 DEF Types, StoreTypes, ProcTypes
<1>9. Mine(p)
  BY <1>1, <1>6, <1>7 DEF Mine
<1>10. Control(p)'
  BY <1>0, <1>3, <1>5, <1>6, <1>7 DEF Control
<1>11. \/ cur[p] # NoObs /\ Returned(p, cur[p])
       \/ cur[p] = NoObs /\ UNCHANGED <<written, rest>> /\ p \in Replayer
  BY <1>2, <1>3, Kinds
<1> QED BY <1>1, <1>3, <1>6, <1>7, <1>8, <1>9, <1>10, <1>11 DEF Fits, renamed, f

LEMMA SealRefusedFits ==
    ASSUME Types, Controls, NEW p \in Proc, SealRefused(p)
    PROVE  /\ Fits(p) /\ op[p] \in {"seal", "rename"} /\ Raised(p, cur[p])
           /\ UNCHANGED <<disk, hurt, trouble>>
<1>1. /\ op[p] \in {"seal", "rename"} /\ Raised(p, cur[p])
      /\ UNCHANGED <<disk, hurt, trouble>>
  BY DEF SealRefused, fileVars
<1>2. /\ cur[p] \in Obs \cup {NoObs} /\ (p \in Writer => cur[p] \in Obs) /\ at[p] # "off"
  <2>1. cur[p] \in Obs \cup {NoObs}
    BY DEF Types, ProcTypes
  <2> QED BY <1>1, <2>1, Segment
<1>3. ProcTypes' /\ Control(p)' /\ Mine(p) /\ db' \subseteq Obs /\ written' = written
  BY <1>1, <1>2, Raising
<1> QED BY <1>1, <1>3 DEF Fits, Types, StoreTypes

\* What breaks off leaves files of lines.
LEMMA BreakingOff ==
    ASSUME Types, Controls, NEW p \in Proc, Broken(p)
    PROVE  disk' \in Disks /\ hurt' \subseteq File /\ hurt \subseteq hurt'
<1>1. disk \in Disks /\ hurt \subseteq File
  BY DEF Types, StoreTypes
<1>2. CASE op[p] = "none"
  BY <1>1, <1>2 DEF Broken, fileVars
<1>3. CASE op[p] # "none"
  <2>1. seg[p].file \in File /\ (op[p] = "append" => cur[p] \in Obs)
    BY <1>3, Segment DEF Controls, Control
  <2>2. Appended(p, Torn) \in Disks
    BY <1>1, <2>1, Appending, LinesWritten
  <2>3. /\ Appended(p, Cut) \in Disks
        /\ op[p] = "append" => Appended(p, Record(cur[p])) \in Disks
    BY <1>1, <2>1, Appending, LinesWritten
  <2>4. Put("open", seg[p].file, <<Torn>>) \in Disks
    BY <1>1, <2>1, Putting, OneLine, LinesWritten, Dirs
  <2>5. disk' \in Disks
    BY <1>1, <2>2, <2>3, <2>4 DEF Broken, fileVars
  <2>6. hurt' = hurt \/ hurt' = hurt \cup {seg[p].file}
    BY DEF Broken, fileVars
  <2> QED BY <1>1, <2>1, <2>5, <2>6
<1> QED BY <1>2, <1>3

LEMMA Troubling == ASSUME Types, Troubled PROVE trouble' \in 0..MaxTrouble
BY EvidenceAssumption DEF Types, StoreTypes, Troubled

LEMMA RaiseFits ==
    ASSUME Types, Controls, NEW p \in Proc, Raise(p)
    PROVE  Fits(p) /\ op[p] # "none" /\ Broken(p) /\ Raised(p, cur[p])
<1>1. op[p] # "none" /\ Broken(p) /\ Raised(p, cur[p]) /\ Troubled
  BY DEF Raise
<1>2. /\ cur[p] \in Obs \cup {NoObs} /\ (p \in Writer => cur[p] \in Obs) /\ at[p] # "off"
  <2>1. cur[p] \in Obs \cup {NoObs}
    BY DEF Types, ProcTypes
  <2> QED BY <1>1, <2>1, Segment
<1>3. ProcTypes' /\ Control(p)' /\ Mine(p) /\ db' \subseteq Obs /\ written' = written
  BY <1>1, <1>2, Raising
<1>4. disk' \in Disks /\ hurt' \subseteq File /\ trouble' \in 0..MaxTrouble
  BY <1>1, BreakingOff, Troubling
<1> QED BY <1>1, <1>3, <1>4 DEF Fits, Types, StoreTypes

LEMMA CrashFits ==
    ASSUME Types, Controls, NEW p \in Proc, Crash(p)
    PROVE  Fits(p) /\ Broken(p) /\ Ended(p) /\ Off(p)' /\ at'[p] = "off"
           /\ UNCHANGED <<db, written>>
<1>1. Broken(p) /\ Ended(p) /\ Troubled /\ UNCHANGED <<db, written>>
  BY DEF Crash, storeVars
<1>2. ProcTypes' /\ at'[p] = "off" /\ Off(p)' /\ Control(p)' /\ Mine(p)
  BY <1>1, Ending DEF Types
<1>3. disk' \in Disks /\ hurt' \subseteq File /\ trouble' \in 0..MaxTrouble
  BY <1>1, BreakingOff, Troubling
<1> QED BY <1>1, <1>2, <1>3 DEF Fits, Types, StoreTypes

-----------------------------------------------------------------------------
(* The steps of a writer's process and of a pass                           *)

LEMMA StartWriterFits ==
    ASSUME Types, Controls, NEW w \in Writer, StartWriter(w)
    PROVE  Fits(w) /\ at[w] = "off" /\ at'[w] = "ready"
<1>0. w \in Proc /\ Control(w) /\ ProcTypes
  BY DEF Controls, Types, Proc
<1>1. /\ at[w] = "off" /\ at' = [at EXCEPT ![w] = "ready"]
      /\ UNCHANGED <<disk, hurt, db, written, trouble, op, seg, memory, cur, content, todo, batch, rest, taken, bad>>
  BY DEF StartWriter, fileVars, storeVars, opVars, passVars
<1>2. ProcTypes' /\ Mine(w) /\ at'[w] = "ready"
  BY <1>0, <1>1 DEF ProcTypes, Place, Mine
<1>3. Control(w)'
  BY <1>0, <1>1, <1>2, Kinds DEF Control, Off
<1> QED BY <1>1, <1>2, <1>3 DEF Fits, Types, StoreTypes

\* What ends and writes nothing.
LEMMA EndFits ==
    ASSUME Types, NEW p \in Proc, Ended(p), UNCHANGED <<fileVars, storeVars, trouble>>
    PROVE  Fits(p) /\ Off(p)' /\ at'[p] = "off" /\ UNCHANGED <<disk, hurt, db, written, trouble>>
<1>1. UNCHANGED <<disk, hurt, db, written, trouble>>
  BY DEF fileVars, storeVars
<1>2. ProcTypes' /\ at'[p] = "off" /\ Off(p)' /\ Control(p)' /\ Mine(p)
  BY Ending DEF Types
<1> QED BY <1>1, <1>2 DEF Fits, Types, StoreTypes

LEMMA StartPassFits ==
    ASSUME Types, Controls, NEW r \in Replayer, StartPass(r)
    PROVE  /\ Fits(r) /\ at[r] = "off" /\ at'[r] = "discover"
           /\ todo'[r] = {f \in File : Exists("open", f)}
<1>0. r \in Proc /\ Control(r) /\ ProcTypes
  BY DEF Controls, Types, Proc
<1>1. /\ at[r] = "off" /\ at' = [at EXCEPT ![r] = "discover"]
      /\ todo' = [todo EXCEPT ![r] = {f \in File : Exists("open", f)}]
      /\ UNCHANGED <<disk, hurt, db, written, trouble, op, seg, memory, cur, content, batch, rest, taken, bad>>
  BY DEF StartPass, fileVars, storeVars, opVars
<1>2. ProcTypes' /\ Mine(r) /\ at'[r] = "discover" /\ todo'[r] = {f \in File : Exists("open", f)}
  BY <1>0, <1>1 DEF ProcTypes, Place, Mine
<1>3. Control(r)'
  BY <1>0, <1>1, <1>2, Kinds DEF Control, Off
<1> QED BY <1>1, <1>2, <1>3 DEF Fits, Types, StoreTypes

\* A pass that has looked at a file: it is crossed off, or to be quarantined.
LEMMA LookingFits ==
    ASSUME Types, Controls, NEW r \in Replayer, NEW f \in File, at[r] # "off", disk' \in Disks,
           \/ todo' = [todo EXCEPT ![r] = @ \ {f}] /\ UNCHANGED bad
           \/ UNCHANGED todo /\ bad' = [bad EXCEPT ![r] = f]
           \/ todo' = [todo EXCEPT ![r] = @ \ {f}] /\ bad' = [bad EXCEPT ![r] = NoFile],
           StoreTypes', UNCHANGED <<at, op, seg, memory, cur, content, batch, rest, taken>>
    PROVE  Fits(r)
<1>0. r \in Proc /\ Control(r) /\ ProcTypes
  BY DEF Controls, Types, Proc
<1>1. ProcTypes' /\ Mine(r)
  BY <1>0 DEF ProcTypes, Mine
<1>2. Control(r)'
  BY <1>0, <1>1 DEF Control
<1> QED BY <1>1, <1>2 DEF Fits, Types

\* What Found adds to the files hit.
LEMMA FindingFits ==
    ASSUME Types, Controls, NEW r \in Replayer, NEW f \in File, Found(r, f), UNCHANGED trouble
    PROVE  /\ at[r] = "discover" /\ disk' \in Disks /\ StoreTypes'
           /\ UNCHANGED <<disk, at, op, memory, cur, content, batch, rest, taken>>
<1>1. /\ at[r] = "discover" /\ hurt' \in {hurt, hurt \cup {f}}
      /\ UNCHANGED <<disk, db, written, at, op, memory, cur, content, batch, rest, taken>>
  BY DEF Found, storeVars
<1> QED BY <1>1 DEF Types, StoreTypes

LEMMA DiscoverSegmentFits ==
    ASSUME Types, Controls, NEW r \in Replayer, NEW f \in File, DiscoverSegment(r, f)
    PROVE  Fits(r)
<1>0. r \in Proc /\ Control(r) /\ ProcTypes /\ disk \in Disks
  BY DEF Controls, Types, Proc
<1>1. /\ Found(r, f) /\ todo' = [todo EXCEPT ![r] = @ \ {f}] /\ UNCHANGED <<bad, trouble>>
      /\ Exists("open", f) /\ Discoverable(disk["open"][f])
      /\ seg' = [seg EXCEPT ![r] = Recovered(f)]
  BY DEF DiscoverSegment, Passed
<1>2. /\ at[r] = "discover" /\ disk' \in Disks /\ StoreTypes'
      /\ UNCHANGED <<disk, at, op, memory, cur, content, batch, rest, taken>>
  BY <1>1, FindingFits
<1>3. disk["open"][f] \in Lined /\ Len(disk["open"][f]) \in Nat /\ Len(disk["open"][f]) >= 2
  BY <1>0, <1>1, Existing, Dirs, LenProperties DEF Discoverable, Lined
<1>4. Recovered(f) \in Segs /\ Recovered(f) # NoSeg /\ Recovered(f).file = f
  <2>1. Len(disk["open"][f]) - 1 \in Nat
    BY <1>3
  <2> QED BY <2>1, Nothings DEF Recovered
<1>5. ProcTypes' /\ Mine(r) /\ seg'[r] = Recovered(f)
  BY <1>0, <1>1, <1>2, <1>4 DEF ProcTypes, Mine
<1>6. Control(r)'
  BY <1>0, <1>2, <1>4, <1>5 DEF Control
<1> QED BY <1>2, <1>5, <1>6 DEF Fits, Types

LEMMA DiscoverHeadlessFits ==
    ASSUME Types, Controls, NEW r \in Replayer, NEW f \in File, DiscoverHeadless(r, f)
    PROVE  Fits(r)
<1>1. Found(r, f) /\ todo' = [todo EXCEPT ![r] = @ \ {f}] /\ UNCHANGED <<bad, seg, trouble>>
  BY DEF DiscoverHeadless, Passed
<1> QED BY <1>1, FindingFits, LookingFits

LEMMA DiscoverTornFits ==
    ASSUME Types, Controls, NEW r \in Replayer, NEW f \in File, DiscoverTorn(r, f)
    PROVE  Fits(r)
<1>1. Found(r, f) /\ bad' = [bad EXCEPT ![r] = f] /\ UNCHANGED <<todo, seg, trouble>>
  BY DEF DiscoverTorn, Condemned
<1> QED BY <1>1, FindingFits, LookingFits

\* A read raises: DiscoverUnread and TakeUnread.
LEMMA UnreadFits ==
    ASSUME Types, Controls, NEW r \in Replayer, NEW f \in File,
           DiscoverUnread(r, f) \/ TakeUnread(r, f)
    PROVE  Fits(r)
<1>1. /\ at[r] # "off" /\ Troubled /\ hurt' = hurt \cup {f}
      /\ bad' = [bad EXCEPT ![r] = f]
      /\ UNCHANGED <<todo, disk, db, written, at, op, seg, memory, cur, content, batch, rest, taken>>
  BY DEF DiscoverUnread, TakeUnread, Condemned, storeVars, opVars
<1>2. disk' \in Disks /\ StoreTypes'
  BY <1>1, Troubling DEF Types, StoreTypes
<1> QED BY <1>1, <1>2, LookingFits

LEMMA TakeCorruptFits ==
    ASSUME Types, Controls, NEW r \in Replayer, NEW f \in File, TakeCorrupt(r, f)
    PROVE  Fits(r)
<1>1. /\ at[r] # "off" /\ bad' = [bad EXCEPT ![r] = f]
      /\ UNCHANGED <<todo, disk, hurt, db, written, trouble, at, op, seg, memory, cur, content,
                     batch, rest, taken>>
  BY DEF TakeCorrupt, Condemned, fileVars, storeVars, opVars
<1>2. disk' \in Disks /\ StoreTypes'
  BY <1>1 DEF Types, StoreTypes
<1> QED BY <1>1, <1>2, LookingFits

LEMMA QuarantineFits ==
    ASSUME Types, Controls, NEW r \in Replayer, Quarantine(r)
    PROVE  Fits(r)
<1> DEFINE f == bad[r]
<1> DEFINE d == IF at[r] = "discover" THEN "open" ELSE "sealed"
<1>1. /\ f # NoFile /\ disk' \in {disk, Discard(d, f)}
      /\ todo' = [todo EXCEPT ![r] = @ \ {f}] /\ bad' = [bad EXCEPT ![r] = NoFile]
      /\ UNCHANGED <<hurt, db, written, trouble, at, op, seg, memory, cur, content,
                     batch, rest, taken>>
  BY DEF Quarantine, storeVars, opVars
<1>2. r \in Proc /\ f \in File /\ Control(r) /\ d \in Dir
  BY <1>1, Dirs DEF Types, ProcTypes, Controls, Proc
<1>3. at[r] # "off"
  BY <1>1, <1>2 DEF Control, Off
<1>4. disk' \in Disks /\ StoreTypes'
  BY <1>1, <1>2, Discarding DEF Types, StoreTypes
<1> QED BY <1>1, <1>2, <1>3, <1>4, LookingFits

LEMMA QuarantineRaisesFits ==
    ASSUME Types, Controls, NEW r \in Replayer, QuarantineRaises(r)
    PROVE  Fits(r)
<1> DEFINE f == bad[r]
<1>1. /\ f # NoFile /\ Troubled /\ UNCHANGED <<disk, hurt, db, written>>
      /\ \/ /\ todo' = [todo EXCEPT ![r] = @ \ {f}] /\ bad' = [bad EXCEPT ![r] = NoFile]
            /\ UNCHANGED <<at, op, seg, memory, cur, content, batch, rest, taken>>
         \/ Ended(r)
  BY DEF QuarantineRaises, fileVars, storeVars, opVars
<1>2. r \in Proc /\ f \in File /\ Control(r) /\ ProcTypes
  BY <1>1 DEF Types, ProcTypes, Controls, Proc
<1>3. at[r] # "off"
  BY <1>1, <1>2 DEF Control, Off
<1>4. disk' \in Disks /\ StoreTypes'
  BY <1>1, Troubling DEF Types, StoreTypes
<1>5. CASE Ended(r)
  BY <1>2, <1>4, <1>5, Ending DEF Fits, Types
<1>6. CASE /\ todo' = [todo EXCEPT ![r] = @ \ {f}] /\ bad' = [bad EXCEPT ![r] = NoFile]
           /\ UNCHANGED <<at, op, seg, memory, cur, content, batch, rest, taken>>
  BY <1>2, <1>3, <1>4, <1>6, LookingFits
<1> QED BY <1>1, <1>5, <1>6

LEMMA ListPendingFits ==
    ASSUME Types, Controls, NEW r \in Replayer, ListPending(r)
    PROVE  /\ Fits(r) /\ at[r] = "discover" /\ at'[r] = "take"
           /\ \A f \in todo'[r] : Exists("sealed", f)
           /\ UNCHANGED <<disk, hurt, db, written, trouble, op, seg, memory, cur, content, batch, rest, taken, bad>>
<1>0. r \in Proc /\ Control(r) /\ ProcTypes
  BY DEF Controls, Types, Proc
<1>1. /\ at[r] = "discover" /\ op[r] = "none" /\ seg[r] = NoSeg
      /\ at' = [at EXCEPT ![r] = "take"]
      /\ UNCHANGED <<disk, hurt, db, written, trouble, op, seg, memory, cur, content, batch, rest, taken, bad>>
  BY DEF ListPending, fileVars, storeVars, opVars
<1>2. PICK few \in SUBSET {f \in File : Exists("sealed", f)} : todo' = [todo EXCEPT ![r] = few]
  BY DEF ListPending
<1>3. ProcTypes' /\ Mine(r) /\ at'[r] = "take" /\ todo'[r] = few
  BY <1>0, <1>1, <1>2 DEF ProcTypes, Place, Mine
<1>4. Control(r)'
  BY <1>0, <1>1, <1>3, Kinds DEF Control
<1> QED BY <1>1, <1>2, <1>3, <1>4 DEF Fits, Types, StoreTypes

\* The records of a segment go to the batch as far as there is room, and the
\* others are kept to be split off.
LEMMA TakeSegmentFits ==
    ASSUME Types, Controls, NEW r \in Replayer, NEW f \in File, TakeSegment(r, f)
    PROVE  /\ Fits(r) /\ at[r] = "take" /\ f \in todo[r] /\ todo'[r] = todo[r] \ {f}
           /\ Len(batch[r]) < Limit /\ Len(batch'[r]) <= Limit
           /\ rest'[r] # <<>> => Len(batch'[r]) = Limit
           /\ taken'[r] = Append(taken[r], f)
           /\ disk["sealed"][f] \in Lined /\ Valid(disk["sealed"][f])
           /\ Items(batch[r]) \subseteq Items(batch'[r])
           /\ RecordsOf(disk["sealed"][f]) \subseteq Items(batch'[r]) \cup Items(rest'[r])
           /\ UNCHANGED <<disk, hurt, db, written, trouble, at, op, seg, memory, cur, content, bad>>
<1> DEFINE lines == disk["sealed"][f]
<1> DEFINE records == SubSeq(Hashed(lines), 2, Len(lines) - 1)
<1> DEFINE room == Limit - Len(batch[r])
<1> DEFINE few == SubSeq(records, 1, IF Len(records) < room THEN Len(records) ELSE room)
<1> DEFINE left == SubSeq(records, room + 1, Len(records))
<1>0. r \in Proc /\ Control(r) /\ ProcTypes /\ disk \in Disks
  BY DEF Controls, Types, Proc
<1>1. /\ at[r] = "take" /\ f \in todo[r] /\ room > 0 /\ Exists("sealed", f) /\ Valid(lines)
      /\ batch' = [batch EXCEPT ![r] = @ \o few] /\ rest' = [rest EXCEPT ![r] = left]
      /\ taken' = [taken EXCEPT ![r] = Append(@, f)]
      /\ todo' = [todo EXCEPT ![r] = @ \ {f}]
      /\ UNCHANGED <<disk, hurt, db, written, trouble, at, op, seg, memory, cur, content, bad>>
  BY DEF TakeSegment, Remainder, fileVars, storeVars, opVars
<1>2. lines \in Lined
  BY <1>0, <1>1, Existing, Dirs
<1>3. records \in Seq(Obs) /\ RecordsOf(lines) = Items(records)
  BY <1>1, <1>2, ValidRecords
<1>4. batch[r] \in Seq(Obs) /\ Len(batch[r]) \in Nat /\ taken[r] \in Seq(File)
  BY <1>0, LenProperties DEF ProcTypes
<1>5. room \in Nat
  BY <1>1, <1>4, EvidenceAssumption
<1> HIDE DEF records, lines
<1>6. /\ few \in Seq(Obs) /\ left \in Seq(Obs) /\ Len(few) <= room /\ (left # <<>> => Len(few) = room)
      /\ Items(records) = Items(few) \cup Items(left)
  BY <1>3, <1>5, ItemsOfParts
<1>7. Len(few) \in Nat
  BY <1>6, LenProperties
<1> HIDE DEF few, left
<1>8. /\ batch[r] \o few \in Seq(Obs) /\ Len(batch[r] \o few) = Len(batch[r]) + Len(few)
      /\ Items(batch[r] \o few) = Items(batch[r]) \cup Items(few)
  BY <1>4, <1>6, ItemsOfConcat
<1>9. Append(taken[r], f) \in Seq(File)
  BY <1>4, AppendProperties
<1>10. /\ ProcTypes' /\ Mine(r) /\ batch'[r] = batch[r] \o few /\ rest'[r] = left
       /\ taken'[r] = Append(taken[r], f) /\ todo'[r] = todo[r] \ {f}
  BY <1>0, <1>1, <1>6, <1>8, <1>9 DEF ProcTypes, Mine
<1>11. Control(r)'
  BY <1>0, <1>1, <1>10, Kinds DEF Control
<1>12. /\ Len(batch[r]) < Limit /\ Len(batch'[r]) <= Limit
       /\ (rest'[r] # <<>> => Len(batch'[r]) = Limit)
  BY <1>1, <1>4, <1>6, <1>7, <1>8, <1>10, EvidenceAssumption
<1>13. Fits(r)
  BY <1>1, <1>10, <1>11 DEF Fits, Types, StoreTypes
<1> QED BY <1>1, <1>2, <1>3, <1>6, <1>8, <1>10, <1>12, <1>13 DEF lines

LEMMA TakeDoneFits ==
    ASSUME Types, Controls, NEW r \in Replayer, TakeDone(r)
    PROVE  /\ Fits(r) /\ at[r] = "take" /\ UNCHANGED <<disk, hurt, db, written, trouble>>
           /\ \/ at'[r] = "off" /\ Off(r)'
              \/ /\ at'[r] = "insert"
                 /\ UNCHANGED <<op, seg, memory, cur, content, batch, rest, taken, bad>>
<1>0. r \in Proc /\ Control(r) /\ ProcTypes
  BY DEF Controls, Types, Proc
<1>1. CASE Ended(r) /\ UNCHANGED <<fileVars, storeVars, trouble>>
  BY <1>0, <1>1, EndFits DEF TakeDone
<1>2. CASE /\ at[r] = "take" /\ at' = [at EXCEPT ![r] = "insert"]
           /\ todo' = [todo EXCEPT ![r] = {}]
           /\ UNCHANGED <<disk, hurt, db, written, trouble, op, seg, memory, cur, content, batch, rest, taken, bad>>
  <2>1. ProcTypes' /\ Mine(r) /\ at'[r] = "insert"
    BY <1>0, <1>2 DEF ProcTypes, Place, Mine
  <2>2. Control(r)'
    BY <1>0, <1>2, <2>1, Kinds DEF Control
  <2> QED BY <1>2, <2>1, <2>2 DEF Fits, Types, StoreTypes
<1> QED BY <1>1, <1>2 DEF TakeDone, fileVars, storeVars, opVars

LEMMA InsertFits ==
    ASSUME Types, Controls, NEW r \in Replayer, Insert(r)
    PROVE  /\ Fits(r) /\ at[r] = "insert" /\ at'[r] = "split" /\ db' = db \cup Items(batch[r])
           /\ UNCHANGED <<disk, hurt, written, trouble, op, seg, memory, cur, content, todo, rest, taken, bad>>
<1>0. r \in Proc /\ Control(r) /\ ProcTypes
  BY DEF Controls, Types, Proc
<1>1. /\ at[r] = "insert" /\ db' = db \cup Items(batch[r])
      /\ batch' = [batch EXCEPT ![r] = <<>>] /\ at' = [at EXCEPT ![r] = "split"]
      /\ UNCHANGED <<disk, hurt, written, trouble, op, seg, memory, cur, content, todo, rest, taken, bad>>
  BY DEF Insert, fileVars, opVars
<1>2. Items(batch[r]) \subseteq Obs
  <2>1. batch[r] \in Seq(Obs)
    BY <1>0 DEF ProcTypes
  <2> QED BY <2>1, ElementOfSeq, LenProperties DEF Items
<1>3. <<>> \in Seq(Obs)
  OBVIOUS
<1>4. ProcTypes' /\ Mine(r) /\ at'[r] = "split"
  BY <1>0, <1>1, <1>3 DEF ProcTypes, Place, Mine
<1>5. Control(r)'
  BY <1>0, <1>1, <1>4, Kinds DEF Control
<1> QED BY <1>1, <1>2, <1>4, <1>5 DEF Fits, Types, StoreTypes

LEMMA SplitDoneFits ==
    ASSUME Types, Controls, NEW r \in Replayer, SplitDone(r)
    PROVE  /\ Fits(r) /\ at[r] = "split" /\ at'[r] = "archive" /\ rest[r] = <<>> /\ seg[r] = NoSeg
           /\ todo'[r] = Items(taken[r])
           /\ UNCHANGED <<disk, hurt, db, written, trouble, op, seg, memory, cur, content, batch, rest, taken, bad>>
<1>0. r \in Proc /\ Control(r) /\ ProcTypes
  BY DEF Controls, Types, Proc
<1>1. /\ at[r] = "split" /\ rest[r] = <<>> /\ op[r] = "none" /\ seg[r] = NoSeg
      /\ at' = [at EXCEPT ![r] = "archive"] /\ todo' = [todo EXCEPT ![r] = Items(taken[r])]
      /\ UNCHANGED <<disk, hurt, db, written, trouble, op, seg, memory, cur, content, batch, rest, taken, bad>>
  BY DEF SplitDone, fileVars, storeVars, opVars
<1>2. Items(taken[r]) \subseteq File
  <2>1. taken[r] \in Seq(File)
    BY <1>0 DEF ProcTypes
  <2> QED BY <2>1, ElementOfSeq, LenProperties DEF Items
<1>3. ProcTypes' /\ Mine(r) /\ at'[r] = "archive" /\ todo'[r] = Items(taken[r])
  BY <1>0, <1>1, <1>2 DEF ProcTypes, Place, Mine
<1>4. Control(r)'
  BY <1>0, <1>1, <1>3, Kinds DEF Control
<1> QED BY <1>1, <1>3, <1>4 DEF Fits, Types, StoreTypes

LEMMA ArchiveFits ==
    ASSUME Types, Controls, NEW r \in Replayer, NEW f \in File, Archive(r, f)
    PROVE  /\ Fits(r) /\ at[r] = "archive" /\ f \in todo[r]
           /\ UNCHANGED <<hurt, db, written, at, op, seg, memory, cur, content, batch, rest, taken, bad>>
           /\ \/ Exists("sealed", f) /\ disk' = Move("sealed", "done", f)
              \/ disk' = disk
<1>1. /\ at[r] = "archive" /\ f \in todo[r] /\ todo' = [todo EXCEPT ![r] = @ \ {f}]
      /\ \/ Exists("sealed", f) /\ disk' = Move("sealed", "done", f) /\ UNCHANGED trouble
         \/ disk' = disk /\ (UNCHANGED trouble \/ Troubled)
      /\ UNCHANGED <<hurt, db, written, at, op, seg, memory, cur, content, batch, rest, taken, bad>>
  BY DEF Archive, storeVars, opVars
<1>2. disk' \in Disks
  BY <1>1, Moving, Dirs DEF Types
<1>3. trouble' \in 0..MaxTrouble
  BY <1>1, Troubling DEF Types, StoreTypes
<1>4. StoreTypes'
  BY <1>1, <1>3 DEF Types, StoreTypes
<1> QED BY <1>1, <1>2, <1>3, <1>4, LookingFits

LEMMA CleanupDoneFits ==
    ASSUME Types, Controls, NEW f \in File, CleanupDone(f)
    PROVE  /\ Types' /\ Controls' /\ disk' = Discard("done", f)
           /\ UNCHANGED <<hurt, db, written, trouble, at, op, seg, memory, cur, content,
                          todo, batch, rest, taken, bad>>
<1>1. /\ disk' = Discard("done", f)
      /\ UNCHANGED <<hurt, db, written, trouble, at, op, seg, memory, cur, content,
                     todo, batch, rest, taken, bad>>
  BY DEF CleanupDone, storeVars, opVars, passVars
<1>2. disk' \in Disks
  BY <1>1, Discarding, Dirs DEF Types
<1>3. Controls'
  BY <1>1 DEF Controls, Control, Off
<1> QED BY <1>1, <1>2, <1>3 DEF Types, StoreTypes, ProcTypes

-----------------------------------------------------------------------------
(* Every step, and the theorem about types                                 *)

\* The steps that are the work of one process.
StepOf(p) ==
    \/ p \in Writer /\ (StartWriter(p) \/ StopWriter(p))
    \/ p \in Replayer /\ (StartPass(p) \/ Pass(p) \/ Insert(p) \/ InsertRaised(p))
    \/ Object(p) \/ Write(p) \/ Raise(p) \/ Crash(p)
    \/ \E o \in Obs : WriteRefused(p, o)
    \/ p \in Replayer /\ QuarantineRaises(p)
    \/ p \in Replayer /\ \E f \in File : DiscoverUnread(p, f) \/ TakeUnread(p, f)

LEMMA Steps ==
    /\ Next => (\E p \in Proc : StepOf(p)) \/ \E f \in File : CleanupDone(f)
BY DEF Next, StepOf, Proc

LEMMA StepFits ==
    ASSUME Types, Controls, NEW p \in Proc, StepOf(p)
    PROVE  Fits(p)
<1>1. CASE p \in Writer /\ StartWriter(p)
  BY <1>1, StartWriterFits
<1>2. CASE p \in Writer /\ StopWriter(p)
  BY <1>2, EndFits DEF StopWriter
<1>3. CASE p \in Replayer /\ StartPass(p)
  BY <1>3, StartPassFits
<1>4. CASE p \in Replayer /\ Pass(p)
  <2>1. ASSUME NEW f \in File, DiscoverSegment(p, f) PROVE Fits(p)
    BY <1>4, <2>1, DiscoverSegmentFits
  <2>2. ASSUME NEW f \in File, DiscoverHeadless(p, f) PROVE Fits(p)
    BY <1>4, <2>2, DiscoverHeadlessFits
  <2>3. ASSUME NEW f \in File, DiscoverTorn(p, f) PROVE Fits(p)
    BY <1>4, <2>3, DiscoverTornFits
  <2>4. ASSUME NEW f \in File, DiscoverFails(p, f) \/ TakeFails(p, f) PROVE Fits(p)
    BY <2>4, EndFits DEF DiscoverFails, TakeFails
  <2>5. ASSUME NEW f \in File, TakeSegment(p, f) PROVE Fits(p)
    BY <1>4, <2>5, TakeSegmentFits
  <2>6. ASSUME NEW f \in File, TakeCorrupt(p, f) PROVE Fits(p)
    BY <1>4, <2>6, TakeCorruptFits
  <2>7. ASSUME NEW f \in File, Archive(p, f) PROVE Fits(p)
    BY <1>4, <2>7, ArchiveFits
  <2>8. CASE EndPass(p)
    BY <2>8, EndFits DEF EndPass
  <2> QED BY <1>4, <2>1, <2>2, <2>3, <2>4, <2>5, <2>6, <2>7, <2>8,
             QuarantineFits, ListPendingFits, TakeDoneFits, SplitDoneFits DEF Pass
<1>5. CASE p \in Replayer /\ Insert(p)
  BY <1>5, InsertFits
<1>6. CASE p \in Replayer /\ InsertRaised(p)
  BY <1>6, EndFits DEF InsertRaised
<1>7. CASE Object(p)
  BY <1>7, WriteHeaderFits, WriteAppendFits, SealDueFits, SealReadFits, SealFooterFits,
     SealRenameFits, SealRefusedFits DEF Object
<1>8. CASE Write(p)
  BY <1>8, WriteKnownFits, WriteExtendFits, WriteCreateFits DEF Write
<1>9. CASE Raise(p)
  BY <1>9, RaiseFits
<1>10. CASE Crash(p)
  BY <1>10, CrashFits
<1>11. CASE \E o \in Obs : WriteRefused(p, o)
  BY <1>11, WriteRefusedFits
<1>12. CASE p \in Replayer /\ QuarantineRaises(p)
  BY <1>12, QuarantineRaisesFits
<1>13. CASE p \in Replayer /\ \E f \in File : DiscoverUnread(p, f) \/ TakeUnread(p, f)
  BY <1>13, UnreadFits
<1> QED BY <1>1, <1>2, <1>3, <1>4, <1>5, <1>6, <1>7, <1>8, <1>9, <1>10, <1>11, <1>12, <1>13 DEF StepOf

LEMMA Stutters ==
    ASSUME UNCHANGED vars
    PROVE  UNCHANGED <<disk, db, written, hurt, trouble, at, op, seg, memory, cur, content,
                       todo, batch, rest, taken, bad>>
BY DEF vars

LEMMA StepTypes == Types /\ Controls /\ [Next]_vars => Types' /\ Controls'
<1> SUFFICES ASSUME Types, Controls, [Next]_vars PROVE Types' /\ Controls'
  OBVIOUS
<1>1. ASSUME NEW p \in Proc, StepOf(p) PROVE Types' /\ Controls'
  <2>1. Fits(p)
    BY <1>1, StepFits
  <2> QED BY <2>1, ControlsOn DEF Fits
<1>2. ASSUME NEW f \in File, CleanupDone(f) PROVE Types' /\ Controls'
  BY <1>2, CleanupDoneFits
<1>3. CASE UNCHANGED vars
  <2>1. UNCHANGED <<disk, db, written, hurt, trouble, at, op, seg, memory, cur, content,
                    todo, batch, rest, taken, bad>>
    BY <1>3, Stutters
  <2>2. Types'
    BY <2>1 DEF Types, StoreTypes, ProcTypes
  <2>3. Controls'
    BY <2>1 DEF Controls, Control, Off
  <2> QED BY <2>2, <2>3
<1> QED BY <1>1, <1>2, <1>3, Steps

\* Through every file operation, error and death each variable has its type, and
\* what a spool object is doing goes with its open segment and the observation
\* in hand: write() and _seal() work on the segment they were given, and a
\* replay pass has an observation in hand only while it splits a segment.
THEOREM AlwaysTyped == Spec => [](Types /\ Controls)
<1>1. Types /\ Controls /\ [Next]_vars => (Types /\ Controls)'
  BY StepTypes
<1> QED BY InitTypes, <1>1, PTL DEF Spec

\* What the module keeps has its type at any time, also while passes and
\* writers share the directory: every file is a sequence of lines, and an
\* object in the middle of write() or _seal() has the segment it works on, so
\* that no step of them reads an entry of _open that is not there.
THEOREM EvidenceTypeCorrect == Spec => []TypeOK
<1>1. Types /\ Controls => TypeOK
  <2> SUFFICES ASSUME Types, Controls PROVE TypeOK
    OBVIOUS
  <2>1. disk \in [Dir -> [File -> Seq(Line) \cup {NoFile}]]
    BY LinedIsLines DEF Types, Disks
  <2>2. \A p \in Proc : op[p] # "none" => seg[p] # NoSeg
    BY DEF Controls, Control
  <2> QED BY <2>1, <2>2 DEF Types, StoreTypes, ProcTypes, TypeOK, Segs, Paths
<1> QED BY AlwaysTyped, <1>1, PTL
==============================================================================
