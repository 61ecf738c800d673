---------------------------- MODULE EvidenceSpool ----------------------------
(* The local spool of intraday evidence (intraday_evidence_spool.py): scans   *)
(* append observations to segment files through a spool object of their       *)
(* process; each replay pass opens a spool object of its own on the same      *)
(* directory, seals the open segments it finds, stores a batch of records in  *)
(* the database and archives the files it has finished.                       *)
(*                                                                            *)
(* Each file operation is a step; between two of them other processes go on,  *)
(* the process may die, or the operation may raise.  The operating system is  *)
(* assumed to keep what was written and to rename atomically.  All            *)
(* observations belong to one segment key (trade date, stream, provider,      *)
(* capability): the tape of one day, the only stream with a writer.           *)
EXTENDS Naturals, Sequences, FiniteSets

CONSTANTS
    Obs,          \* observations
    File,         \* segment ids
    Writer,       \* processes that write (shared_spool, one object each)
    Replayer,     \* replay passes
    MaxRecords,   \* segment_max_records
    Limit,        \* max_batch
    MaxTrouble,   \* bound: file operations that raise or are cut off
    NoObs, NoFile \* no observation; no file at a path

Proc == Writer \cup Replayer

ASSUME EvidenceAssumption ==
    /\ Writer \cap Replayer = {}
    /\ MaxRecords \in Nat \ {0} /\ Limit \in Nat \ {0} /\ MaxTrouble \in Nat
    /\ NoObs \notin Obs /\ NoFile \notin File

Kind == {"header", "record", "footer", "torn", "cut"}
Content == Seq(Obs \cup {NoObs})
Line == [type : Kind, obs : Obs \cup {NoObs}, rows : Nat, content : Content]

ASSUME FileAssumption == NoFile \notin Seq(Line)

Header == [type |-> "header", obs |-> NoObs, rows |-> 0, content |-> <<>>]
\* Lines that broke off: one that json refuses, one that ends inside a character.
Torn == [Header EXCEPT !.type = "torn"]
Cut == [Header EXCEPT !.type = "cut"]
Record(o) == [Header EXCEPT !.type = "record", !.obs = o]
Footer(n, c) == [Header EXCEPT !.type = "footer", !.rows = n, !.content = c]

(* pending/x.jsonl.open, pending/x.jsonl and done/x.jsonl; "away" keeps what   *)
(* is gone for the passes: what quarantine() unlinked (its copy may have the  *)
(* text or only the file's name, and nothing reads it), what a rename         *)
(* overwrote and what cleanup_done deleted.                                   *)
Dir == {"open", "sealed", "done", "away"}
Pending == {"open", "sealed"}

VARIABLES
    disk,      \* lines of the file at each path, or NoFile
    db,        \* observations stored (inserts ignore what is there already)
    written,   \* observations whose write returned
    hurt,      \* files whose writing, sealing or reading broke off, or which a
               \* pass took up while another object had them open
    trouble,   \* file operations that raised or were cut off so far
    at,        \* where the process is: a writer or a pass
    op,        \* the step of write() or _seal() its spool object is in
    seg,       \* _open: the object's segment and its row count
    memory,    \* _memory_paths: where the object wrote an observation
    cur,       \* the observation being written
    content,   \* what _seal has read and hashed
    todo,      \* files the pass has still to look at
    batch,     \* records the pass has taken
    rest,      \* records of the last file that did not fit the batch
    taken,     \* files the batch was taken from
    bad        \* the file the pass is about to quarantine

fileVars == <<disk, hurt>>
storeVars == <<db, written>>
passVars == <<todo, batch, rest, taken, bad>>
opVars == <<op, seg, memory, cur, content>>
vars == <<disk, db, written, hurt, trouble, at, op, seg, memory, cur, content,
          todo, batch, rest, taken, bad>>

NoSeg == [file |-> NoFile, rows |-> 0]
NoPath == [dir |-> "open", file |-> NoFile]
Place == {"off", "ready", "discover", "take", "insert", "split", "archive"}
Step == {"none", "header", "append", "seal", "footer", "rename"}

Items(s) == {s[i] : i \in DOMAIN s}
Exists(d, f) == disk[d][f] # NoFile
Put(d, f, lines) == [disk EXCEPT ![d][f] = lines]
Lines(d, f) == IF Exists(d, f) THEN disk[d][f] ELSE <<>>
Discard(d, f) ==
    [disk EXCEPT ![d][f] = NoFile, !["away"][f] = Lines("away", f) \o Lines(d, f)]

\* os.replace, over what there may be.
Move(from, to, f) ==
    [IF Exists(to, f) THEN Discard(to, f) ELSE disk EXCEPT ![from][f] = NoFile, ![to][f] = disk[from][f]]
IsCut(lines) == \E i \in DOMAIN lines : lines[i].type = "cut"
IsTorn(lines) == \E i \in DOMAIN lines : lines[i].type \in {"torn", "cut"}
Hashed(lines) == [i \in DOMAIN lines |-> lines[i].obs]
RecordsOf(lines) == {lines[i].obs : i \in {j \in DOMAIN lines : lines[j].type = "record"}}

\* What read_segment accepts.
Valid(lines) ==
    LET n == Len(lines) IN
    /\ n >= 3
    /\ lines[1].type = "header"
    /\ \A i \in 2..(n - 1) : lines[i].type = "record"
    /\ lines[n] = Footer(n - 2, Hashed(SubSeq(lines, 2, n - 1)))

\* Mutant of Discoverable: wants a footer as read_segment does.
DiscoverableFooted(lines) ==
    ~IsTorn(lines) /\ Len(lines) > 2 /\ lines[1].type = "header"

\* What _discover_open_segments takes for an open segment to go on with.
Discoverable(lines) ==
    ~IsTorn(lines) /\ Len(lines) >= 2 /\ lines[1].type = "header"

\* Mutant of Recovered: counts the header as a record.
RecoveredWhole(f) == [file |-> f, rows |-> Len(disk["open"][f])]

\* Its entry in the table of open segments: every line but the header counts.
Recovered(f) == [file |-> f, rows |-> Len(disk["open"][f]) - 1]

\* Mutant of Remainder: one record short.
RemainderShort(records, room) == SubSeq(records, room + 2, Len(records))

\* The records that do not fit a batch with that much room left.
Remainder(records, room) == SubSeq(records, room + 1, Len(records))

\* Mutant of ButTheSplit: archives the file all the same.
ButTheSplitNone(files) == files

\* The files that may be archived although the last one could not be split.
ButTheSplit(files) == SubSeq(files, 1, Len(files) - 1)

\* The object knows a file that holds the observation and is still there.
Known(p, o) ==
    /\ memory[p][o] # NoPath
    /\ Exists(memory[p][o].dir, memory[p][o].file)

\* An id not in use; which one makes no difference, they are random.
Fresh(f) ==
    LET unused == {g \in File : \A d \in Dir : disk[d][g] = NoFile}
    IN  unused # {} /\ f = CHOOSE g \in unused : TRUE

Init ==
    /\ disk = [d \in Dir |-> [f \in File |-> NoFile]]
    /\ db = {} /\ written = {} /\ hurt = {}
    /\ trouble = 0
    /\ at = [p \in Proc |-> "off"]
    /\ op = [p \in Proc |-> "none"]
    /\ seg = [p \in Proc |-> NoSeg]
    /\ memory = [p \in Proc |-> [o \in Obs |-> NoPath]]
    /\ cur = [p \in Proc |-> NoObs]
    /\ content = [p \in Proc |-> <<>>]
    /\ todo = [p \in Proc |-> {}]
    /\ batch = [p \in Proc |-> <<>>]
    /\ rest = [p \in Proc |-> <<>>]
    /\ taken = [p \in Proc |-> <<>>]
    /\ bad = [p \in Proc |-> NoFile]

-----------------------------------------------------------------------------
(* A spool object: write() and _seal()                                       *)

\* Mutant of Ended: the object outlives the pass in the middle of its step.
EndedMidStep(p) ==
    /\ at' = [at EXCEPT ![p] = "off"]
    /\ seg' = [seg EXCEPT ![p] = NoSeg]
    /\ todo' = [todo EXCEPT ![p] = {}]
    /\ bad' = [bad EXCEPT ![p] = NoFile]
    /\ UNCHANGED <<op, memory, cur, content, batch, rest, taken>>

\* The process, or the pass, is over and its object with it.
Ended(p) ==
    /\ at' = [at EXCEPT ![p] = "off"]
    /\ op' = [op EXCEPT ![p] = "none"]
    /\ seg' = [seg EXCEPT ![p] = NoSeg]
    /\ memory' = [memory EXCEPT ![p] = [o \in Obs |-> NoPath]]
    /\ cur' = [cur EXCEPT ![p] = NoObs]
    /\ content' = [content EXCEPT ![p] = <<>>]
    /\ todo' = [todo EXCEPT ![p] = {}]
    /\ batch' = [batch EXCEPT ![p] = <<>>]
    /\ rest' = [rest EXCEPT ![p] = <<>>]
    /\ taken' = [taken EXCEPT ![p] = <<>>]
    /\ bad' = [bad EXCEPT ![p] = NoFile]

\* write(o) returns: to the scan, or to a pass that is splitting a segment.
Returned(p, o) ==
    /\ op' = [op EXCEPT ![p] = "none"]
    /\ cur' = [cur EXCEPT ![p] = NoObs]
    /\ IF p \in Writer
       THEN written' = written \cup {o} /\ UNCHANGED rest
       ELSE rest' = [rest EXCEPT ![p] = Tail(@)] /\ UNCHANGED written
    /\ UNCHANGED <<db, at, todo, batch, taken, bad>>

\* write(o), or seal_due, raises.  A scan stores the observation itself; a pass
\* that is splitting leaves the file it splits in place; a pass that has not
\* listed the segments yet fails.
Raised(p, o) ==
    \/ /\ p \in Writer
       /\ db' = db \cup {o}
       /\ op' = [op EXCEPT ![p] = "none"]
       /\ cur' = [cur EXCEPT ![p] = NoObs]
       /\ seg' = [seg EXCEPT ![p] = IF op[p] = "header" THEN NoSeg ELSE @]
       /\ UNCHANGED <<written, at, memory, content, passVars>>
    \/ /\ at[p] = "split"
       /\ at' = [at EXCEPT ![p] = "archive"]
       /\ op' = [op EXCEPT ![p] = "none"]
       /\ cur' = [cur EXCEPT ![p] = NoObs]
       /\ seg' = [seg EXCEPT ![p] = NoSeg]
       /\ rest' = [rest EXCEPT ![p] = <<>>]
       /\ taken' = [taken EXCEPT ![p] = ButTheSplit(@)]
       /\ todo' = [todo EXCEPT ![p] = Items(ButTheSplit(taken[p]))]
       /\ UNCHANGED <<storeVars, memory, content, batch, bad>>
    \/ /\ at[p] = "discover"
       /\ Ended(p)
       /\ UNCHANGED storeVars

\* The observations a process may write next.  A scan's tape carries its own
\* id and time, so it is new, or written again by a process that knows it.
Asked(p) ==
    CASE at[p] = "ready" -> {o \in Obs : o \notin written \cup db \/ Known(p, o)}
      [] at[p] = "split" /\ rest[p] # <<>> -> {Head(rest[p])}
      [] OTHER -> {}

WriteKnown(p, o) ==
    /\ op[p] = "none" /\ o \in Asked(p)
    /\ Known(p, o)
    /\ Returned(p, o)
    /\ UNCHANGED <<fileVars, trouble, seg, memory, content>>

\* The disk is nearly full, or the object's directory cannot be made.
WriteRefused(p, o) ==
    /\ op[p] = "none" /\ o \in Asked(p)
    /\ ~Known(p, o)
    /\ Raised(p, o)
    /\ UNCHANGED <<fileVars, trouble>>

\* The first observation of a segment creates its file, the header follows.
WriteCreate(p, o, f) ==
    /\ op[p] = "none" /\ o \in Asked(p)
    /\ ~Known(p, o)
    /\ seg[p] = NoSeg /\ Fresh(f)
    /\ disk' = Put("open", f, <<>>)
    /\ op' = [op EXCEPT ![p] = "header"]
    /\ seg' = [seg EXCEPT ![p] = [file |-> f, rows |-> 0]]
    /\ cur' = [cur EXCEPT ![p] = o]
    /\ UNCHANGED <<hurt, storeVars, trouble, at, memory, content, passVars>>

WriteHeader(p) ==
    /\ op[p] = "header"
    /\ disk' = Put("open", seg[p].file, <<Header>>)
    /\ op' = [op EXCEPT ![p] = "append"]
    /\ UNCHANGED <<hurt, storeVars, trouble, at, seg, memory, cur, content, passVars>>

WriteExtend(p, o) ==
    /\ op[p] = "none" /\ o \in Asked(p)
    /\ ~Known(p, o)
    /\ seg[p] # NoSeg
    /\ op' = [op EXCEPT ![p] = "append"]
    /\ cur' = [cur EXCEPT ![p] = o]
    /\ UNCHANGED <<fileVars, storeVars, trouble, at, seg, memory, content, passVars>>

\* open("ab"): a file that is no longer there is created again, without header.
Appended(p, line) ==
    LET f == seg[p].file IN
    Put("open", f, IF Exists("open", f) THEN Append(disk["open"][f], line) ELSE <<line>>)

WriteAppend(p) ==
    /\ op[p] = "append"
    /\ disk' = Appended(p, Record(cur[p]))
    /\ seg' = [seg EXCEPT ![p].rows = @ + 1]
    /\ memory' = [memory EXCEPT ![p][cur[p]] = [dir |-> "open", file |-> seg[p].file]]
    /\ IF seg[p].rows + 1 >= MaxRecords
       THEN op' = [op EXCEPT ![p] = "seal"] /\ UNCHANGED <<storeVars, at, cur, passVars>>
       ELSE Returned(p, cur[p])
    /\ UNCHANGED <<hurt, trouble, content>>

\* pending() and the end of a split close the object's segment, if it is there.
SealDue(p) ==
    /\ at[p] \in {"discover", "split"} /\ todo[p] = {} /\ rest[p] = <<>>
    /\ op[p] = "none" /\ seg[p] # NoSeg
    /\ IF Exists("open", seg[p].file)
       THEN op' = [op EXCEPT ![p] = "seal"] /\ UNCHANGED seg
       ELSE seg' = [seg EXCEPT ![p] = NoSeg] /\ UNCHANGED op
    /\ UNCHANGED <<fileVars, storeVars, trouble, at, memory, cur, content, passVars>>

SealRead(p) ==
    LET lines == disk["open"][seg[p].file] IN
    /\ op[p] = "seal" /\ Exists("open", seg[p].file) /\ ~IsTorn(lines)
    /\ content' = [content EXCEPT ![p] = Hashed(SubSeq(lines, 2, Len(lines)))]
    /\ op' = [op EXCEPT ![p] = "footer"]
    /\ UNCHANGED <<fileVars, storeVars, trouble, at, seg, memory, cur, passVars>>

SealFooter(p) ==
    /\ op[p] = "footer"
    /\ disk' = Appended(p, Footer(seg[p].rows, content[p]))
    /\ content' = [content EXCEPT ![p] = <<>>]
    /\ op' = [op EXCEPT ![p] = "rename"]
    /\ UNCHANGED <<hurt, storeVars, trouble, at, seg, memory, cur, passVars>>

SealRename(p) ==
    LET f == seg[p].file IN
    /\ op[p] = "rename" /\ Exists("open", f)
    /\ disk' = Move("open", "sealed", f)
    /\ seg' = [seg EXCEPT ![p] = NoSeg]
    /\ memory' = [memory EXCEPT ![p] = [o \in Obs |->
                    IF @[o] = [dir |-> "open", file |-> f]
                    THEN [dir |-> "sealed", file |-> f] ELSE @[o]]]
    /\ IF cur[p] # NoObs
       THEN Returned(p, cur[p])
       ELSE op' = [op EXCEPT ![p] = "none"] /\ UNCHANGED <<storeVars, at, cur, passVars>>
    /\ UNCHANGED <<hurt, trouble, content>>

\* The file cannot be decoded or read as JSON, or another object has renamed it: the
\* error goes to whoever called write() or seal_due().
SealRefused(p) ==
    LET f == seg[p].file IN
    /\ \/ op[p] = "seal" /\ (Exists("open", f) => IsTorn(disk["open"][f]))
       \/ op[p] = "rename" /\ ~Exists("open", f)
    /\ Raised(p, cur[p])
    /\ UNCHANGED <<fileVars, trouble>>

\* What a step that breaks off leaves on disk, and whether that spoils the file.
Broken(p) ==
    LET f == seg[p].file IN
    \/ op[p] \in {"none", "append", "seal", "footer"} /\ UNCHANGED fileVars
    \/ /\ op[p] = "header"
       /\ disk' \in {disk, Put("open", f, <<Torn>>)}
       /\ hurt' = hurt \cup {f}
    \/ /\ op[p] = "footer"
       /\ disk' = Appended(p, Torn)
       /\ hurt' = hurt \cup {f}
    \/ /\ op[p] = "append"   \* or whole, but fsync raised: on disk and not counted
       /\ \E line \in {Torn, Cut, Record(cur[p])} : disk' = Appended(p, line)
       /\ hurt' = hurt \cup {f}
    \/ /\ op[p] = "rename"
       /\ hurt' = hurt \cup {f}
       /\ UNCHANGED disk

Troubled == trouble < MaxTrouble /\ trouble' = trouble + 1

Raise(p) ==
    /\ op[p] # "none"
    /\ Broken(p)
    /\ Raised(p, cur[p])
    /\ Troubled

Crash(p) ==
    /\ at[p] # "off"
    /\ Broken(p)
    /\ Ended(p)
    /\ Troubled
    /\ UNCHANGED storeVars

Object(p) ==
    \/ WriteHeader(p) \/ WriteAppend(p)
    \/ SealDue(p) \/ SealRead(p) \/ SealFooter(p) \/ SealRename(p) \/ SealRefused(p)

-----------------------------------------------------------------------------
(* Processes and passes                                                      *)

StartWriter(w) ==
    /\ at[w] = "off"
    /\ at' = [at EXCEPT ![w] = "ready"]
    /\ UNCHANGED <<fileVars, storeVars, trouble, opVars, passVars>>

\* A writer's process ends between two writes; its segment stays open.
StopWriter(w) ==
    /\ at[w] = "ready" /\ op[w] = "none"
    /\ Ended(w)
    /\ UNCHANGED <<fileVars, storeVars, trouble>>

\* replay_pending opens its own spool; pending() first lists the open segments.
StartPass(r) ==
    /\ at[r] = "off"
    /\ at' = [at EXCEPT ![r] = "discover"]
    /\ todo' = [todo EXCEPT ![r] = {f \in File : Exists("open", f)}]
    /\ UNCHANGED <<fileVars, storeVars, trouble, opVars, batch, rest, taken, bad>>

\* One open segment of _discover_open_segments, in no order that matters: ids
\* are random.  The last one recovered takes the place of those before.  The
\* glob does not tell whether another object has the file open.
Found(r, f) ==
    /\ at[r] = "discover" /\ f \in todo[r] /\ bad[r] = NoFile
    /\ hurt' = IF \E q \in Proc \ {r} : seg[q].file = f THEN hurt \cup {f} ELSE hurt
    /\ UNCHANGED <<disk, storeVars, at, op, memory, cur, content, batch, rest, taken>>

Passed(r, f) == todo' = [todo EXCEPT ![r] = @ \ {f}] /\ UNCHANGED bad

Condemned(r, f) == bad' = [bad EXCEPT ![r] = f] /\ UNCHANGED todo

DiscoverSegment(r, f) ==
    /\ Found(r, f) /\ Passed(r, f)
    /\ Exists("open", f) /\ Discoverable(disk["open"][f])
    /\ seg' = [seg EXCEPT ![r] = Recovered(f)]
    /\ UNCHANGED trouble

DiscoverHeadless(r, f) ==
    LET lines == disk["open"][f] IN
    /\ Found(r, f) /\ Passed(r, f)
    /\ Exists("open", f) /\ lines # <<>> /\ ~IsTorn(lines) /\ ~Discoverable(lines)
    /\ UNCHANGED <<seg, trouble>>

\* json refuses it, or it is gone by now.
DiscoverTorn(r, f) ==
    LET lines == Lines("open", f) IN
    /\ Found(r, f) /\ Condemned(r, f)
    /\ Exists("open", f) => IsTorn(lines) /\ ~IsCut(lines)
    /\ UNCHANGED <<seg, trouble>>

\* lines[0] of an empty file, or bytes that cannot be decoded: an IndexError or
\* a UnicodeDecodeError that nothing catches; the pass fails.
DiscoverFails(r, f) ==
    /\ at[r] = "discover" /\ f \in todo[r] /\ bad[r] = NoFile
    /\ Exists("open", f) /\ (disk["open"][f] = <<>> \/ IsCut(disk["open"][f]))
    /\ Ended(r)
    /\ UNCHANGED <<fileVars, storeVars, trouble>>

\* A read raises OSError, and nothing may be wrong with the file.
DiscoverUnread(r, f) ==
    /\ at[r] = "discover" /\ f \in todo[r] /\ bad[r] = NoFile
    /\ Exists("open", f) /\ Troubled
    /\ hurt' = hurt \cup {f}
    /\ Condemned(r, f)
    /\ UNCHANGED <<disk, storeVars, at, opVars, batch, rest, taken>>

\* quarantine: a copy is written, or a note of the name, and the file unlinked,
\* with what was appended to it in between.
Quarantine(r) ==
    LET f == bad[r]
        d == IF at[r] = "discover" THEN "open" ELSE "sealed"
    IN
    /\ f # NoFile
    /\ disk' = IF Exists(d, f) THEN Discard(d, f) ELSE disk
    /\ todo' = [todo EXCEPT ![r] = @ \ {f}]
    /\ bad' = [bad EXCEPT ![r] = NoFile]
    /\ UNCHANGED <<hurt, storeVars, trouble, at, opVars, batch, rest, taken>>

\* It raises: _discover_open_segments goes on, replay_pending does not.
QuarantineRaises(r) ==
    LET f == bad[r] IN
    /\ f # NoFile /\ Troubled
    /\ IF at[r] = "discover"
       THEN /\ todo' = [todo EXCEPT ![r] = @ \ {f}]
            /\ bad' = [bad EXCEPT ![r] = NoFile]
            /\ UNCHANGED <<at, opVars, batch, rest, taken>>
       ELSE Ended(r)
    /\ UNCHANGED <<fileVars, storeVars>>

\* The listing is cut to the batch size, in files.
ListPending(r) ==
    LET sealed == {f \in File : Exists("sealed", f)} IN
    /\ at[r] = "discover" /\ todo[r] = {} /\ op[r] = "none" /\ seg[r] = NoSeg
    /\ \E few \in SUBSET sealed :
        /\ IF Cardinality(sealed) <= Limit THEN few = sealed ELSE Cardinality(few) = Limit
        /\ todo' = [todo EXCEPT ![r] = few]
    /\ at' = [at EXCEPT ![r] = "take"]
    /\ UNCHANGED <<fileVars, storeVars, trouble, opVars, batch, rest, taken, bad>>

TakeSegment(r, f) ==
    LET records == SubSeq(Hashed(disk["sealed"][f]), 2, Len(disk["sealed"][f]) - 1)
        room == Limit - Len(batch[r])
    IN
    /\ at[r] = "take" /\ f \in todo[r] /\ bad[r] = NoFile /\ room > 0
    /\ Exists("sealed", f) /\ Valid(disk["sealed"][f])
    /\ batch' = [batch EXCEPT ![r] = @ \o SubSeq(records, 1, IF Len(records) < room THEN Len(records) ELSE room)]
    /\ rest' = [rest EXCEPT ![r] = Remainder(records, room)]
    /\ taken' = [taken EXCEPT ![r] = Append(@, f)]
    /\ todo' = [todo EXCEPT ![r] = @ \ {f}]
    /\ UNCHANGED <<fileVars, storeVars, trouble, at, opVars, bad>>

TakeCorrupt(r, f) ==
    /\ at[r] = "take" /\ f \in todo[r] /\ bad[r] = NoFile
    /\ Exists("sealed", f) => ~Valid(disk["sealed"][f]) /\ ~IsCut(disk["sealed"][f])
    /\ Condemned(r, f)
    /\ UNCHANGED <<fileVars, storeVars, trouble, at, opVars, batch, rest, taken>>

\* read_segment does not expect bytes that cannot be decoded either.
TakeFails(r, f) ==
    /\ at[r] = "take" /\ f \in todo[r] /\ bad[r] = NoFile
    /\ Exists("sealed", f) /\ IsCut(disk["sealed"][f])
    /\ Ended(r)
    /\ UNCHANGED <<fileVars, storeVars, trouble>>

\* It makes SpoolCorrupt of an OSError: a valid file goes to quarantine.
TakeUnread(r, f) ==
    /\ at[r] = "take" /\ f \in todo[r] /\ bad[r] = NoFile
    /\ Exists("sealed", f) /\ Troubled
    /\ hurt' = hurt \cup {f}
    /\ Condemned(r, f)
    /\ UNCHANGED <<disk, storeVars, at, opVars, batch, rest, taken>>

TakeDone(r) ==
    /\ at[r] = "take" /\ bad[r] = NoFile /\ (todo[r] = {} \/ Len(batch[r]) = Limit)
    /\ IF batch[r] = <<>>
       THEN Ended(r)
       ELSE /\ at' = [at EXCEPT ![r] = "insert"]
            /\ todo' = [todo EXCEPT ![r] = {}]
            /\ UNCHANGED <<opVars, batch, rest, taken, bad>>
    /\ UNCHANGED <<fileVars, storeVars, trouble>>

Insert(r) ==
    /\ at[r] = "insert"
    /\ db' = db \cup Items(batch[r])
    /\ batch' = [batch EXCEPT ![r] = <<>>]
    /\ at' = [at EXCEPT ![r] = "split"]
    /\ UNCHANGED <<fileVars, written, trouble, opVars, todo, rest, taken, bad>>

InsertRaised(r) ==
    /\ at[r] = "insert"
    /\ Ended(r)
    /\ UNCHANGED <<fileVars, storeVars, trouble>>

\* Every observation that did not fit is in a new, sealed segment.
SplitDone(r) ==
    /\ at[r] = "split" /\ rest[r] = <<>> /\ op[r] = "none" /\ seg[r] = NoSeg
    /\ at' = [at EXCEPT ![r] = "archive"]
    /\ todo' = [todo EXCEPT ![r] = Items(taken[r])]
    /\ UNCHANGED <<fileVars, storeVars, trouble, opVars, batch, rest, taken, bad>>

\* mark_done, which may raise and then leaves the file to the next pass.
Archive(r, f) ==
    /\ at[r] = "archive" /\ f \in todo[r]
    /\ \/ Exists("sealed", f) /\ disk' = Move("sealed", "done", f) /\ UNCHANGED trouble
       \/ ~Exists("sealed", f) /\ UNCHANGED <<disk, trouble>>
       \/ Troubled /\ UNCHANGED disk
    /\ todo' = [todo EXCEPT ![r] = @ \ {f}]
    /\ UNCHANGED <<hurt, storeVars, at, opVars, batch, rest, taken, bad>>

EndPass(r) ==
    /\ at[r] = "archive" /\ todo[r] = {}
    /\ Ended(r)
    /\ UNCHANGED <<fileVars, storeVars, trouble>>

\* cleanup_done, when the retention is over.
CleanupDone(f) ==
    /\ Exists("done", f)
    /\ disk' = Discard("done", f)
    /\ UNCHANGED <<hurt, storeVars, trouble, at, opVars, passVars>>

Pass(r) ==
    \/ \E f \in File :
        \/ DiscoverSegment(r, f) \/ DiscoverHeadless(r, f) \/ DiscoverTorn(r, f)
        \/ DiscoverFails(r, f) \/ TakeSegment(r, f) \/ TakeCorrupt(r, f) \/ TakeFails(r, f)
        \/ Archive(r, f)
    \/ Quarantine(r) \/ ListPending(r) \/ TakeDone(r) \/ SplitDone(r) \/ EndPass(r)

Write(p) == \E o \in Obs :
    WriteKnown(p, o) \/ WriteExtend(p, o) \/ \E f \in File : WriteCreate(p, o, f)

Next ==
    \/ \E w \in Writer : StartWriter(w) \/ StopWriter(w)
    \/ \E r \in Replayer : StartPass(r) \/ Pass(r) \/ Insert(r) \/ InsertRaised(r)
    \/ \E p \in Proc : Object(p) \/ Write(p) \/ Raise(p) \/ Crash(p)
    \/ \E p \in Proc, o \in Obs : WriteRefused(p, o)
    \/ \E r \in Replayer : QuarantineRaises(r) \/ \E f \in File : DiscoverUnread(r, f) \/ TakeUnread(r, f)
    \/ \E f \in File : CleanupDone(f)

Spec == Init /\ [][Next]_vars

-----------------------------------------------------------------------------
(* Properties                                                                *)

\* Types; an object in the middle of an operation has a segment.
TypeOK ==
    /\ disk \in [Dir -> [File -> Seq(Line) \cup {NoFile}]]
    /\ db \subseteq Obs /\ written \subseteq Obs /\ hurt \subseteq File
    /\ trouble \in 0..MaxTrouble
    /\ at \in [Proc -> Place] /\ op \in [Proc -> Step]
    /\ seg \in [Proc -> [file : File \cup {NoFile}, rows : Nat]]
    /\ memory \in [Proc -> [Obs -> [dir : Pending, file : File \cup {NoFile}]]]
    /\ cur \in [Proc -> Obs \cup {NoObs}]
    /\ content \in [Proc -> Content]
    /\ todo \in [Proc -> SUBSET File]
    /\ batch \in [Proc -> Seq(Obs)] /\ rest \in [Proc -> Seq(Obs)]
    /\ taken \in [Proc -> Seq(File)] /\ bad \in [Proc -> File \cup {NoFile}]
    /\ \A p \in Proc : op[p] # "none" => seg[p] # NoSeg

\* A pass that finds the file reads the observation from it: a sealed segment
\* that read_segment accepts, an open one that can still be sealed, or one with
\* its footer that a living process is about to rename.
Whole(lines) ==
    /\ Len(lines) >= 2 /\ lines[1] = Header
    /\ \A i \in 2..Len(lines) : lines[i].type = "record"

Readable(o) == \E f \in File :
    \/ Exists("sealed", f) /\ Valid(disk["sealed"][f]) /\ o \in RecordsOf(disk["sealed"][f])
    \/ /\ Exists("open", f) /\ o \in RecordsOf(disk["open"][f])
       /\ \/ Whole(disk["open"][f])
          \/ \E p \in Proc : /\ op[p] = "rename" /\ seg[p].file = f
                             /\ Valid(disk["open"][f])

\* What the module promises: an observation whose write returned is stored, or
\* the next pass will read it.
Recoverable ==
    (\A r \in Replayer : at[r] = "off") => \A o \in written \ db : Readable(o)

\* Its record is, or was, in a file that an error or a death hit, or that two
\* objects had open at once.
Spoilt(o) == \E d \in Dir, f \in hurt : o \in RecordsOf(Lines(d, f))

Kept(o) == o \in db \/ Readable(o) \/ Spoilt(o)

\* An I/O error, a death in the middle of an operation or a pass that takes up a
\* segment still being written costs at most the segments it hit: written
\* evidence in all others is stored or can be read.
LossConfined == \A o \in written : Kept(o)

\* Files are archived, and deleted later, only when all their records are
\* stored or have moved to a segment that will be, unless that one is hit.
ArchivedIsSafe == \A f \in File : \A o \in RecordsOf(Lines("done", f)) : Kept(o)

-----------------------------------------------------------------------------
(* Liveness: passes come round and go on, every operation ends, the database  *)
(* answers at times.  A writer need neither write nor end.                    *)
Fairness ==
    /\ \A p \in Proc : WF_vars(Object(p)) /\ WF_vars(p \in Replayer /\ Write(p))
    /\ \A r \in Replayer : SF_vars(StartPass(r)) /\ WF_vars(Pass(r)) /\ SF_vars(Insert(r))

FairSpec == Spec /\ Fairness

\* The disk does not stay full.
Room == <>[][\A p \in Proc, o \in Obs : ~WriteRefused(p, o)]_vars

\* A file left empty or with half a character: every later pass fails on it.
Stuck == \E f \in hurt :
    \/ Exists("open", f) /\ disk["open"][f] = <<>>
    \/ \E d \in Pending : IsCut(Lines(d, f))

\* Written evidence reaches the database, unless its own file was hit or the
\* passes are stuck; what broke off in another file does not keep it back.
EventuallyStored ==
    Room => \A o \in Obs : (o \in written) ~> (o \in db \/ Stuck \/ Spoilt(o))
=============================================================================
