---------------------------- MODULE JournalFile ----------------------------
(***************************************************************************)
(* The file under a session journal (agentknit/_journal.py, class          *)
(* SessionJournal and the line loop of replay_journal).                    *)
(*                                                                         *)
(* A record is one line of JSON written with one f.write + flush + fsync.  *)
(* The line reaches the disk in pieces, so the file is a sequence of       *)
(* fragments: the first half of the JSON text ("head"), the rest of it     *)
(* ("tail") and the newline ("nl").  Cutting the file at a fragment        *)
(* boundary gives the three kinds of torn line the code tells apart: text  *)
(* that does not parse, text that parses but lacks its newline, and none.  *)
(*                                                                         *)
(* Processes open the journal, repair its tail, append from several tool   *)
(* threads under _append_lock, fail, crash and reopen it.                  *)
(***************************************************************************)
EXTENDS Integers, Sequences, FiniteSets

CONSTANTS
    Procs,          \* processes that may open this session's journal
    Threads,        \* threads of a process that append (tool workers, main)
    NoOne,          \* no process / no thread
    Exclusive,      \* SessionJournal(exclusive=...): TRUE with a session_dir
    NewlineTear,    \* a crash may cut a line exactly before its newline
    WriteErrors,    \* an append may raise (disk full) in a live process
    RepairCrash,    \* a crash may hit between the two writes of the repair
    MaxAppends,     \* bound: appends attempted
    MaxCrashes      \* bound: crashes

ASSUME EnvironmentAssumption ==
    {Exclusive, NewlineTear, WriteErrors, RepairCrash} \subseteq BOOLEAN
ASSUME NoOneAssumption == NoOne \notin Procs /\ NoOne \notin Threads
ASSUME BoundsAssumption == MaxAppends \in Nat /\ MaxCrashes \in Nat

Parts == <<"head", "tail", "nl">>

\* A record is told apart by n, the number of the append() call that wrote
\* it; seq is the sequence number stored in it.
Record == [n : Nat, seq : Nat]
Fragment == [n : Nat, seq : Nat, part : {"head", "tail", "nl"}]
Piece(r, k) == [n |-> r.n, seq |-> r.seq, part |-> Parts[k]]

VARIABLES
    file,           \* the fragments in the file
    st,             \* per process: down, locked, torn, truncated, intact, open
    raw,            \* per process: the intact prefix held by the tail repair
    seq,            \* per process: self._seq
    holder,         \* per process: the thread inside _append_lock
    cur,            \* per process: the record that thread is writing
    done,           \* per process: fragments of cur already in the file
    flock,          \* the process holding the lock file
    acked,          \* the records whose append() returned
    attempts,       \* append() calls so far
    crashes

vars == <<file, st, raw, seq, holder, cur, done, flock, acked, attempts, crashes>>
proc == <<st, raw, seq, holder, cur, done>>

-----------------------------------------------------------------------------
(* Lines of a file                                                         *)

IsNewline(f, i) == f[i].part = "nl"

\* A line starts the file or follows a newline, and runs to its own newline
\* or to the end of the file (splitlines(keepends=True)).
LineStarts(f) == {i \in DOMAIN f : i = 1 \/ IsNewline(f, i - 1)}

LineEnd(f, i) ==
    CHOOSE j \in i .. Len(f) :
        /\ IsNewline(f, j) \/ j = Len(f)
        /\ \A k \in i .. (j - 1) : ~IsNewline(f, k)

Lines(f) == {<<i, LineEnd(f, i)>> : i \in LineStarts(f)}

\* json.loads accepts the line: one whole record, with or without newline.
Parses(f, b) ==
    /\ b[2] - b[1] \in {1, 2}
    /\ f[b[1]].part = "head" /\ f[b[1] + 1].part = "tail"
    /\ f[b[1]].n = f[b[1] + 1].n
    /\ b[2] = b[1] + 2 => IsNewline(f, b[2])

\* The only line recovery may drop: the last one, cut before its newline.
TornTail(f, b) == b[2] = Len(f) /\ ~IsNewline(f, b[2])

\* "corrupt session journal at record ...": raised on open and on replay.
Corrupt(f) == \E b \in Lines(f) : ~Parses(f, b) /\ ~TornTail(f, b)

NeedsRepair(f) == \E b \in Lines(f) : ~Parses(f, b) /\ TornTail(f, b)

\* Mutant: the tail repair keeps lines[:index - 1].
EndsOneLineEarly(f, k) ==
    /\ k \in 0 .. Len(f)
    /\ k # 0 => IsNewline(f, k)
    /\ Cardinality({i \in (k + 1) .. Len(f) : IsNewline(f, i)}) = 1

\* The prefix b"".join(lines[:index]): everything up to the last newline.
EndsAtLastNewline(f, k) ==
    /\ k \in 0 .. Len(f)
    /\ k # 0 => IsNewline(f, k)
    /\ \A i \in (k + 1) .. Len(f) : ~IsNewline(f, i)

RecordAt(f, i) == [n |-> f[i].n, seq |-> f[i].seq]

\* Where the lines begin that replay_journal applies.
Heads(f) == {i \in LineStarts(f) : Parses(f, <<i, LineEnd(f, i)>>)}

\* The records replay_journal applies, oldest first.
Replayed(f) ==
    LET heads == Heads(f)
        before(i) == {j \in heads : j < i}
    IN  [k \in 1 .. Cardinality(heads) |->
            RecordAt(f, CHOOSE i \in heads : Cardinality(before(i)) = k - 1)]
-----------------------------------------------------------------------------
Init ==
    /\ file = <<>>
    /\ st = [p \in Procs |-> "down"]
    /\ raw = [p \in Procs |-> <<>>]
    /\ seq = [p \in Procs |-> 0]
    /\ holder = [p \in Procs |-> NoOne]
    /\ cur = [p \in Procs |-> [n |-> 0, seq |-> 0]]
    /\ done = [p \in Procs |-> 0]
    /\ flock = NoOne
    /\ acked = {}
    /\ attempts = 0
    /\ crashes = 0

\* Mutant: the lock file is opened but never locked.
OpenUnlocked(p) ==
    /\ st[p] = "down"
    /\ st' = [st EXCEPT ![p] = "locked"]
    /\ UNCHANGED <<file, raw, seq, holder, cur, done, flock, acked, attempts, crashes>>

\* __init__, first half: the non-blocking flock of a session directory.
\* When another process holds it the constructor raises and nothing changes.
OpenLock(p) ==
    /\ st[p] = "down"
    /\ Exclusive => flock = NoOne
    /\ flock' = IF Exclusive THEN p ELSE flock
    /\ st' = [st EXCEPT ![p] = "locked"]
    /\ UNCHANGED <<file, raw, seq, holder, cur, done, acked, attempts, crashes>>

\* _repair_torn_tail on a file with a bad line that is not a torn tail: the
\* constructor raises ValueError and the process ends.
OpenRefused(p) ==
    /\ st[p] = "locked"
    /\ Corrupt(file)
    /\ st' = [st EXCEPT ![p] = "down"]
    /\ flock' = IF flock = p THEN NoOne ELSE flock
    /\ UNCHANGED <<file, raw, seq, holder, cur, done, acked, attempts, crashes>>

\* _repair_torn_tail reads the whole file: nothing to do, or a tail to drop.
OpenIntact(p) ==
    /\ st[p] = "locked"
    /\ ~Corrupt(file) /\ ~NeedsRepair(file)
    /\ st' = [st EXCEPT ![p] = "intact"]
    /\ UNCHANGED <<file, raw, seq, holder, cur, done, flock, acked, attempts, crashes>>

OpenTorn(p) ==
    /\ st[p] = "locked"
    /\ ~Corrupt(file) /\ NeedsRepair(file)
    /\ \E k \in 0 .. Len(file) :
          /\ EndsAtLastNewline(file, k)
          /\ raw' = [raw EXCEPT ![p] = SubSeq(file, 1, k)]
    /\ st' = [st EXCEPT ![p] = "torn"]
    /\ UNCHANGED <<file, seq, holder, cur, done, flock, acked, attempts, crashes>>

\* open("wb") empties the file before the intact prefix is written back.
RepairTruncate(p) ==
    /\ st[p] = "torn"
    /\ file' = <<>>
    /\ st' = [st EXCEPT ![p] = "truncated"]
    /\ UNCHANGED <<raw, seq, holder, cur, done, flock, acked, attempts, crashes>>

RepairRewrite(p) ==
    /\ st[p] = "truncated"
    /\ file' = raw[p]
    /\ raw' = [raw EXCEPT ![p] = <<>>]
    /\ st' = [st EXCEPT ![p] = "intact"]
    /\ UNCHANGED <<seq, holder, cur, done, flock, acked, attempts, crashes>>

\* Mutants: self._seq starts at 0 on every open, or one short.
NumberFromZero(p) ==
    /\ st[p] = "intact"
    /\ seq' = [seq EXCEPT ![p] = 0]
    /\ st' = [st EXCEPT ![p] = "open"]
    /\ UNCHANGED <<file, raw, holder, cur, done, flock, acked, attempts, crashes>>

CountOneShort(p) ==
    /\ st[p] = "intact"
    /\ seq' = [seq EXCEPT ![p] = Cardinality(LineStarts(file)) - 1]
    /\ st' = [st EXCEPT ![p] = "open"]
    /\ UNCHANGED <<file, raw, holder, cur, done, flock, acked, attempts, crashes>>

\* self._seq = self._count_records(): one per non-empty line.
CountRecords(p) ==
    /\ st[p] = "intact"
    /\ seq' = [seq EXCEPT ![p] = Cardinality(LineStarts(file))]
    /\ st' = [st EXCEPT ![p] = "open"]
    /\ UNCHANGED <<file, raw, holder, cur, done, flock, acked, attempts, crashes>>

\* append(): take _append_lock and number the record.
BeginAppend(p, t) ==
    /\ st[p] = "open"
    /\ holder[p] = NoOne
    /\ attempts < MaxAppends
    /\ holder' = [holder EXCEPT ![p] = t]
    /\ attempts' = attempts + 1
    /\ seq' = [seq EXCEPT ![p] = @ + 1]
    /\ cur' = [cur EXCEPT ![p] = [n |-> attempts + 1, seq |-> seq[p] + 1]]
    /\ done' = [done EXCEPT ![p] = 0]
    /\ UNCHANGED <<file, st, raw, flock, acked, crashes>>

\* append(): the next piece of the line reaches the end of the file.
WritePiece(p) ==
    /\ holder[p] # NoOne
    /\ done[p] < 3
    /\ file' = Append(file, Piece(cur[p], done[p] + 1))
    /\ done' = [done EXCEPT ![p] = @ + 1]
    /\ UNCHANGED <<st, raw, seq, holder, cur, flock, acked, attempts, crashes>>

\* append(): fsync returns, the lock is released and the caller goes on.
EndAppend(p) ==
    /\ holder[p] # NoOne
    /\ done[p] = 3
    /\ acked' = acked \cup {cur[p]}
    /\ holder' = [holder EXCEPT ![p] = NoOne]
    /\ UNCHANGED <<file, st, raw, seq, cur, done, flock, attempts, crashes>>

\* append() raises part way: the pieces written stay, the lock is released
\* and the process goes on.
AppendFails(p) ==
    /\ WriteErrors
    /\ holder[p] # NoOne
    /\ holder' = [holder EXCEPT ![p] = NoOne]
    /\ UNCHANGED <<file, st, raw, seq, cur, done, flock, acked, attempts, crashes>>

\* close(), and the process exits.
Close(p) ==
    /\ st[p] = "open"
    /\ holder[p] = NoOne
    /\ st' = [st EXCEPT ![p] = "down"]
    /\ flock' = IF flock = p THEN NoOne ELSE flock
    /\ UNCHANGED <<file, raw, seq, holder, cur, done, acked, attempts, crashes>>

\* The process dies: its memory and its locks go, the file stays.
Crash(p) ==
    /\ st[p] # "down"
    /\ crashes < MaxCrashes
    /\ st[p] = "truncated" => RepairCrash
    /\ holder[p] # NoOne /\ done[p] = 2 => NewlineTear
    /\ crashes' = crashes + 1
    /\ st' = [st EXCEPT ![p] = "down"]
    /\ raw' = [raw EXCEPT ![p] = <<>>]
    /\ holder' = [holder EXCEPT ![p] = NoOne]
    /\ flock' = IF flock = p THEN NoOne ELSE flock
    /\ UNCHANGED <<file, seq, cur, done, acked, attempts>>

Next ==
    \E p \in Procs :
        \/ OpenLock(p) \/ OpenRefused(p) \/ OpenIntact(p) \/ OpenTorn(p)
        \/ RepairTruncate(p) \/ RepairRewrite(p) \/ CountRecords(p)
        \/ \E t \in Threads : BeginAppend(p, t)
        \/ WritePiece(p) \/ EndAppend(p) \/ AppendFails(p)
        \/ Close(p) \/ Crash(p)

Spec == Init /\ [][Next]_vars
-----------------------------------------------------------------------------
(* Correctness                                                             *)

\* Every variable stays in its range.
TypeOK ==
    /\ file \in Seq(Fragment)
    /\ st \in [Procs -> {"down", "locked", "torn", "truncated", "intact", "open"}]
    /\ raw \in [Procs -> Seq(Fragment)]
    /\ seq \in [Procs -> Nat]
    /\ holder \in [Procs -> Threads \cup {NoOne}]
    /\ cur \in [Procs -> Record]
    /\ done \in [Procs -> 0 .. 3]
    /\ flock \in Procs \cup {NoOne}
    /\ acked \subseteq Record
    /\ attempts \in Nat
    /\ crashes \in Nat

\* The whole line of r is in f, in one piece.
Holds(f, r) ==
    \E i \in DOMAIN f :
        /\ i + 2 \in DOMAIN f
        /\ \A k \in 1 .. 3 : f[i + k - 1] = Piece(r, k)

\* A record whose append() returned never leaves the disk, whatever crashes,
\* write errors, tail repairs and reopenings follow: only while a repair has
\* emptied the file is the line in the repairing process's memory instead.
AckedKept ==
    \A r \in acked :
        \/ Holds(file, r)
        \/ \E p \in Procs : st[p] = "truncated" /\ Holds(raw[p], r)

Rewriting == {p \in Procs : st[p] = "truncated"}

\* What a replay of the journal would read once a rewrite under way is over.
log == IF Rewriting = {} THEN Replayed(file)
                         ELSE Replayed(raw[CHOOSE p \in Rewriting : TRUE])

\* Whenever the file can be opened, replay_journal accepts it, and reads every
\* acknowledged record, in the order of the appends, numbered from 1 without
\* a gap or a repetition even across torn tails and restarts.
ReplaySound ==
    Rewriting = {} =>
        LET l == log
        IN  /\ ~Corrupt(file)
            /\ acked \subseteq {l[i] : i \in DOMAIN l}
            /\ \A i \in DOMAIN l : l[i].seq = i
            /\ \A i, j \in DOMAIN l : i < j => l[i].n < l[j].n

\* The module comment of _journal.py: "A torn tail line (crash mid-write) is
\* ignored: it cannot be part of a completed record because every record is a
\* single fsync'd line."  A file the code itself wrote is never corrupt.
TornTailIgnored == Rewriting = {} => ~Corrupt(file)

\* The file implements the append-only log: records only ever join it at the
\* end, and an acknowledged one stays.
Abstract == INSTANCE AppendLog WITH Rec <- [n : 1 .. MaxAppends, seq : 1 .. MaxAppends]
ImplementsLog == Abstract!Spec
=============================================================================
