------------------------- MODULE JournalFileProofs -------------------------
(***************************************************************************)
(* Proofs about JournalFile, for any number of processes, threads, appends *)
(* and crashes: its types, and that an acknowledged record is never lost;  *)
(* and, where nothing but crashes can cut a line, and never exactly before *)
(* its newline, what a replay reads, and that the file implements the      *)
(* append-only log.                                                        *)
(***************************************************************************)
EXTENDS JournalFile, FiniteSetTheorems, TLAPS

\* The lines of a file can be counted.
LEMMA LineCount ==
    ASSUME NEW f \in Seq(Fragment)
    PROVE  Cardinality(LineStarts(f)) \in Nat
<1>1. IsFiniteSet(1 .. Len(f))
  BY FS_Interval, SMT
<1>2. LineStarts(f) \subseteq 1 .. Len(f)
  BY DEF LineStarts
<1>3. IsFiniteSet(LineStarts(f))
  BY <1>1, <1>2, FS_Subset
<1> QED
  BY <1>3, FS_CardinalityType

\* Each piece of a record is a fragment.
LEMMA PieceType ==
    ASSUME NEW r \in Record, NEW k \in 1 .. 3
    PROVE  Piece(r, k) \in Fragment
<1>1. Parts[k] \in {"head", "tail", "nl"}
  BY DEF Parts
<1> QED
  BY <1>1 DEF Piece, Record, Fragment

\* What a write adds to the file is the next piece of the record.
LEMMA NextPiece ==
    ASSUME TypeOK, NEW p \in Procs, WritePiece(p)
    PROVE  done[p] + 1 \in 1 .. 3 /\ Piece(cur[p], done[p] + 1) \in Fragment
<1>1. done[p] \in 0 .. 3 /\ done[p] < 3
  BY DEF TypeOK, WritePiece
<1>2. done[p] + 1 \in 1 .. 3
  BY <1>1
<1>3. cur[p] \in Record
  BY DEF TypeOK
<1> QED
  BY <1>2, <1>3, PieceType

LEMMA TypeStep == TypeOK /\ [Next]_vars => TypeOK'
<1> SUFFICES ASSUME TypeOK, [Next]_vars
             PROVE  TypeOK'
  OBVIOUS
<1> USE DEF TypeOK
<1>1. CASE UNCHANGED vars
  BY <1>1 DEF vars
<1>2. ASSUME NEW p \in Procs, OpenLock(p)
      PROVE  TypeOK'
  BY <1>2 DEF OpenLock
<1>3. ASSUME NEW p \in Procs, OpenRefused(p)
      PROVE  TypeOK'
  BY <1>3 DEF OpenRefused
<1>4. ASSUME NEW p \in Procs, OpenIntact(p)
      PROVE  TypeOK'
  BY <1>4 DEF OpenIntact
<1>5. ASSUME NEW p \in Procs, OpenTorn(p)
      PROVE  TypeOK'
  <2>1. PICK k \in 0 .. Len(file) : raw' = [raw EXCEPT ![p] = SubSeq(file, 1, k)]
    BY <1>5 DEF OpenTorn
  <2>2. SubSeq(file, 1, k) \in Seq(Fragment)
    OBVIOUS
  <2> QED
    BY <1>5, <2>1, <2>2 DEF OpenTorn
<1>6. ASSUME NEW p \in Procs, RepairTruncate(p)
      PROVE  TypeOK'
  BY <1>6 DEF RepairTruncate
<1>7. ASSUME NEW p \in Procs, RepairRewrite(p)
      PROVE  TypeOK'
  BY <1>7 DEF RepairRewrite
<1>8. ASSUME NEW p \in Procs, CountRecords(p)
      PROVE  TypeOK'
  <2>1. Cardinality(LineStarts(file)) \in Nat
    BY LineCount
  <2> QED
    BY <1>8, <2>1 DEF CountRecords
<1>9. ASSUME NEW p \in Procs, NEW t \in Threads, BeginAppend(p, t)
      PROVE  TypeOK'
  BY <1>9 DEF BeginAppend, Record
<1>10. ASSUME NEW p \in Procs, WritePiece(p)
       PROVE  TypeOK'
  <2>1. file' \in Seq(Fragment)
    <3>1. Piece(cur[p], done[p] + 1) \in Fragment
      BY <1>10, NextPiece
    <3> QED
      BY <1>10, <3>1 DEF WritePiece
  <2>2. done[p] + 1 \in 0 .. 3
    BY <1>10, NextPiece
  <2>3. done' \in [Procs -> 0 .. 3]
    BY <1>10, <2>2 DEF WritePiece
  <2> QED
    BY <1>10, <2>1, <2>3 DEF WritePiece
<1>11. ASSUME NEW p \in Procs, EndAppend(p)
       PROVE  TypeOK'
  BY <1>11 DEF EndAppend
<1>12. ASSUME NEW p \in Procs, AppendFails(p)
       PROVE  TypeOK'
  BY <1>12 DEF AppendFails
<1>13. ASSUME NEW p \in Procs, Close(p)
       PROVE  TypeOK'
  BY <1>13 DEF Close
<1>14. ASSUME NEW p \in Procs, Crash(p)
       PROVE  TypeOK'
  BY <1>14 DEF Crash
<1> QED
  BY <1>1, <1>2, <1>3, <1>4, <1>5, <1>6, <1>7, <1>8, <1>9, <1>10, <1>11,
     <1>12, <1>13, <1>14 DEF Next

\* Every variable of the journal file keeps its type, for every number of
\* processes and threads and in every environment.
THEOREM TypeCorrect == Spec => []TypeOK
<1>1. Init => TypeOK
  BY DEF Init, TypeOK, Record
<1>2. TypeOK /\ [Next]_vars => TypeOK'
  BY TypeStep
<1> QED
  BY <1>1, <1>2, PTL DEF Spec
-----------------------------------------------------------------------------
(* An acknowledged record is never lost                                    *)

\* One process at a time has the journal open: the lock file of a session
\* directory sees to it, or only one process ever resumes the session.
OneWriter == Exclusive \/ \A p, q \in Procs : p = q

\* The lock file belongs to the process that has the journal open.
Locked ==
    /\ Exclusive => \A p \in Procs : st[p] # "down" => flock = p
    /\ \A p, q \in Procs : st[p] # "down" /\ st[q] # "down" => p = q

\* A thread is inside append() only while its process has the journal open,
\* and the pieces it has written are the end of the file.
Writing ==
    \A p \in Procs : holder[p] # NoOne =>
        /\ st[p] = "open"
        /\ done[p] <= Len(file)
        /\ \A k \in 1 .. done[p] : file[Len(file) - done[p] + k] = Piece(cur[p], k)

\* The prefix a repair is about to write back holds every acknowledged line.
Saved ==
    \A p \in Procs : st[p] \in {"torn", "truncated"} =>
        \A r \in acked : Holds(raw[p], r)

IInv == TypeOK /\ Locked /\ Writing /\ Saved /\ AckedKept

LEMMA AppendHolds ==
    ASSUME NEW f \in Seq(Fragment), NEW x \in Fragment, NEW r, Holds(f, r)
    PROVE  Holds(Append(f, x), r)
<1>1. PICK i \in DOMAIN f : i + 2 \in DOMAIN f /\ \A k \in 1 .. 3 : f[i + k - 1] = Piece(r, k)
  BY DEF Holds
<1>2. i \in DOMAIN Append(f, x) /\ i + 2 \in DOMAIN Append(f, x)
  BY <1>1
<1>3. ASSUME NEW k \in 1 .. 3
      PROVE  Append(f, x)[i + k - 1] = f[i + k - 1]
  BY <1>1
<1> QED
  BY <1>1, <1>2, <1>3 DEF Holds

\* Dropping what follows the last newline drops no complete line.
LEMMA RepairHolds ==
    ASSUME NEW f \in Seq(Fragment), NEW k \in 0 .. Len(f), EndsAtLastNewline(f, k),
           NEW r, Holds(f, r)
    PROVE  Holds(SubSeq(f, 1, k), r)
<1> DEFINE g == SubSeq(f, 1, k)
<1>1. PICK i \in DOMAIN f : i + 2 \in DOMAIN f /\ \A j \in 1 .. 3 : f[i + j - 1] = Piece(r, j)
  BY DEF Holds
<1>2. f[i + 2] = Piece(r, 3)
  <2>1. f[i + 3 - 1] = Piece(r, 3)
    BY <1>1
  <2> QED
    BY <1>1, <2>1
<1>3. IsNewline(f, i + 2)
  BY <1>2 DEF IsNewline, Piece, Parts
<1>4. i + 2 <= k
  BY <1>1, <1>3 DEF EndsAtLastNewline
<1>5. /\ Len(g) = k
      /\ \A m \in 1 .. k : g[m] = f[m]
  OBVIOUS
<1>6. i \in DOMAIN g /\ i + 2 \in DOMAIN g
  BY <1>1, <1>4, <1>5
<1>7. ASSUME NEW j \in 1 .. 3
      PROVE  g[i + j - 1] = Piece(r, j)
  BY <1>1, <1>4, <1>5
<1> QED
  BY <1>6, <1>7 DEF Holds

LEMMA SafeInit == Init => IInv
BY DEF Init, IInv, TypeOK, Record, Locked, Writing, Saved, AckedKept

\* Opening and closing moves the lock file with the process.
LEMMA LockedStep ==
    ASSUME OneWriter, IInv, [Next]_vars
    PROVE  Locked'
<1> USE NoOneAssumption DEF IInv, TypeOK, Locked
<1>1. CASE UNCHANGED vars
  BY <1>1 DEF vars
<1>2. ASSUME NEW p \in Procs, OpenLock(p)
      PROVE  Locked'
  <2>1. CASE Exclusive
    BY <1>2, <2>1 DEF OpenLock
  <2>2. CASE ~Exclusive
    BY <1>2, <2>2 DEF OpenLock, OneWriter
  <2> QED
    BY <2>1, <2>2
<1>3. ASSUME NEW p \in Procs, OpenRefused(p)
      PROVE  Locked'
  BY <1>3 DEF OpenRefused
<1>4. ASSUME NEW p \in Procs, OpenIntact(p)
      PROVE  Locked'
  BY <1>4 DEF OpenIntact
<1>5. ASSUME NEW p \in Procs, OpenTorn(p)
      PROVE  Locked'
  BY <1>5 DEF OpenTorn
<1>6. ASSUME NEW p \in Procs, RepairTruncate(p)
      PROVE  Locked'
  BY <1>6 DEF RepairTruncate
<1>7. ASSUME NEW p \in Procs, RepairRewrite(p)
      PROVE  Locked'
  BY <1>7 DEF RepairRewrite
<1>8. ASSUME NEW p \in Procs, CountRecords(p)
      PROVE  Locked'
  BY <1>8 DEF CountRecords
<1>9. ASSUME NEW p \in Procs, NEW t \in Threads, BeginAppend(p, t)
      PROVE  Locked'
  BY <1>9 DEF BeginAppend
<1>10. ASSUME NEW p \in Procs, WritePiece(p) \/ EndAppend(p) \/ AppendFails(p)
       PROVE  Locked'
  BY <1>10 DEF WritePiece, EndAppend, AppendFails
<1>11. ASSUME NEW p \in Procs, Close(p)
       PROVE  Locked'
  BY <1>11 DEF Close
<1>12. ASSUME NEW p \in Procs, Crash(p)
       PROVE  Locked'
  BY <1>12 DEF Crash
<1> QED
  BY <1>1, <1>2, <1>3, <1>4, <1>5, <1>6, <1>7, <1>8, <1>9, <1>10, <1>11,
     <1>12 DEF Next

\* Only the thread inside append() extends the file, one piece after another.
LEMMA WritingStep ==
    ASSUME IInv, [Next]_vars
    PROVE  Writing'
<1> USE NoOneAssumption DEF IInv, TypeOK, Locked, Writing
<1>1. CASE UNCHANGED vars
  BY <1>1 DEF vars
<1>2. ASSUME NEW p \in Procs, OpenLock(p) \/ OpenRefused(p) \/ OpenIntact(p)
      PROVE  Writing'
  BY <1>2 DEF OpenLock, OpenRefused, OpenIntact
<1>3. ASSUME NEW p \in Procs, OpenTorn(p)
      PROVE  Writing'
  BY <1>3 DEF OpenTorn
<1>4. ASSUME NEW p \in Procs, RepairTruncate(p)
      PROVE  Writing'
  BY <1>4 DEF RepairTruncate
<1>5. ASSUME NEW p \in Procs, RepairRewrite(p)
      PROVE  Writing'
  BY <1>5 DEF RepairRewrite
<1>6. ASSUME NEW p \in Procs, CountRecords(p)
      PROVE  Writing'
  BY <1>6 DEF CountRecords
<1>7. ASSUME NEW p \in Procs, NEW t \in Threads, BeginAppend(p, t)
      PROVE  Writing'
  <2> SUFFICES ASSUME NEW q \in Procs, holder'[q] # NoOne
               PROVE  /\ st'[q] = "open"
                      /\ done'[q] <= Len(file')
                      /\ \A k \in 1 .. done'[q] :
                            file'[Len(file') - done'[q] + k] = Piece(cur'[q], k)
    OBVIOUS
  <2>1. CASE q = p
    BY <1>7, <2>1 DEF BeginAppend
  <2>2. CASE q # p
    BY <1>7, <2>2 DEF BeginAppend
  <2> QED
    BY <2>1, <2>2
<1>8. ASSUME NEW p \in Procs, WritePiece(p)
      PROVE  Writing'
  <2> SUFFICES ASSUME NEW q \in Procs, holder'[q] # NoOne
               PROVE  /\ st'[q] = "open"
                      /\ done'[q] <= Len(file')
                      /\ \A k \in 1 .. done'[q] :
                            file'[Len(file') - done'[q] + k] = Piece(cur'[q], k)
    OBVIOUS
  <2>1. q = p /\ st[p] = "open"
    BY <1>8 DEF WritePiece
  <2>2. /\ Len(file') = Len(file) + 1
        /\ \A i \in 1 .. Len(file) : file'[i] = file[i]
        /\ file'[Len(file) + 1] = Piece(cur[p], done[p] + 1)
    BY <1>8 DEF WritePiece
  <2>3. done'[p] = done[p] + 1 /\ cur' = cur /\ st' = st /\ done[p] \in 0 .. 2
    BY <1>8 DEF WritePiece
  <2>4. done[p] <= Len(file) /\ Len(file) \in Nat
    BY <1>8 DEF WritePiece
  <2>5. ASSUME NEW k \in 1 .. done'[p]
        PROVE  file'[Len(file') - done'[p] + k] = Piece(cur'[p], k)
    <3>1. CASE k = done[p] + 1
      BY <2>2, <2>3, <2>4, <3>1
    <3>2. CASE k \in 1 .. done[p]
      <4>1. file[Len(file) - done[p] + k] = Piece(cur[p], k)
        BY <1>8, <3>2 DEF WritePiece
      <4>2. Len(file) - done[p] + k \in 1 .. Len(file)
        BY <2>3, <2>4, <3>2
      <4>3. Len(file') - done'[p] + k = Len(file) - done[p] + k
        BY <2>2, <2>3, <2>4
      <4> QED
        BY <2>2, <2>3, <4>1, <4>2, <4>3
    <3> QED
      BY <2>3, <3>1, <3>2
  <2> QED
    BY <2>1, <2>2, <2>3, <2>4, <2>5
<1>9. ASSUME NEW p \in Procs, EndAppend(p) \/ AppendFails(p)
      PROVE  Writing'
  BY <1>9 DEF EndAppend, AppendFails
<1>10. ASSUME NEW p \in Procs, Close(p) \/ Crash(p)
       PROVE  Writing'
  BY <1>10 DEF Close, Crash
<1> QED
  BY <1>1, <1>2, <1>3, <1>4, <1>5, <1>6, <1>7, <1>8, <1>9, <1>10 DEF Next

\* The third piece of a record completes its line.
LEMMA WrittenHolds ==
    ASSUME IInv, NEW p \in Procs, holder[p] # NoOne, done[p] = 3
    PROVE  Holds(file, cur[p])
<1> DEFINE i == Len(file) - 2
<1>1. /\ 3 <= Len(file)
      /\ \A k \in 1 .. 3 : file[Len(file) - 3 + k] = Piece(cur[p], k)
  BY DEF IInv, Writing
<1>2. i \in DOMAIN file /\ i + 2 \in DOMAIN file
  BY <1>1 DEF IInv, TypeOK
<1>3. ASSUME NEW k \in 1 .. 3
      PROVE  file[i + k - 1] = Piece(cur[p], k)
  <2>1. i + k - 1 = Len(file) - 3 + k
    BY <1>2
  <2> QED
    BY <1>1, <2>1
<1> QED
  BY <1>2, <1>3 DEF Holds

LEMMA SavedStep ==
    ASSUME IInv, [Next]_vars
    PROVE  Saved'
<1> USE DEF IInv, TypeOK, Locked, Saved
<1>1. CASE UNCHANGED vars
  BY <1>1 DEF vars
<1>2. ASSUME NEW p \in Procs, OpenLock(p) \/ OpenRefused(p) \/ OpenIntact(p)
      PROVE  Saved'
  BY <1>2 DEF OpenLock, OpenRefused, OpenIntact
<1>3. ASSUME NEW p \in Procs, OpenTorn(p)
      PROVE  Saved'
  <2>1. PICK k \in 0 .. Len(file) : /\ EndsAtLastNewline(file, k)
                                    /\ raw' = [raw EXCEPT ![p] = SubSeq(file, 1, k)]
    BY <1>3 DEF OpenTorn
  <2>2. ASSUME NEW r \in acked
        PROVE  Holds(raw'[p], r)
    <3>1. Holds(file, r)
      BY <1>3, <2>2 DEF OpenTorn, AckedKept
    <3> QED
      BY <2>1, <3>1, RepairHolds
  <2> QED
    BY <1>3, <2>1, <2>2 DEF OpenTorn
<1>4. ASSUME NEW p \in Procs, RepairTruncate(p) \/ RepairRewrite(p) \/ CountRecords(p)
      PROVE  Saved'
  BY <1>4 DEF RepairTruncate, RepairRewrite, CountRecords
<1>5. ASSUME NEW p \in Procs, NEW t \in Threads, BeginAppend(p, t)
      PROVE  Saved'
  BY <1>5 DEF BeginAppend
<1>6. ASSUME NEW p \in Procs, WritePiece(p) \/ AppendFails(p)
      PROVE  Saved'
  BY <1>6 DEF WritePiece, AppendFails
<1>7. ASSUME NEW p \in Procs, EndAppend(p)
      PROVE  Saved'
  <2>1. st[p] = "open"
    BY <1>7 DEF EndAppend, Writing
  <2>2. \A q \in Procs : st[q] \notin {"torn", "truncated"}
    BY <2>1
  <2> QED
    BY <1>7, <2>2 DEF EndAppend
<1>8. ASSUME NEW p \in Procs, Close(p) \/ Crash(p)
      PROVE  Saved'
  BY <1>8 DEF Close, Crash
<1> QED
  BY <1>1, <1>2, <1>3, <1>4, <1>5, <1>6, <1>7, <1>8 DEF Next

LEMMA AckedStep ==
    ASSUME ~RepairCrash, IInv, [Next]_vars
    PROVE  AckedKept'
<1> USE DEF IInv, TypeOK, Locked, AckedKept
<1>1. CASE UNCHANGED vars
  BY <1>1 DEF vars
<1>2. ASSUME NEW p \in Procs,
             OpenLock(p) \/ OpenRefused(p) \/ OpenIntact(p) \/ CountRecords(p)
      PROVE  AckedKept'
  <2>1. file' = file /\ raw' = raw /\ acked' = acked
    BY <1>2 DEF OpenLock, OpenRefused, OpenIntact, CountRecords
  <2>2. \A q \in Procs : st[q] = "truncated" => st'[q] = "truncated"
    BY <1>2 DEF OpenLock, OpenRefused, OpenIntact, CountRecords
  <2> QED
    BY <2>1, <2>2
<1>3. ASSUME NEW p \in Procs, OpenTorn(p)
      PROVE  AckedKept'
  BY <1>3 DEF OpenTorn
<1>4. ASSUME NEW p \in Procs, RepairTruncate(p)
      PROVE  AckedKept'
  BY <1>4 DEF RepairTruncate, Saved
<1>5. ASSUME NEW p \in Procs, RepairRewrite(p)
      PROVE  AckedKept'
  BY <1>5 DEF RepairRewrite, Saved
<1>6. ASSUME NEW p \in Procs, NEW t \in Threads, BeginAppend(p, t)
      PROVE  AckedKept'
  BY <1>6 DEF BeginAppend
<1>7. ASSUME NEW p \in Procs, WritePiece(p)
      PROVE  AckedKept'
  <2>1. Piece(cur[p], done[p] + 1) \in Fragment
    BY <1>7, NextPiece
  <2>2. ASSUME NEW r \in acked, Holds(file, r)
        PROVE  Holds(file', r)
    BY <1>7, <2>1, <2>2, AppendHolds DEF WritePiece
  <2> QED
    BY <1>7, <2>2 DEF WritePiece
<1>8. ASSUME NEW p \in Procs, EndAppend(p)
      PROVE  AckedKept'
  <2>1. Holds(file, cur[p])
    BY <1>8, WrittenHolds DEF EndAppend
  <2> QED
    BY <1>8, <2>1 DEF EndAppend
<1>9. ASSUME NEW p \in Procs, AppendFails(p)
      PROVE  AckedKept'
  BY <1>9 DEF AppendFails
<1>10. ASSUME NEW p \in Procs, Close(p)
       PROVE  AckedKept'
  BY <1>10 DEF Close
<1>11. ASSUME NEW p \in Procs, Crash(p)
       PROVE  AckedKept'
  BY <1>11 DEF Crash
<1> QED
  BY <1>1, <1>2, <1>3, <1>4, <1>5, <1>6, <1>7, <1>8, <1>9, <1>10, <1>11 DEF Next

LEMMA SafeStep ==
    ASSUME OneWriter, ~RepairCrash, IInv, [Next]_vars
    PROVE  IInv'
<1>1. TypeOK'
  BY TypeStep DEF IInv
<1> QED
  BY <1>1, LockedStep, WritingStep, SavedStep, AckedStep DEF IInv

\* A record whose append() returned stays in the journal, for every number of
\* processes and threads, through crashes that cut any line anywhere, failing
\* appends and tail repairs: the only ways to lose one are two processes with
\* the journal open at once, and a crash between the two writes of a repair.
THEOREM AckedNeverLost ==
    ASSUME OneWriter, ~RepairCrash
    PROVE  Spec => []AckedKept
<1>1. Init => IInv
  BY SafeInit
<1>2. IInv /\ [Next]_vars => IInv'
  BY SafeStep
<1>3. IInv => AckedKept
  BY DEF IInv
<1> QED
  BY <1>1, <1>2, <1>3, PTL DEF Spec
-----------------------------------------------------------------------------
(* A file of whole records, the last one perhaps unfinished                *)

\* Record k takes the places 3k - 2 .. 3k and has the number k.
Shaped(f) ==
    \A k \in 1 .. Len(f) : \A j \in 1 .. 3 :
        3*k - 3 + j <= Len(f) =>
            f[3*k - 3 + j] = Piece([n |-> f[3*k - 2].n, seq |-> k], j)

LEMMA ShapedAt ==
    ASSUME NEW f, Shaped(f), NEW k \in 1 .. Len(f), NEW j \in 1 .. 3, 3*k - 3 + j <= Len(f)
    PROVE  f[3*k - 3 + j] = Piece([n |-> f[3*k - 2].n, seq |-> k], j)
BY DEF Shaped

Progression(m) == {3*k - 2 : k \in 1 .. m}

\* Every place belongs to one piece of one record.
LEMMA Places ==
    ASSUME NEW l \in Nat, NEW i \in 1 .. l
    PROVE  \E k \in 1 .. l, j \in 1 .. 3 : i = 3*k - 3 + j
<1> DEFINE k == (i + 2) \div 3
           j == i - 3*k + 3
<1>1. k \in 1 .. l /\ j \in 1 .. 3 /\ i = 3*k - 3 + j
  BY SMT
<1> QED
  BY <1>1

\* The newlines are the third pieces.
LEMMA Newlines ==
    ASSUME NEW f \in Seq(Fragment), Shaped(f), NEW i \in DOMAIN f
    PROVE  IsNewline(f, i) <=> \E k \in 1 .. Len(f) : i = 3*k
<1>1. PICK k \in 1 .. Len(f), j \in 1 .. 3 : i = 3*k - 3 + j
  <2>1. Len(f) \in Nat /\ i \in 1 .. Len(f)
    OBVIOUS
  <2> QED
    BY <2>1, Places
<1>2. f[i].part = Parts[j]
  <2>1. f[3*k - 3 + j] = Piece([n |-> f[3*k - 2].n, seq |-> k], j)
    BY <1>1 DEF Shaped
  <2> QED
    BY <1>1, <2>1 DEF Piece
<1>3. IsNewline(f, i) <=> j = 3
  BY <1>2 DEF IsNewline, Parts
<1>4. j = 3 <=> \E m \in 1 .. Len(f) : i = 3*m
  BY <1>1
<1> QED
  BY <1>3, <1>4

\* The lines start at the first pieces.
LEMMA Starts ==
    ASSUME NEW f \in Seq(Fragment), Shaped(f), NEW i
    PROVE  i \in LineStarts(f) <=> \E k \in 1 .. Len(f) : i = 3*k - 2 /\ i <= Len(f)
<1>1. ASSUME i \in LineStarts(f)
      PROVE  \E k \in 1 .. Len(f) : i = 3*k - 2 /\ i <= Len(f)
  <2>1. i \in 1 .. Len(f)
    BY <1>1 DEF LineStarts
  <2>2. CASE i = 1
    <3>1. 1 \in 1 .. Len(f) /\ i = 3*1 - 2
      BY <2>1, <2>2
    <3> QED
      BY <2>1, <3>1
  <2>3. CASE i # 1
    <3>1. i - 1 \in DOMAIN f /\ IsNewline(f, i - 1)
      BY <1>1, <2>1, <2>3 DEF LineStarts
    <3>2. PICK k \in 1 .. Len(f) : i - 1 = 3*k
      BY <3>1, Newlines
    <3>3. k + 1 \in 1 .. Len(f) /\ i = 3*(k + 1) - 2
      BY <2>1, <3>2
    <3> QED
      BY <2>1, <3>3
  <2> QED
    BY <2>2, <2>3
<1>2. ASSUME NEW k \in 1 .. Len(f), i = 3*k - 2, i <= Len(f)
      PROVE  i \in LineStarts(f)
  <2>1. i \in DOMAIN f
    BY <1>2
  <2>2. CASE k = 1
    BY <1>2, <2>1, <2>2 DEF LineStarts
  <2>3. CASE k # 1
    <3>1. k - 1 \in 1 .. Len(f) /\ i - 1 = 3*(k - 1) /\ i - 1 \in DOMAIN f
      BY <1>2, <2>3
    <3>2. IsNewline(f, i - 1)
      BY <3>1, Newlines
    <3> QED
      BY <2>1, <3>2 DEF LineStarts
  <2> QED
    BY <2>2, <2>3
<1> QED
  BY <1>1, <1>2

\* A line ends at its newline, or where the file ends before it.
LEMMA Ends ==
    ASSUME NEW f \in Seq(Fragment), Shaped(f), NEW k \in 1 .. Len(f), 3*k - 2 <= Len(f)
    PROVE  LineEnd(f, 3*k - 2) = IF 3*k <= Len(f) THEN 3*k ELSE Len(f)
<1> DEFINE i == 3*k - 2
           e == IF 3*k <= Len(f) THEN 3*k ELSE Len(f)
           End(j) == /\ IsNewline(f, j) \/ j = Len(f)
                     /\ \A m \in i .. (j - 1) : ~IsNewline(f, m)
<1>1. e \in i .. Len(f)
  OBVIOUS
<1>2. \A m \in i .. Len(f) : IsNewline(f, m) => m >= 3*k
  <2> SUFFICES ASSUME NEW m \in i .. Len(f), IsNewline(f, m)
               PROVE  m >= 3*k
    OBVIOUS
  <2>1. PICK l \in 1 .. Len(f) : m = 3*l
    BY Newlines
  <2> QED
    BY <2>1
<1>3. 3*k <= Len(f) => IsNewline(f, 3*k)
  BY Newlines
<1>4. End(e)
  BY <1>1, <1>2, <1>3
<1>5. ASSUME NEW j \in i .. Len(f), End(j)
      PROVE  j = e
  <2>1. CASE 3*k <= Len(f)
    BY <1>2, <1>3, <1>5, <2>1
  <2>2. CASE ~(3*k <= Len(f))
    BY <1>2, <1>5, <2>2
  <2> QED
    BY <2>1, <2>2
<1>6. LineEnd(f, i) = CHOOSE j \in i .. Len(f) : End(j)
  BY DEF LineEnd
<1> HIDE DEF End
<1> QED
  BY <1>1, <1>4, <1>5, <1>6

\* A line can be read as soon as its second piece is there.
LEMMA Readable ==
    ASSUME NEW f \in Seq(Fragment), Shaped(f), NEW k \in 1 .. Len(f), 3*k - 2 <= Len(f)
    PROVE  Parses(f, <<3*k - 2, LineEnd(f, 3*k - 2)>>) <=> 3*k - 1 <= Len(f)
<1> DEFINE e == LineEnd(f, 3*k - 2)
<1>1. e = IF 3*k <= Len(f) THEN 3*k ELSE Len(f)
  BY Ends
<1>2. CASE 3*k - 2 = Len(f)
  <2>1. e - (3*k - 2) = 0
    BY <1>1, <1>2
  <2> QED
    BY <1>2, <2>1 DEF Parses
<1>3. CASE 3*k - 1 <= Len(f)
  <2>1. e - (3*k - 2) \in {1, 2}
    BY <1>1, <1>3
  <2>2. f[3*k - 2] = Piece([n |-> f[3*k - 2].n, seq |-> k], 1)
    <3>1. f[3*k - 3 + 1] = Piece([n |-> f[3*k - 2].n, seq |-> k], 1)
      BY DEF Shaped
    <3> QED
      BY <3>1
  <2>3. f[3*k - 2 + 1] = Piece([n |-> f[3*k - 2].n, seq |-> k], 2)
    <3>1. f[3*k - 3 + 2] = Piece([n |-> f[3*k - 2].n, seq |-> k], 2)
      BY <1>3 DEF Shaped
    <3> QED
      BY <3>1
  <2>4. /\ f[3*k - 2].part = "head" /\ f[3*k - 2 + 1].part = "tail"
        /\ f[3*k - 2].n = f[3*k - 2 + 1].n
    BY <2>2, <2>3 DEF Piece, Parts
  <2>5. e = 3*k - 2 + 2 => IsNewline(f, e)
    <3> SUFFICES ASSUME e = 3*k
                 PROVE  IsNewline(f, e)
      OBVIOUS
    <3>1. 3*k <= Len(f)
      BY <1>1
    <3> QED
      BY <3>1, Newlines
  <2> QED
    BY <1>3, <2>1, <2>4, <2>5 DEF Parses
<1> QED
  BY <1>2, <1>3

\* The lines that are read are those of the records whose second piece is there.
LEMMA HeadsAre ==
    ASSUME NEW f \in Seq(Fragment), Shaped(f),
           NEW c \in Nat, 3*c - 1 <= Len(f), Len(f) <= 3*c + 1
    PROVE  Heads(f) = Progression(c)
<1>1. ASSUME NEW i \in Heads(f)
      PROVE  i \in Progression(c)
  <2>1. i \in LineStarts(f) /\ Parses(f, <<i, LineEnd(f, i)>>)
    BY DEF Heads
  <2>2. PICK k \in 1 .. Len(f) : i = 3*k - 2 /\ i <= Len(f)
    BY <2>1, Starts
  <2>3. 3*k - 1 <= Len(f)
    BY <2>1, <2>2, Readable
  <2>4. k \in 1 .. c
    BY <2>3
  <2> QED
    BY <2>2, <2>4 DEF Progression
<1>2. ASSUME NEW i \in Progression(c)
      PROVE  i \in Heads(f)
  <2>1. PICK k \in 1 .. c : i = 3*k - 2
    BY DEF Progression
  <2>2. k \in 1 .. Len(f) /\ 3*k - 1 <= Len(f) /\ i <= Len(f)
    BY <2>1
  <2>3. i \in LineStarts(f)
    BY <2>1, <2>2, Starts
  <2>4. Parses(f, <<i, LineEnd(f, i)>>)
    BY <2>1, <2>2, Readable
  <2> QED
    BY <2>3, <2>4 DEF Heads
<1> QED
  BY <1>1, <1>2

LEMMA ProgressionCount ==
    ASSUME NEW m \in Nat
    PROVE  Cardinality(Progression(m)) = m
<1> DEFINE g == [k \in 1 .. m |-> 3*k - 2]
<1>1. g \in Bijection(1 .. m, Progression(m))
  <2>1. g \in [1 .. m -> Progression(m)]
    BY DEF Progression
  <2>2. \A x, y \in 1 .. m : g[x] = g[y] => x = y
    OBVIOUS
  <2>3. \A i \in Progression(m) : \E x \in 1 .. m : g[x] = i
    BY DEF Progression
  <2> HIDE DEF g
  <2> QED
    BY <2>1, <2>2, <2>3 DEF Bijection, Injection, Surjection, IsInjective
<1>2. ExistsBijection(1 .. m, Progression(m))
  BY <1>1 DEF ExistsBijection
<1> QED
  BY <1>2, FS_CountingElements

\* What a replay reads: one record per line that can be read, in their order.
LEMMA ReplayedIs ==
    ASSUME NEW f \in Seq(Fragment), Shaped(f),
           NEW c \in Nat, 3*c - 1 <= Len(f), Len(f) <= 3*c + 1
    PROVE  Replayed(f) = [k \in 1 .. c |-> RecordAt(f, 3*k - 2)]
<1> DEFINE before(i) == {j \in Heads(f) : j < i}
           at(k) == CHOOSE i \in Heads(f) : Cardinality(before(i)) = k - 1
<1>1. Heads(f) = Progression(c)
  BY HeadsAre
<1>2. Cardinality(Heads(f)) = c
  BY <1>1, ProgressionCount
<1>3. ASSUME NEW k \in 1 .. c
      PROVE  Cardinality(before(3*k - 2)) = k - 1
  <2>1. before(3*k - 2) = Progression(k - 1)
    <3>1. before(3*k - 2) = {j \in Progression(c) : j < 3*k - 2}
      BY <1>1
    <3>2. ASSUME NEW j \in Progression(c), j < 3*k - 2
          PROVE  j \in Progression(k - 1)
      BY <3>2 DEF Progression
    <3>3. ASSUME NEW j \in Progression(k - 1)
          PROVE  j \in Progression(c) /\ j < 3*k - 2
      BY <3>3 DEF Progression
    <3> QED
      BY <3>1, <3>2, <3>3
  <2>2. k - 1 \in Nat
    OBVIOUS
  <2> QED
    BY <2>1, <2>2, ProgressionCount
<1>4. ASSUME NEW k \in 1 .. c
      PROVE  at(k) = 3*k - 2
  <2>1. 3*k - 2 \in Heads(f)
    BY <1>1 DEF Progression
  <2>2. ASSUME NEW i \in Heads(f), Cardinality(before(i)) = k - 1
        PROVE  i = 3*k - 2
    <3>1. PICK l \in 1 .. c : i = 3*l - 2
      BY <1>1 DEF Progression
    <3>2. Cardinality(before(i)) = l - 1
      BY <1>3, <3>1
    <3> QED
      BY <2>2, <3>1, <3>2
  <2>3. Cardinality(before(3*k - 2)) = k - 1
    BY <1>3
  <2> HIDE DEF before
  <2> QED
    BY <2>1, <2>2, <2>3
<1>5. Replayed(f) = [k \in 1 .. c |-> RecordAt(f, at(k))]
  BY <1>2 DEF Replayed
<1> HIDE DEF at
<1> QED
  BY <1>4, <1>5

\* Every such file has a number of lines that can be read.
LEMMA CountOf ==
    ASSUME NEW l \in Nat
    PROVE  \E c \in Nat : 3*c - 1 <= l /\ l <= 3*c + 1
<1> DEFINE c == (l + 1) \div 3
<1>1. c \in Nat /\ 3*c - 1 <= l /\ l <= 3*c + 1
  BY SMT
<1> QED
  BY <1>1

\* No line of it is corrupt.
LEMMA NotCorrupt ==
    ASSUME NEW f \in Seq(Fragment), Shaped(f)
    PROVE  ~Corrupt(f)
<1> SUFFICES ASSUME NEW b \in Lines(f), ~Parses(f, b)
             PROVE  TornTail(f, b)
  BY DEF Corrupt
<1>1. PICK i \in LineStarts(f) : b = <<i, LineEnd(f, i)>>
  BY DEF Lines
<1>2. PICK k \in 1 .. Len(f) : i = 3*k - 2 /\ i <= Len(f)
  BY <1>1, Starts
<1>3. Len(f) = 3*k - 2
  <2>1. ~Parses(f, <<3*k - 2, LineEnd(f, 3*k - 2)>>)
    BY <1>1, <1>2
  <2>2. 3*k - 2 <= Len(f)
    BY <1>2
  <2>3. ~(3*k - 1 <= Len(f))
    BY <2>1, <2>2, Readable
  <2> QED
    BY <2>2, <2>3
<1>4. b[2] = Len(f)
  <2>1. LineEnd(f, 3*k - 2) = Len(f)
    <3>1. 3*k - 2 <= Len(f) /\ ~(3*k <= Len(f))
      BY <1>3
    <3>2. LineEnd(f, 3*k - 2) = IF 3*k <= Len(f) THEN 3*k ELSE Len(f)
      BY <3>1, Ends
    <3> QED
      BY <3>1, <3>2
  <2> QED
    BY <1>1, <1>2, <2>1
<1>5. ~IsNewline(f, Len(f))
  <2>1. Len(f) \in DOMAIN f /\ \A m \in 1 .. Len(f) : Len(f) # 3*m
    BY <1>3
  <2>2. \A i1 \in DOMAIN f : IsNewline(f, i1) <=> \E m \in 1 .. Len(f) : i1 = 3*m
    BY Newlines
  <2> QED
    BY <2>1, <2>2
<1> QED
  BY <1>4, <1>5 DEF TornTail
-----------------------------------------------------------------------------
(* The file is always of that kind                                         *)

\* Whole records in the order of their append() calls, the last of them the m-th.
Tidy(f, m) ==
    /\ Shaped(f)
    /\ \A k, l \in 1 .. Len(f) :
          k < l /\ 3*l - 2 <= Len(f) => f[3*k - 2].n < f[3*l - 2].n
    /\ \A i \in 1 .. Len(f) : f[i].n \in 1 .. m
    /\ Len(f) <= 3*m

\* The last line of f is complete, or has only its first piece.
Whole(f) == \E m \in 0 .. Len(f) : Len(f) = 3*m
Torn(f) == \E m \in 0 .. Len(f) : Len(f) = 3*m + 1

\* What a process that repairs the file holds of it.
Repairing(p) ==
    /\ st[p] \in {"torn", "truncated"} => Tidy(raw[p], attempts) /\ Whole(raw[p])
    /\ st[p] = "torn" => Len(file) = Len(raw[p]) + 1 /\ raw[p] = SubSeq(file, 1, Len(raw[p]))
    /\ st[p] = "truncated" => file = <<>>

\* What a process that may append knows of it: its number is the file's.
Numbering(p) ==
    /\ st[p] = "intact" => Whole(file)
    /\ st[p] = "open" /\ holder[p] = NoOne => Len(file) = 3*seq[p]
    /\ holder[p] # NoOne =>
          /\ seq[p] \in 1 .. attempts
          /\ Len(file) = 3*seq[p] - 3 + done[p]
          /\ cur[p] = [n |-> attempts, seq |-> seq[p]]
          /\ \A i \in 1 .. 3*seq[p] - 3 : file[i].n < attempts

LogInv ==
    /\ attempts <= MaxAppends
    /\ Tidy(file, attempts)
    /\ (\A p \in Procs : holder[p] = NoOne) => Whole(file) \/ Torn(file)
    /\ \A p \in Procs : Repairing(p) /\ Numbering(p)

LEMMA TidyMore ==
    ASSUME NEW f \in Seq(Fragment), NEW m \in Nat, Tidy(f, m)
    PROVE  Tidy(f, m + 1)
BY DEF Tidy

\* A prefix of such a file is one.
LEMMA TidyPrefix ==
    ASSUME NEW f \in Seq(Fragment), NEW m \in Nat, Tidy(f, m), NEW c \in 0 .. Len(f)
    PROVE  Tidy(SubSeq(f, 1, c), m)
<1> DEFINE g == SubSeq(f, 1, c)
<1>1. /\ Len(g) = c
      /\ \A i \in 1 .. c : g[i] = f[i]
  OBVIOUS
<1>2. c \in Nat /\ Len(f) \in Nat /\ c <= Len(f)
  OBVIOUS
<1> HIDE DEF g
<1>3. Shaped(g)
  <2> SUFFICES ASSUME NEW k \in 1 .. c, NEW j \in 1 .. 3, 3*k - 3 + j <= c
               PROVE  g[3*k - 3 + j] = Piece([n |-> g[3*k - 2].n, seq |-> k], j)
    BY <1>1 DEF Shaped
  <2>1. f[3*k - 3 + j] = Piece([n |-> f[3*k - 2].n, seq |-> k], j)
    <3>1. k \in 1 .. Len(f) /\ 3*k - 3 + j <= Len(f)
      BY <1>2
    <3>2. Shaped(f)
      BY DEF Tidy
    <3> QED
      BY <3>1, <3>2 DEF Shaped
  <2>2. 3*k - 3 + j \in 1 .. c /\ 3*k - 2 \in 1 .. c
    BY <1>2
  <2> QED
    BY <1>1, <2>1, <2>2
<1>4. ASSUME NEW k \in 1 .. c, NEW l \in 1 .. c, k < l, 3*l - 2 <= c
      PROVE  g[3*k - 2].n < g[3*l - 2].n
  <2>1. f[3*k - 2].n < f[3*l - 2].n
    <3>1. k \in 1 .. Len(f) /\ l \in 1 .. Len(f) /\ k < l /\ 3*l - 2 <= Len(f)
      BY <1>2, <1>4
    <3> QED
      BY <3>1 DEF Tidy
  <2>2. 3*k - 2 \in 1 .. c /\ 3*l - 2 \in 1 .. c
    BY <1>2, <1>4
  <2> QED
    BY <1>1, <2>1, <2>2
<1>5. \A i \in 1 .. c : g[i].n \in 1 .. m
  BY <1>1, <1>2 DEF Tidy
<1>6. c <= 3*m
  BY <1>2 DEF Tidy
<1>7. Tidy(g, m)
  BY <1>1, <1>3, <1>4, <1>5, <1>6 DEF Tidy
<1> QED
  BY <1>7 DEF g

\* The next piece of the last record, number s, fits behind the file.
LEMMA TidyGrows ==
    ASSUME NEW f \in Seq(Fragment), NEW m \in Nat, Tidy(f, m),
           NEW s \in 1 .. m, NEW d \in 0 .. 2, Len(f) = 3*s - 3 + d,
           \A i \in 1 .. 3*s - 3 : f[i].n < m,
           \A j \in 1 .. d : f[3*s - 3 + j] = Piece([n |-> m, seq |-> s], j)
    PROVE  Tidy(Append(f, Piece([n |-> m, seq |-> s], d + 1)), m)
<1> DEFINE x == Piece([n |-> m, seq |-> s], d + 1)
           g == Append(f, x)
<1>1. Len(g) = Len(f) + 1 /\ Len(g) = 3*s - 2 + d /\ Len(f) \in Nat
  OBVIOUS
<1>2. /\ \A i \in 1 .. Len(f) : g[i] = f[i]
      /\ g[3*s - 2 + d] = x
  OBVIOUS
<1>3. g[3*s - 2].n = m
  <2>1. CASE d = 0
    BY <1>2, <2>1 DEF Piece
  <2>2. CASE d # 0
    <3>1. f[3*s - 3 + 1] = Piece([n |-> m, seq |-> s], 1)
      BY <2>2
    <3>2. 3*s - 2 \in 1 .. Len(f)
      BY <2>2
    <3> QED
      BY <1>2, <3>1, <3>2 DEF Piece
  <2> QED
    BY <2>1, <2>2
<1> HIDE DEF g
<1>4. Shaped(g)
  <2> SUFFICES ASSUME NEW k \in 1 .. Len(g), NEW j \in 1 .. 3, 3*k - 3 + j <= Len(g)
               PROVE  g[3*k - 3 + j] = Piece([n |-> g[3*k - 2].n, seq |-> k], j)
    BY DEF Shaped
  <2>1. CASE 3*k - 3 + j = Len(g)
    <3>1. k = s /\ j = d + 1
      <4>1. k \in Nat /\ s \in Nat /\ d \in 0 .. 2 /\ 3*k - 3 + j = 3*s - 2 + d
        BY <1>1, <2>1
      <4> QED
        BY <4>1
    <3>2. g[3*k - 3 + j] = x
      BY <1>2, <3>1
    <3> QED
      BY <1>3, <3>1, <3>2
  <2>2. CASE 3*k - 3 + j # Len(g)
    <3>1. 3*k - 3 + j \in 1 .. Len(f) /\ 3*k - 2 \in 1 .. Len(f) /\ k \in 1 .. Len(f)
      <4>1. k \in Nat \ {0} /\ Len(f) \in Nat /\ 3*k - 3 + j <= Len(f)
        BY <1>1, <2>2
      <4> QED
        BY <4>1
    <3>2. f[3*k - 3 + j] = Piece([n |-> f[3*k - 2].n, seq |-> k], j)
      <4>1. Shaped(f)
        BY DEF Tidy
      <4> QED
        <5>1. 3*k - 3 + j <= Len(f)
          BY <3>1
        <5> QED
          BY <3>1, <4>1, <5>1, ShapedAt
    <3> QED
      BY <1>2, <3>1, <3>2
  <2> QED
    BY <2>1, <2>2
<1>5. ASSUME NEW k \in 1 .. Len(g), NEW l \in 1 .. Len(g), k < l, 3*l - 2 <= Len(g)
      PROVE  g[3*k - 2].n < g[3*l - 2].n
  <2>1. 3*k - 2 \in 1 .. Len(f) /\ k \in 1 .. Len(f)
    BY <1>1, <1>5
  <2>2. CASE l = s
    <3>1. 3*k - 2 \in 1 .. 3*s - 3
      <4>1. k \in Nat \ {0} /\ s \in Nat /\ k < s
        BY <1>1, <1>5, <2>2
      <4> QED
        BY <4>1
    <3>2. f[3*k - 2].n < m
      BY <3>1
    <3>3. g[3*k - 2] = f[3*k - 2]
      BY <1>2, <2>1
    <3>4. g[3*l - 2].n = m
      BY <1>3, <2>2
    <3> QED
      BY <3>2, <3>3, <3>4
  <2>3. CASE l # s
    <3>1. 3*l - 2 \in 1 .. Len(f) /\ l \in 1 .. Len(f)
      BY <1>1, <1>5, <2>3
    <3>2. f[3*k - 2].n < f[3*l - 2].n
      BY <1>5, <2>1, <3>1 DEF Tidy
    <3> QED
      BY <1>2, <2>1, <3>1, <3>2
  <2> QED
    BY <2>2, <2>3
<1>6. ASSUME NEW i \in 1 .. Len(g)
      PROVE  g[i].n \in 1 .. m
  <2>1. CASE i = Len(g)
    BY <1>1, <1>2, <2>1 DEF Piece
  <2>2. CASE i # Len(g)
    <3>1. i \in 1 .. Len(f)
      BY <1>1, <2>2
    <3> QED
      BY <1>2, <3>1 DEF Tidy
  <2> QED
    BY <2>1, <2>2
<1>7. Len(g) <= 3*m
  BY <1>1
<1>8. Tidy(g, m)
  BY <1>4, <1>5, <1>6, <1>7 DEF Tidy
<1> QED
  BY <1>8 DEF g

\* Only a crash may cut a line, and not exactly before its newline, nor
\* between the two writes of a repair.
OnlyCrashes == OneWriter /\ ~RepairCrash /\ ~NewlineTear /\ ~WriteErrors

LEMMA LogInit == Init => LogInv
<1> SUFFICES ASSUME Init
             PROVE  LogInv
  OBVIOUS
<1>1. Len(file) = 0 /\ attempts = 0 /\ 0 <= MaxAppends
  BY BoundsAssumption DEF Init
<1>2. Tidy(file, attempts)
  BY <1>1 DEF Tidy, Shaped
<1>3. Whole(file)
  BY <1>1 DEF Whole
<1>4. \A p \in Procs : st[p] = "down" /\ holder[p] = NoOne
  BY DEF Init
<1> QED
  BY <1>1, <1>2, <1>3, <1>4 DEF LogInv, Repairing, Numbering

\* While one process has the journal open, or opens it, the others are down.
LEMMA Elsewhere ==
    ASSUME OneWriter, IInv, NEW p \in Procs, st[p] # "down" \/ OpenLock(p),
           NEW q \in Procs, q # p
    PROVE  st[q] = "down" /\ holder[q] = NoOne
<1>1. st[q] = "down"
  BY NoOneAssumption DEF IInv, Locked, OneWriter, OpenLock
<1>2. holder[q] = NoOne
  BY <1>1 DEF IInv, Writing
<1> QED
  BY <1>1, <1>2

\* So a step of one process is all there is to look at.
LEMMA LogNext ==
    ASSUME OneWriter, IInv, NEW p \in Procs, st[p] # "down" \/ OpenLock(p),
           \A q \in Procs : q # p => st'[q] = st[q] /\ holder'[q] = holder[q],
           attempts' <= MaxAppends, Tidy(file, attempts)',
           holder'[p] = NoOne => Whole(file)' \/ Torn(file)',
           Repairing(p)', Numbering(p)'
    PROVE  LogInv'
<1>1. ASSUME NEW q \in Procs, q # p
      PROVE  Repairing(q)' /\ Numbering(q)' /\ holder'[q] = NoOne
  <2>1. st[q] = "down" /\ holder[q] = NoOne
    BY <1>1, Elsewhere
  <2>2. st'[q] = "down" /\ holder'[q] = NoOne
    BY <1>1, <2>1
  <2> QED
    BY <2>2 DEF Repairing, Numbering
<1> QED
  BY <1>1 DEF LogInv

\* A process that opens the journal and finds nothing to repair.
LEMMA LogOpen ==
    ASSUME OneWriter, IInv, LogInv, NEW p \in Procs,
           OpenLock(p) \/ OpenRefused(p) \/ OpenIntact(p)
    PROVE  LogInv'
<1>1. /\ file' = file /\ attempts' = attempts /\ holder' = holder
      /\ \A q \in Procs : q # p => st'[q] = st[q]
      /\ st'[p] \in {"down", "locked", "intact"}
      /\ st[p] # "open" /\ (st[p] # "down" \/ OpenLock(p))
  BY DEF OpenLock, OpenRefused, OpenIntact, IInv, TypeOK
<1>2. \A q \in Procs : holder[q] = NoOne
  BY <1>1, Elsewhere DEF IInv, Writing
<1>3. Tidy(file, attempts) /\ (Whole(file) \/ Torn(file)) /\ attempts <= MaxAppends
  BY <1>2 DEF LogInv
<1>4. st'[p] = "intact" => Whole(file)
  <2> SUFFICES ASSUME OpenIntact(p), Torn(file)
               PROVE  FALSE
    BY <1>1, <1>3 DEF OpenLock, OpenRefused, IInv, TypeOK
  <2>1. PICK m \in 0 .. Len(file) : Len(file) = 3*m + 1
    BY DEF Torn
  <2>2. file \in Seq(Fragment) /\ Shaped(file)
    BY <1>3 DEF IInv, TypeOK, Tidy
  <2>3. m + 1 \in 1 .. Len(file) /\ 3*(m + 1) - 2 = Len(file)
    BY <2>1, <2>2
  <2>4. LineEnd(file, Len(file)) = Len(file)
    <3>1. LineEnd(file, 3*(m + 1) - 2) = IF 3*(m + 1) <= Len(file) THEN 3*(m + 1) ELSE Len(file)
      BY <2>2, <2>3, Ends
    <3> QED
      BY <2>3, <3>1
  <2>5. ~Parses(file, <<Len(file), Len(file)>>)
    <3>1. ~(3*(m + 1) - 1 <= Len(file)) /\ 3*(m + 1) - 2 <= Len(file)
      BY <2>3
    <3>2. ~Parses(file, <<3*(m + 1) - 2, LineEnd(file, 3*(m + 1) - 2)>>)
      BY <2>2, <2>3, <3>1, Readable
    <3> QED
      BY <2>3, <2>4, <3>2
  <2>6. Len(file) \in LineStarts(file)
    <3> DEFINE i == Len(file)
    <3>1. \E k \in 1 .. Len(file) : i = 3*k - 2 /\ i <= Len(file)
      BY <2>3
    <3>2. i \in LineStarts(file) <=> \E k \in 1 .. Len(file) : i = 3*k - 2 /\ i <= Len(file)
      BY <2>2, Starts
    <3> QED
      BY <3>1, <3>2
  <2>7. <<Len(file), Len(file)>> \in Lines(file)
    BY <2>4, <2>6 DEF Lines
  <2>8. TornTail(file, <<Len(file), Len(file)>>)
    <3>1. Len(file) \in DOMAIN file /\ \A k \in 1 .. Len(file) : Len(file) # 3*k
      BY <2>1, <2>2
    <3>2. \A i \in DOMAIN file : IsNewline(file, i) <=> \E k \in 1 .. Len(file) : i = 3*k
      BY <2>2, Newlines
    <3> QED
      BY <3>1, <3>2 DEF TornTail
  <2> QED
    BY <2>5, <2>7, <2>8 DEF OpenIntact, NeedsRepair
<1>5. Repairing(p)' /\ Numbering(p)'
  BY <1>1, <1>2, <1>4 DEF Repairing, Numbering, Whole
<1>6. Tidy(file, attempts)' /\ (Whole(file)' \/ Torn(file)')
  BY <1>1, <1>3 DEF Whole, Torn
<1> QED
  BY <1>1, <1>3, <1>5, <1>6, LogNext

\* The repair keeps the whole lines, and only the first piece of one is cut off.
LEMMA LogTorn ==
    ASSUME OneWriter, IInv, LogInv, NEW p \in Procs, OpenTorn(p)
    PROVE  LogInv'
<1>1. /\ file' = file /\ attempts' = attempts /\ holder' = holder
      /\ \A q \in Procs : q # p => st'[q] = st[q]
      /\ st[p] = "locked" /\ st'[p] = "torn"
  BY DEF OpenTorn, IInv, TypeOK
<1>2. \A q \in Procs : holder[q] = NoOne
  BY <1>1, Elsewhere DEF IInv, Writing
<1>3. Tidy(file, attempts) /\ (Whole(file) \/ Torn(file)) /\ attempts <= MaxAppends
  BY <1>2 DEF LogInv
<1>4. file \in Seq(Fragment) /\ Shaped(file) /\ attempts \in Nat /\ Len(file) \in Nat
  BY <1>3 DEF IInv, TypeOK, Tidy
<1>5. PICK c \in 0 .. Len(file) : /\ EndsAtLastNewline(file, c)
                                  /\ raw' = [raw EXCEPT ![p] = SubSeq(file, 1, c)]
  BY DEF OpenTorn
<1>6. PICK b \in Lines(file) : ~Parses(file, b) /\ TornTail(file, b)
  BY DEF OpenTorn, NeedsRepair
<1>7. PICK k \in 1 .. Len(file) : b = <<3*k - 2, LineEnd(file, 3*k - 2)>> /\ 3*k - 2 <= Len(file)
  <2>1. PICK i \in LineStarts(file) : b = <<i, LineEnd(file, i)>>
    BY <1>6 DEF Lines
  <2>2. PICK k \in 1 .. Len(file) : i = 3*k - 2 /\ i <= Len(file)
    BY <1>4, <2>1, Starts
  <2> QED
    BY <2>1, <2>2
<1>8. Len(file) = 3*k - 2
  <2>1. ~(3*k - 1 <= Len(file))
    BY <1>4, <1>6, <1>7, Readable
  <2> QED
    BY <1>4, <1>7, <2>1
<1>9. c = 3*k - 3
  <2>1. \A i \in DOMAIN file : IsNewline(file, i) <=> \E m \in 1 .. Len(file) : i = 3*m
    BY <1>4, Newlines
  <2>2. c <= 3*k - 3
    <3>1. CASE c = 0
      BY <3>1
    <3>2. CASE c # 0
      <4>1. c \in DOMAIN file /\ IsNewline(file, c)
        BY <1>4, <1>5, <3>2 DEF EndsAtLastNewline
      <4>2. PICK m \in 1 .. Len(file) : c = 3*m
        BY <2>1, <4>1
      <4> QED
        BY <1>8, <4>2
    <3> QED
      BY <3>1, <3>2
  <2>3. c >= 3*k - 3
    <3>1. CASE k = 1
      BY <3>1
    <3>2. CASE k # 1
      <4>1. 3*k - 3 \in DOMAIN file /\ k - 1 \in 1 .. Len(file) /\ 3*k - 3 = 3*(k - 1)
        BY <1>4, <1>8, <3>2
      <4>2. IsNewline(file, 3*k - 3)
        BY <2>1, <4>1
      <4> QED
        BY <1>4, <1>5, <4>1, <4>2 DEF EndsAtLastNewline
    <3> QED
      BY <3>1, <3>2
  <2> QED
    BY <2>2, <2>3
<1>10. /\ raw'[p] = SubSeq(file, 1, c) /\ Len(raw'[p]) = c
       /\ Len(file) = c + 1
  BY <1>4, <1>5, <1>8, <1>9 DEF IInv, TypeOK
<1>11. Tidy(raw'[p], attempts)
  BY <1>3, <1>4, <1>10, TidyPrefix
<1>12. Whole(raw'[p])
  <2>1. k - 1 \in 0 .. Len(raw'[p]) /\ Len(raw'[p]) = 3*(k - 1)
    BY <1>9, <1>10
  <2> QED
    BY <2>1 DEF Whole
<1>13. Repairing(p)' /\ Numbering(p)'
  BY <1>1, <1>2, <1>10, <1>11, <1>12 DEF Repairing, Numbering, Whole
<1>14. Tidy(file, attempts)' /\ (Whole(file)' \/ Torn(file)')
  BY <1>1, <1>3 DEF Whole, Torn
<1> QED
  BY <1>1, <1>3, <1>13, <1>14, LogNext

LEMMA TidyEmpty ==
    ASSUME NEW m \in Nat
    PROVE  Tidy(<<>>, m) /\ Whole(<<>>)
<1>1. Len(<<>>) = 0
  OBVIOUS
<1> QED
  BY <1>1 DEF Tidy, Shaped, Whole

\* The two writes of a repair, and counting the lines of an intact file.
LEMMA LogRepair ==
    ASSUME OneWriter, IInv, LogInv, NEW p \in Procs,
           RepairTruncate(p) \/ RepairRewrite(p) \/ CountRecords(p)
    PROVE  LogInv'
<1>1. /\ attempts' = attempts /\ holder' = holder /\ attempts \in Nat
      /\ \A q \in Procs : q # p => st'[q] = st[q]
      /\ st[p] \in {"torn", "truncated", "intact"}
  BY DEF RepairTruncate, RepairRewrite, CountRecords, IInv, TypeOK
<1>2. holder[p] = NoOne /\ attempts <= MaxAppends /\ Repairing(p) /\ Numbering(p)
  BY <1>1 DEF LogInv, IInv, Writing
<1>3. CASE RepairTruncate(p)
  <2>1. st[p] = "torn" /\ st'[p] = "truncated" /\ file' = <<>> /\ raw' = raw
    BY <1>3 DEF RepairTruncate, IInv, TypeOK
  <2>2. Tidy(file, attempts)' /\ Whole(file)'
    BY <1>1, <2>1, TidyEmpty DEF Whole
  <2>3. Tidy(raw[p], attempts)' /\ Whole(raw[p])'
    BY <1>1, <1>2, <2>1 DEF Repairing, Whole
  <2>4. Repairing(p)' /\ Numbering(p)'
    BY <1>1, <1>2, <2>1, <2>3 DEF Repairing, Numbering
  <2> QED
    BY <1>1, <1>2, <2>2, <2>4, LogNext
<1>4. CASE RepairRewrite(p)
  <2>1. st[p] = "truncated" /\ st'[p] = "intact" /\ file' = raw[p]
    BY <1>4 DEF RepairRewrite, IInv, TypeOK
  <2>2. Tidy(file, attempts)' /\ Whole(file)'
    BY <1>1, <1>2, <2>1 DEF Repairing, Whole
  <2>3. Repairing(p)' /\ Numbering(p)'
    BY <1>1, <1>2, <2>1, <2>2 DEF Repairing, Numbering
  <2> QED
    BY <1>1, <1>2, <2>2, <2>3, LogNext
<1>5. CASE CountRecords(p)
  <2>1. /\ st[p] = "intact" /\ st'[p] = "open" /\ file' = file
        /\ seq'[p] = Cardinality(LineStarts(file))
    BY <1>5 DEF CountRecords, IInv, TypeOK
  <2>2. Tidy(file, attempts) /\ Whole(file)
    BY <1>2, <2>1 DEF LogInv, Numbering
  <2>3. PICK m \in 0 .. Len(file) : Len(file) = 3*m
    BY <2>2 DEF Whole
  <2>4. file \in Seq(Fragment) /\ Shaped(file) /\ Len(file) \in Nat
    BY <2>2 DEF IInv, TypeOK, Tidy
  <2>5. LineStarts(file) = Progression(m)
    <3>1. \A i : i \in LineStarts(file) <=> \E k \in 1 .. Len(file) : i = 3*k - 2 /\ i <= Len(file)
      BY <2>4, Starts
    <3>2. \A i : (\E k \in 1 .. Len(file) : i = 3*k - 2 /\ i <= Len(file))
                     <=> \E k \in 1 .. m : i = 3*k - 2
      BY <2>3, <2>4
    <3> QED
      BY <3>1, <3>2 DEF Progression
  <2>6. seq'[p] = m
    BY <2>1, <2>3, <2>5, ProgressionCount
  <2>7. Repairing(p)' /\ Numbering(p)'
    BY <1>1, <1>2, <2>1, <2>3, <2>6 DEF Repairing, Numbering
  <2>8. Tidy(file, attempts)' /\ Whole(file)'
    BY <1>1, <2>1, <2>2 DEF Whole
  <2> QED
    BY <1>1, <1>2, <2>7, <2>8, LogNext
<1> QED
  BY <1>3, <1>4, <1>5

\* A new record gets the number behind the last one in the file.
LEMMA LogBegin ==
    ASSUME OneWriter, IInv, LogInv, NEW p \in Procs, NEW t \in Threads, BeginAppend(p, t)
    PROVE  LogInv'
<1>1. /\ file' = file /\ st' = st /\ st[p] = "open" /\ holder[p] = NoOne
      /\ attempts < MaxAppends /\ attempts' = attempts + 1 /\ attempts \in Nat
      /\ holder'[p] = t /\ holder'[p] # NoOne
      /\ \A q \in Procs : q # p => holder'[q] = holder[q]
      /\ seq'[p] = seq[p] + 1 /\ seq[p] \in Nat /\ done'[p] = 0
      /\ cur'[p] = [n |-> attempts + 1, seq |-> seq[p] + 1]
  BY NoOneAssumption DEF BeginAppend, IInv, TypeOK
<1>2. Tidy(file, attempts) /\ Len(file) = 3*seq[p]
  BY <1>1 DEF LogInv, Numbering
<1>3. file \in Seq(Fragment)
  BY DEF IInv, TypeOK
<1>4. Tidy(file, attempts)'
  BY <1>1, <1>2, <1>3, TidyMore
<1>5. /\ seq'[p] \in 1 .. attempts'
      /\ Len(file') = 3*seq'[p] - 3 + done'[p]
      /\ cur'[p] = [n |-> attempts', seq |-> seq'[p]]
  <2>1. 3*seq[p] <= 3*attempts
    BY <1>2 DEF Tidy
  <2> QED
    BY <1>1, <1>2, <2>1
<1>6. \A i \in 1 .. 3*seq'[p] - 3 : file'[i].n < attempts'
  <2>1. \A i \in 1 .. Len(file) : file[i].n \in 1 .. attempts
    BY <1>2 DEF Tidy
  <2>2. 3*seq'[p] - 3 = Len(file)
    BY <1>1, <1>2
  <2> QED
    BY <1>1, <2>1, <2>2
<1>7. Numbering(p)'
  BY <1>1, <1>5, <1>6 DEF Numbering
<1>8. Repairing(p)'
  BY <1>1 DEF Repairing
<1>9. attempts' <= MaxAppends
  BY <1>1, BoundsAssumption
<1> QED
  BY <1>1, <1>4, <1>7, <1>8, <1>9, LogNext

\* The pieces of the record that is written: what the process knows of them.
LEMMA Written ==
    ASSUME IInv, LogInv, NEW p \in Procs, holder[p] # NoOne
    PROVE  /\ st[p] = "open" /\ done[p] \in 0 .. 3 /\ seq[p] \in 1 .. attempts
           /\ attempts \in Nat /\ file \in Seq(Fragment) /\ Tidy(file, attempts)
           /\ Len(file) = 3*seq[p] - 3 + done[p]
           /\ cur[p] = [n |-> attempts, seq |-> seq[p]]
           /\ \A i \in 1 .. 3*seq[p] - 3 : file[i].n < attempts
           /\ \A j \in 1 .. done[p] : file[3*seq[p] - 3 + j] = Piece(cur[p], j)
<1>1. st[p] = "open" /\ done[p] \in 0 .. 3 /\ file \in Seq(Fragment) /\ attempts \in Nat
  BY DEF IInv, Writing, TypeOK
<1>2. /\ seq[p] \in 1 .. attempts
      /\ Len(file) = 3*seq[p] - 3 + done[p]
      /\ cur[p] = [n |-> attempts, seq |-> seq[p]]
      /\ \A i \in 1 .. 3*seq[p] - 3 : file[i].n < attempts
      /\ Tidy(file, attempts)
  BY DEF LogInv, Numbering
<1>3. \A j \in 1 .. done[p] : file[Len(file) - done[p] + j] = Piece(cur[p], j)
  BY DEF IInv, Writing
<1>4. ASSUME NEW j \in 1 .. done[p]
      PROVE  file[3*seq[p] - 3 + j] = Piece(cur[p], j)
  <2>1. Len(file) - done[p] + j = 3*seq[p] - 3 + j
    BY <1>1, <1>2
  <2> QED
    BY <1>3, <2>1
<1> QED
  BY <1>1, <1>2, <1>4

\* What is appended comes after what was there.
LEMMA AppendKeeps ==
    ASSUME NEW S, NEW f \in Seq(S), NEW e
    PROVE  Len(Append(f, e)) = Len(f) + 1 /\ \A i \in 1 .. Len(f) : Append(f, e)[i] = f[i]
OBVIOUS

LEMMA LogWrite ==
    ASSUME OneWriter, IInv, LogInv, NEW p \in Procs, WritePiece(p)
    PROVE  LogInv'
<1>1. /\ holder[p] # NoOne /\ holder' = holder /\ st' = st /\ seq' = seq /\ cur' = cur
      /\ attempts' = attempts /\ done'[p] = done[p] + 1 /\ done[p] < 3
      /\ file' = Append(file, Piece(cur[p], done[p] + 1))
  BY DEF WritePiece, IInv, TypeOK
<1>2. /\ st[p] = "open" /\ done[p] \in 0 .. 2 /\ seq[p] \in 1 .. attempts
      /\ attempts \in Nat /\ file \in Seq(Fragment) /\ Tidy(file, attempts)
      /\ Len(file) = 3*seq[p] - 3 + done[p]
      /\ cur[p] = [n |-> attempts, seq |-> seq[p]]
      /\ \A i \in 1 .. 3*seq[p] - 3 : file[i].n < attempts
      /\ \A j \in 1 .. done[p] : file[3*seq[p] - 3 + j] = Piece(cur[p], j)
  <2>1. done[p] \in 0 .. 3
    BY <1>1, Written
  <2>2. done[p] \in 0 .. 2
    BY <1>1, <2>1
  <2> QED
    BY <1>1, <2>2, Written
<1>3. Tidy(file, attempts)'
  <2>1. Tidy(Append(file, Piece([n |-> attempts, seq |-> seq[p]], done[p] + 1)), attempts)
    <3> DEFINE s == seq[p]
               d == done[p]
    <3>1. /\ s \in 1 .. attempts /\ d \in 0 .. 2 /\ Len(file) = 3*s - 3 + d
          /\ \A i \in 1 .. 3*s - 3 : file[i].n < attempts
          /\ \A j \in 1 .. d : file[3*s - 3 + j] = Piece([n |-> attempts, seq |-> s], j)
      BY <1>2
    <3> HIDE DEF s, d
    <3>2. Tidy(Append(file, Piece([n |-> attempts, seq |-> s], d + 1)), attempts)
      BY <1>2, <3>1, TidyGrows
    <3> QED
      BY <3>2 DEF s, d
  <2> QED
    BY <1>1, <1>2, <2>1
<1>4. /\ Len(file') = Len(file) + 1
      /\ \A i \in 1 .. Len(file) : file'[i] = file[i]
  <2> DEFINE e == Piece(cur[p], done[p] + 1)
  <2>1. file' = Append(file, e) /\ file \in Seq(Fragment)
    BY <1>1, <1>2
  <2> HIDE DEF e
  <2>2. /\ Len(Append(file, e)) = Len(file) + 1
        /\ \A i \in 1 .. Len(file) : Append(file, e)[i] = file[i]
    BY <2>1, AppendKeeps
  <2> QED
    BY <2>1, <2>2
<1>5. Len(file') = 3*seq'[p] - 3 + done'[p]
  BY <1>1, <1>2, <1>4
<1>6. \A i \in 1 .. 3*seq'[p] - 3 : file'[i].n < attempts'
  <2> SUFFICES ASSUME NEW i \in 1 .. 3*seq[p] - 3
               PROVE  file'[i].n < attempts
    BY <1>1
  <2>1. i \in 1 .. Len(file)
    BY <1>2
  <2> QED
    BY <1>2, <1>4, <2>1
<1>7. Numbering(p)'
  BY <1>1, <1>2, <1>5, <1>6 DEF Numbering
<1>8. Repairing(p)'
  BY <1>1, <1>2 DEF Repairing
<1>9. attempts' <= MaxAppends
  BY <1>1 DEF LogInv
<1> QED
  BY <1>1, <1>2, <1>3, <1>7, <1>8, <1>9, LogNext

\* An append that returns, a journal that is closed, and a crash, which finds
\* the last line complete or with its first piece only.
LEMMA LogLeave ==
    ASSUME OneWriter, ~NewlineTear, IInv, LogInv, NEW p \in Procs,
           EndAppend(p) \/ Close(p) \/ Crash(p)
    PROVE  LogInv'
<1>1. /\ file' = file /\ attempts' = attempts /\ seq' = seq
      /\ \A q \in Procs : q # p => st'[q] = st[q] /\ holder'[q] = holder[q]
      /\ holder'[p] = NoOne /\ st[p] # "down"
  <2>1. EndAppend(p) => st[p] = "open"
    BY DEF EndAppend, IInv, Writing
  <2>2. Close(p) => st[p] = "open" /\ holder[p] = NoOne
    BY DEF Close
  <2> QED
    BY <2>1, <2>2 DEF EndAppend, Close, Crash, IInv, TypeOK
<1>2. \A q \in Procs : q # p => holder[q] = NoOne
  BY <1>1, Elsewhere
<1>3. Tidy(file, attempts) /\ attempts <= MaxAppends /\ file \in Seq(Fragment)
  BY DEF LogInv, IInv, TypeOK
<1>4. Whole(file) \/ Torn(file)
  <2>1. CASE holder[p] = NoOne
    BY <1>2, <2>1 DEF LogInv
  <2>2. CASE holder[p] # NoOne
    <3>1. /\ done[p] \in 0 .. 3 /\ done[p] # 2 /\ seq[p] \in 1 .. attempts
          /\ Len(file) = 3*seq[p] - 3 + done[p] /\ attempts \in Nat
      <4>1. /\ done[p] \in 0 .. 3 /\ seq[p] \in 1 .. attempts
            /\ Len(file) = 3*seq[p] - 3 + done[p] /\ attempts \in Nat
        BY <2>2, Written
      <4>2. done[p] # 2
        BY <2>2 DEF EndAppend, Close, Crash
      <4> QED
        BY <4>1, <4>2
    <3>2. done[p] \in {0, 1, 3}
      BY <3>1
    <3>3. CASE done[p] = 3
      <4>1. seq[p] \in 0 .. Len(file) /\ Len(file) = 3*seq[p]
        BY <3>1, <3>3
      <4> QED
        BY <4>1 DEF Whole
    <3>4. CASE done[p] = 0
      <4>1. seq[p] - 1 \in 0 .. Len(file) /\ Len(file) = 3*(seq[p] - 1)
        BY <3>1, <3>4
      <4> QED
        BY <4>1 DEF Whole
    <3>5. CASE done[p] = 1
      <4>1. seq[p] - 1 \in 0 .. Len(file) /\ Len(file) = 3*(seq[p] - 1) + 1
        BY <3>1, <3>5
      <4> QED
        BY <4>1 DEF Torn
    <3> QED
      BY <3>2, <3>3, <3>4, <3>5
  <2> QED
    BY <2>1, <2>2
<1>5. Repairing(p)' /\ Numbering(p)'
  <2>1. CASE EndAppend(p)
    <3>1. /\ st[p] = "open" /\ st' = st /\ done[p] = 3 /\ seq[p] \in 1 .. attempts
          /\ Len(file) = 3*seq[p] - 3 + done[p] /\ attempts \in Nat
      BY <2>1, Written DEF EndAppend
    <3>2. Len(file) = 3*seq[p]
      BY <3>1
    <3> QED
      BY <1>1, <3>1, <3>2 DEF Repairing, Numbering
  <2>2. CASE Close(p) \/ Crash(p)
    <3>1. st'[p] = "down"
      BY <2>2 DEF Close, Crash, IInv, TypeOK
    <3> QED
      BY <1>1, <3>1 DEF Repairing, Numbering
  <2> QED
    BY <2>1, <2>2
<1>6. Tidy(file, attempts)' /\ (Whole(file)' \/ Torn(file)')
  BY <1>1, <1>3, <1>4 DEF Whole, Torn
<1> QED
  BY <1>1, <1>3, <1>5, <1>6, LogNext

LEMMA LogStep ==
    ASSUME OnlyCrashes, IInv, LogInv, [Next]_vars
    PROVE  LogInv'
<1> USE DEF OnlyCrashes
<1>1. CASE UNCHANGED vars
  BY <1>1 DEF vars, LogInv, Repairing, Numbering, Whole, Torn
<1>2. ASSUME NEW p \in Procs, OpenLock(p) \/ OpenRefused(p) \/ OpenIntact(p)
      PROVE  LogInv'
  BY <1>2, LogOpen
<1>3. ASSUME NEW p \in Procs, OpenTorn(p)
      PROVE  LogInv'
  BY <1>3, LogTorn
<1>4. ASSUME NEW p \in Procs, RepairTruncate(p) \/ RepairRewrite(p) \/ CountRecords(p)
      PROVE  LogInv'
  BY <1>4, LogRepair
<1>5. ASSUME NEW p \in Procs, NEW t \in Threads, BeginAppend(p, t)
      PROVE  LogInv'
  BY <1>5, LogBegin
<1>6. ASSUME NEW p \in Procs, WritePiece(p)
      PROVE  LogInv'
  BY <1>6, LogWrite
<1>7. ASSUME NEW p \in Procs, EndAppend(p) \/ Close(p) \/ Crash(p)
      PROVE  LogInv'
  BY <1>7, LogLeave
<1>8. ASSUME NEW p \in Procs, AppendFails(p)
      PROVE  LogInv'
  BY <1>8 DEF AppendFails
<1> QED
  BY <1>1, <1>2, <1>3, <1>4, <1>5, <1>6, <1>7, <1>8 DEF Next
-----------------------------------------------------------------------------
(* What a replay reads                                                     *)

\* The records of such a file: their numbers are their places, and those whose
\* whole line is there are among them.
LEMMA RecordsOf ==
    ASSUME NEW f \in Seq(Fragment), NEW m \in Nat, Tidy(f, m)
    PROVE  \E c \in Nat :
              /\ 3*c - 1 <= Len(f) /\ Len(f) <= 3*c + 1
              /\ Replayed(f) = [k \in 1 .. c |-> RecordAt(f, 3*k - 2)]
              /\ \A k \in 1 .. c : RecordAt(f, 3*k - 2).seq = k
              /\ \A k, l \in 1 .. c :
                    k < l => RecordAt(f, 3*k - 2).n < RecordAt(f, 3*l - 2).n
<1>1. Shaped(f) /\ Len(f) \in Nat
  BY DEF Tidy
<1>2. PICK c \in Nat : 3*c - 1 <= Len(f) /\ Len(f) <= 3*c + 1
  BY <1>1, CountOf
<1>3. Replayed(f) = [k \in 1 .. c |-> RecordAt(f, 3*k - 2)]
  BY <1>1, <1>2, ReplayedIs
<1>4. ASSUME NEW k \in 1 .. c
      PROVE  RecordAt(f, 3*k - 2).seq = k
  <2>1. k \in 1 .. Len(f) /\ 3*k - 3 + 1 <= Len(f) /\ 3*k - 3 + 1 = 3*k - 2
    BY <1>1, <1>2
  <2>2. f[3*k - 3 + 1] = Piece([n |-> f[3*k - 2].n, seq |-> k], 1)
    BY <1>1, <2>1, ShapedAt
  <2>3. f[3*k - 2].seq = k
    BY <2>1, <2>2 DEF Piece
  <2> QED
    BY <2>3 DEF RecordAt
<1>5. ASSUME NEW k \in 1 .. c, NEW l \in 1 .. c, k < l
      PROVE  RecordAt(f, 3*k - 2).n < RecordAt(f, 3*l - 2).n
  <2>1. k \in 1 .. Len(f) /\ l \in 1 .. Len(f) /\ 3*l - 2 <= Len(f)
    BY <1>1, <1>2
  <2>2. f[3*k - 2].n < f[3*l - 2].n
    BY <1>5, <2>1 DEF Tidy
  <2> QED
    BY <2>2 DEF RecordAt
<1> QED
  BY <1>2, <1>3, <1>4, <1>5

\* A whole line is where its record belongs.
LEMMA HeldAt ==
    ASSUME NEW f \in Seq(Fragment), Shaped(f), NEW r \in Record, Holds(f, r),
           NEW c \in Nat, Len(f) <= 3*c + 1
    PROVE  \E k \in 1 .. c : RecordAt(f, 3*k - 2) = r
<1>1. PICK i \in DOMAIN f : i + 2 \in DOMAIN f /\ \A j \in 1 .. 3 : f[i + j - 1] = Piece(r, j)
  BY DEF Holds
<1>2. Len(f) \in Nat /\ i \in 1 .. Len(f) /\ i + 2 <= Len(f)
  BY <1>1
<1>3. PICK k \in 1 .. Len(f), j \in 1 .. 3 : i = 3*k - 3 + j
  BY <1>2, Places
<1>4. f[i] = Piece(r, 1)
  <2>1. f[i + 1 - 1] = Piece(r, 1)
    BY <1>1
  <2> QED
    BY <1>2, <2>1
<1>5. f[3*k - 3 + j] = Piece([n |-> f[3*k - 2].n, seq |-> k], j)
  <2>1. 3*k - 3 + j <= Len(f)
    BY <1>2, <1>3
  <2> QED
    BY <2>1, ShapedAt
<1>6. j = 1
  <2>1. Parts[1] = Parts[j]
    BY <1>3, <1>4, <1>5 DEF Piece
  <2> QED
    BY <2>1 DEF Parts
<1>7. k \in 1 .. c /\ i = 3*k - 2
  BY <1>2, <1>3, <1>6
<1>8. RecordAt(f, i) = r
  BY <1>4 DEF RecordAt, Piece, Record
<1> QED
  BY <1>7, <1>8

LEMMA LogSound ==
    ASSUME IInv, LogInv
    PROVE  ReplaySound
<1> SUFFICES ASSUME Rewriting = {}
             PROVE  /\ ~Corrupt(file)
                    /\ acked \subseteq {log[i] : i \in DOMAIN log}
                    /\ \A i \in DOMAIN log : log[i].seq = i
                    /\ \A i, j \in DOMAIN log : i < j => log[i].n < log[j].n
  BY DEF ReplaySound
<1>1. log = Replayed(file)
  BY DEF log
<1>2. file \in Seq(Fragment) /\ attempts \in Nat /\ Tidy(file, attempts) /\ Shaped(file)
  BY DEF IInv, TypeOK, LogInv, Tidy
<1>3. PICK c \in Nat :
         /\ 3*c - 1 <= Len(file) /\ Len(file) <= 3*c + 1
         /\ Replayed(file) = [k \in 1 .. c |-> RecordAt(file, 3*k - 2)]
         /\ \A k \in 1 .. c : RecordAt(file, 3*k - 2).seq = k
         /\ \A k, l \in 1 .. c :
               k < l => RecordAt(file, 3*k - 2).n < RecordAt(file, 3*l - 2).n
  BY <1>2, RecordsOf
<1>4. DOMAIN log = 1 .. c /\ \A k \in 1 .. c : log[k] = RecordAt(file, 3*k - 2)
  BY <1>1, <1>3
<1>5. ASSUME NEW r \in acked
      PROVE  r \in {log[i] : i \in DOMAIN log}
  <2>1. Holds(file, r) /\ r \in Record
    BY DEF IInv, AckedKept, Rewriting, TypeOK
  <2>2. PICK k \in 1 .. c : RecordAt(file, 3*k - 2) = r
    BY <1>2, <1>3, <2>1, HeldAt
  <2> QED
    BY <1>4, <2>2
<1>6. ~Corrupt(file)
  BY <1>2, NotCorrupt
<1> QED
  BY <1>3, <1>4, <1>5, <1>6

LEMMA BothInvariant ==
    ASSUME OnlyCrashes
    PROVE  Spec => [](IInv /\ LogInv)
<1>1. Init => IInv /\ LogInv
  BY SafeInit, LogInit
<1>2. IInv /\ LogInv /\ [Next]_vars => (IInv /\ LogInv)'
  BY SafeStep, LogStep DEF OnlyCrashes
<1> QED
  BY <1>1, <1>2, PTL DEF Spec

\* A file that crashes may cut anywhere but exactly before a newline can always
\* be opened, and replay_journal reads every acknowledged record from it, in the
\* order of the appends, numbered from 1 without a gap or a repetition: for every
\* number of processes, threads, appends and crashes.
THEOREM ReplayAlwaysSound ==
    ASSUME OnlyCrashes
    PROVE  Spec => []ReplaySound
<1>1. IInv /\ LogInv => ReplaySound
  BY LogSound
<1> QED
  BY <1>1, BothInvariant, PTL
-----------------------------------------------------------------------------
(* The append-only log                                                     *)

\* The file the log is read from is the repairing process's while it rewrites.
LEMMA LogOfFile ==
    ASSUME Rewriting = {}
    PROVE  log = Replayed(file)
BY DEF log

LEMMA LogOfRaw ==
    ASSUME NEW p, Rewriting = {p}
    PROVE  log = Replayed(raw[p])
BY DEF log

LEMMA OneRewrites ==
    ASSUME OneWriter, IInv, NEW p \in Procs, st[p] # "down" \/ OpenLock(p)
    PROVE  Rewriting = IF st[p] = "truncated" THEN {p} ELSE {}
<1>1. \A q \in Procs : q # p => st[q] = "down"
  BY Elsewhere
<1> QED
  BY <1>1 DEF Rewriting

\* Two files with the same records before their unfinished line read the same.
LEMMA SameLog ==
    ASSUME NEW f \in Seq(Fragment), NEW g \in Seq(Fragment), Shaped(f), Shaped(g),
           NEW c \in Nat, 3*c - 1 <= Len(f), Len(f) <= 3*c + 1,
           3*c - 1 <= Len(g), Len(g) <= 3*c + 1,
           \A i \in DOMAIN f : i \in DOMAIN g => f[i] = g[i]
    PROVE  Replayed(f) = Replayed(g)
<1>1. Replayed(f) = [k \in 1 .. c |-> RecordAt(f, 3*k - 2)]
  BY ReplayedIs
<1>2. Replayed(g) = [k \in 1 .. c |-> RecordAt(g, 3*k - 2)]
  BY ReplayedIs
<1>3. ASSUME NEW k \in 1 .. c
      PROVE  RecordAt(f, 3*k - 2) = RecordAt(g, 3*k - 2)
  <2>1. 3*k - 2 \in DOMAIN f /\ 3*k - 2 \in DOMAIN g
    OBVIOUS
  <2> QED
    BY <2>1 DEF RecordAt
<1> QED
  BY <1>1, <1>2, <1>3

\* Steps that change neither the file nor who rewrites it leave the log alone.
LEMMA LogQuiet ==
    ASSUME file' = file, Rewriting' = Rewriting, \A q \in Rewriting : raw'[q] = raw[q]
    PROVE  log' = log
<1>1. CASE Rewriting = {}
  BY <1>1 DEF log
<1>2. CASE Rewriting # {}
  <2>1. (CHOOSE q \in Rewriting : TRUE) \in Rewriting
    BY <1>2
  <2>2. log = Replayed(raw[CHOOSE q \in Rewriting : TRUE])
    BY <1>2 DEF log
  <2>3. log' = Replayed(raw'[CHOOSE q \in Rewriting : TRUE])
    BY <1>2 DEF log
  <2> QED
    BY <2>1, <2>2, <2>3
<1> QED
  BY <1>1, <1>2

\* A repair moves the whole lines to memory and back.
LEMMA LogTruncate ==
    ASSUME OneWriter, IInv, LogInv, IInv', NEW p \in Procs, RepairTruncate(p)
    PROVE  log' = log
<1>1. st[p] = "torn" /\ st'[p] = "truncated" /\ raw' = raw
  BY DEF RepairTruncate, IInv, TypeOK
<1>2. Rewriting = {}
  BY <1>1, OneRewrites
<1>3. Rewriting' = {p}
  <2>1. \A q \in Procs : q # p => st[q] = "down" /\ st'[q] = st[q]
    BY <1>1, Elsewhere DEF RepairTruncate, IInv, TypeOK
  <2> QED
    BY <1>1, <2>1 DEF Rewriting
<1>4. log = Replayed(file)
  BY <1>2, LogOfFile
<1>5. log' = Replayed(raw[p])
  BY <1>1, <1>3 DEF log
<1>6. /\ file \in Seq(Fragment) /\ raw[p] \in Seq(Fragment)
      /\ Tidy(file, attempts) /\ Tidy(raw[p], attempts) /\ Whole(raw[p])
      /\ Len(file) = Len(raw[p]) + 1 /\ raw[p] = SubSeq(file, 1, Len(raw[p]))
  BY <1>1 DEF IInv, TypeOK, LogInv, Repairing
<1>7. PICK m \in 0 .. Len(raw[p]) : Len(raw[p]) = 3*m
  BY <1>6 DEF Whole
<1>8. /\ m \in Nat /\ 3*m - 1 <= Len(file) /\ Len(file) <= 3*m + 1
      /\ 3*m - 1 <= Len(raw[p]) /\ Len(raw[p]) <= 3*m + 1
  BY <1>6, <1>7
<1>9. \A i \in DOMAIN raw[p] : i \in DOMAIN file => raw[p][i] = file[i]
  <2> SUFFICES ASSUME NEW i \in 1 .. Len(raw[p])
               PROVE  raw[p][i] = file[i]
    BY <1>6
  <2>1. SubSeq(file, 1, Len(raw[p]))[i] = file[i]
    BY <1>6
  <2> QED
    BY <1>6, <2>1
<1>10. Replayed(raw[p]) = Replayed(file)
  BY <1>6, <1>8, <1>9, SameLog DEF Tidy
<1> QED
  BY <1>4, <1>5, <1>10

LEMMA LogRewrite ==
    ASSUME OneWriter, IInv, NEW p \in Procs, RepairRewrite(p)
    PROVE  log' = log
<1>1. st[p] = "truncated" /\ st'[p] = "intact" /\ file' = raw[p]
  BY DEF RepairRewrite, IInv, TypeOK
<1>2. Rewriting = {p}
  BY <1>1, OneRewrites
<1>3. Rewriting' = {}
  <2>1. \A q \in Procs : q # p => st[q] = "down" /\ st'[q] = st[q]
    BY <1>1, Elsewhere DEF RepairRewrite, IInv, TypeOK
  <2> QED
    BY <1>1, <2>1 DEF Rewriting
<1> QED
  BY <1>1, <1>2, <1>3, LogOfRaw DEF log

\* The second piece makes the record a part of the log; the others change nothing.
LEMMA LogPiece ==
    ASSUME OneWriter, IInv, LogInv, IInv', LogInv', NEW p \in Procs, WritePiece(p)
    PROVE  \/ log' = log
           \/ cur[p] \in [n : 1 .. MaxAppends, seq : 1 .. MaxAppends] /\ log' = Append(log, cur[p])
<1> DEFINE s == seq[p]
<1>1. /\ st[p] = "open" /\ done[p] \in 0 .. 3 /\ done[p] < 3 /\ s \in 1 .. attempts
      /\ attempts \in Nat /\ Tidy(file, attempts) /\ Len(file) = 3*s - 3 + done[p]
      /\ cur[p] = [n |-> attempts, seq |-> s]
      /\ \A j \in 1 .. done[p] : file[3*s - 3 + j] = Piece(cur[p], j)
  BY Written DEF WritePiece
<1>2. /\ file \in Seq(Fragment) /\ file' \in Seq(Fragment) /\ Tidy(file', attempts')
      /\ Shaped(file) /\ Shaped(file')
  BY <1>1 DEF IInv, TypeOK, LogInv, Tidy
<1>3. /\ Len(file') = Len(file) + 1
      /\ \A i \in 1 .. Len(file) : file'[i] = file[i]
  BY <1>2 DEF WritePiece
<1>4. Rewriting = {} /\ Rewriting' = {}
  <2>1. Rewriting = {}
    BY <1>1, OneRewrites
  <2> QED
    BY <2>1 DEF WritePiece, Rewriting
<1>5. log = Replayed(file) /\ log' = Replayed(file')
  BY <1>4 DEF log
<1>6. \A i \in DOMAIN file : i \in DOMAIN file' => file[i] = file'[i]
  BY <1>2, <1>3
<1> HIDE DEF s
<1>7. CASE done[p] = 1
  <2>1. Replayed(file) = [k \in 1 .. s - 1 |-> RecordAt(file, 3*k - 2)]
    <3>1. s - 1 \in Nat /\ 3*(s - 1) - 1 <= Len(file) /\ Len(file) <= 3*(s - 1) + 1
      BY <1>1, <1>7
    <3> QED
      BY <1>2, <3>1, ReplayedIs
  <2>2. Replayed(file') = [k \in 1 .. s |-> RecordAt(file', 3*k - 2)]
    <3>1. s \in Nat /\ 3*s - 1 <= Len(file') /\ Len(file') <= 3*s + 1
      BY <1>1, <1>3, <1>7
    <3> QED
      BY <1>2, <3>1, ReplayedIs
  <2>3. ASSUME NEW k \in 1 .. s - 1
        PROVE  RecordAt(file', 3*k - 2) = RecordAt(file, 3*k - 2)
    <3>1. 3*k - 2 \in 1 .. Len(file)
      BY <1>1, <1>7
    <3> QED
      BY <1>3, <3>1 DEF RecordAt
  <2>4. RecordAt(file', 3*s - 2) = cur[p]
    <3>1. 3*s - 2 \in 1 .. Len(file) /\ 3*s - 3 + 1 = 3*s - 2 /\ 1 \in 1 .. done[p]
      BY <1>1, <1>7
    <3>2. file[3*s - 2] = Piece(cur[p], 1)
      <4>1. file[3*s - 3 + 1] = Piece(cur[p], 1)
        BY <1>1, <3>1
      <4> QED
        BY <3>1, <4>1
    <3>3. file'[3*s - 2] = Piece(cur[p], 1)
      BY <1>3, <3>1, <3>2
    <3> QED
      BY <1>1, <3>3 DEF RecordAt, Piece
  <2>5. Append(Replayed(file), cur[p]) = [k \in 1 .. s |-> IF k = s THEN cur[p] ELSE RecordAt(file, 3*k - 2)]
    <3>1. s \in Nat /\ s >= 1
      BY <1>1
    <3>2. Len(Replayed(file)) = s - 1
      BY <2>1, <3>1
    <3> QED
      BY <2>1, <3>1, <3>2
  <2>6. log' = Append(log, cur[p])
    <3>1. ASSUME NEW k \in 1 .. s
          PROVE  RecordAt(file', 3*k - 2) = IF k = s THEN cur[p] ELSE RecordAt(file, 3*k - 2)
      <4>1. k = s \/ k \in 1 .. s - 1
        BY <1>1
      <4> QED
        BY <2>3, <2>4, <4>1
    <3>2. Replayed(file') = Append(Replayed(file), cur[p])
      BY <2>2, <2>5, <3>1
    <3> QED
      BY <1>5, <3>2
  <2>7. attempts \in 1 .. MaxAppends /\ s \in 1 .. MaxAppends
    BY <1>1, BoundsAssumption DEF LogInv
  <2> QED
    BY <1>1, <2>6, <2>7
<1>8. CASE done[p] = 0
  <2>1. /\ s - 1 \in Nat
        /\ 3*(s - 1) - 1 <= Len(file) /\ Len(file) <= 3*(s - 1) + 1
        /\ 3*(s - 1) - 1 <= Len(file') /\ Len(file') <= 3*(s - 1) + 1
    BY <1>1, <1>3, <1>8
  <2> QED
    BY <1>2, <1>5, <1>6, <2>1, SameLog
<1>9. CASE done[p] = 2
  <2>1. /\ s \in Nat
        /\ 3*s - 1 <= Len(file) /\ Len(file) <= 3*s + 1
        /\ 3*s - 1 <= Len(file') /\ Len(file') <= 3*s + 1
    BY <1>1, <1>3, <1>9
  <2> QED
    BY <1>2, <1>5, <1>6, <2>1, SameLog
<1> QED
  BY <1>1, <1>7, <1>8, <1>9

\* An append() that returns acknowledges the last record of the log.
LEMMA LogAcknowledge ==
    ASSUME OneWriter, IInv, LogInv, NEW p \in Procs, EndAppend(p)
    PROVE  log' = log /\ \E i \in DOMAIN log : acked' = acked \cup {log[i]}
<1> DEFINE s == seq[p]
<1>1. /\ st[p] = "open" /\ done[p] = 3 /\ s \in 1 .. attempts
      /\ attempts \in Nat /\ Tidy(file, attempts) /\ Len(file) = 3*s - 3 + done[p]
      /\ cur[p] = [n |-> attempts, seq |-> s]
      /\ \A j \in 1 .. done[p] : file[3*s - 3 + j] = Piece(cur[p], j)
  BY Written DEF EndAppend
<1>2. file \in Seq(Fragment) /\ Shaped(file)
  BY <1>1 DEF IInv, TypeOK, Tidy
<1>3. Rewriting = {}
  BY <1>1, OneRewrites
<1>4. log' = log
  BY <1>3 DEF EndAppend, log, Rewriting
<1>5. log = Replayed(file)
  BY <1>3, LogOfFile
<1> HIDE DEF s
<1>6. Replayed(file) = [k \in 1 .. s |-> RecordAt(file, 3*k - 2)]
  <2>1. s \in Nat /\ 3*s - 1 <= Len(file) /\ Len(file) <= 3*s + 1
    BY <1>1
  <2> QED
    BY <1>2, <2>1, ReplayedIs
<1>7. RecordAt(file, 3*s - 2) = cur[p]
  <2>1. 3*s - 3 + 1 = 3*s - 2 /\ 1 \in 1 .. done[p]
    BY <1>1
  <2>2. file[3*s - 3 + 1] = Piece(cur[p], 1)
    BY <1>1, <2>1
  <2> QED
    BY <1>1, <2>1, <2>2 DEF RecordAt, Piece
<1>8. s \in DOMAIN log /\ log[s] = cur[p]
  BY <1>1, <1>5, <1>6, <1>7
<1> QED
  BY <1>4, <1>8 DEF EndAppend

\* Every step of the file is a step of the log, or none.
LEMMA LogRefines ==
    ASSUME OnlyCrashes, IInv, LogInv, IInv', LogInv', [Next]_vars
    PROVE  [Abstract!Next]_(Abstract!vars)
<1> USE DEF OnlyCrashes
<1>1. CASE UNCHANGED vars
  <2>1. log' = log /\ acked' = acked
    BY <1>1, LogQuiet DEF vars, Rewriting
  <2> QED
    BY <2>1 DEF Abstract!vars
<1>2. ASSUME NEW p \in Procs,
             \/ OpenLock(p) \/ OpenRefused(p) \/ OpenIntact(p) \/ OpenTorn(p) \/ CountRecords(p)
             \/ (\E t \in Threads : BeginAppend(p, t)) \/ Close(p) \/ Crash(p)
      PROVE  [Abstract!Next]_(Abstract!vars)
  <2>1. file' = file /\ acked' = acked
    BY <1>2 DEF OpenLock, OpenRefused, OpenIntact, OpenTorn, CountRecords, BeginAppend, Close, Crash
  <2>2. st[p] # "truncated" /\ st'[p] # "truncated" /\ (st[p] # "down" \/ OpenLock(p))
    BY <1>2 DEF OpenLock, OpenRefused, OpenIntact, OpenTorn, CountRecords, BeginAppend, Close,
                Crash, IInv, TypeOK
  <2>3. \A q \in Procs : q # p => st'[q] = st[q]
    BY <1>2 DEF OpenLock, OpenRefused, OpenIntact, OpenTorn, CountRecords, BeginAppend, Close,
                Crash, IInv, TypeOK
  <2>4. Rewriting = {} /\ Rewriting' = {}
    <3>1. Rewriting = {}
      BY <2>2, OneRewrites
    <3> QED
      BY <2>2, <2>3, <3>1 DEF Rewriting
  <2>5. log' = log
    BY <2>1, <2>4, LogQuiet
  <2> QED
    BY <2>1, <2>5 DEF Abstract!vars
<1>3. ASSUME NEW p \in Procs, RepairTruncate(p) \/ RepairRewrite(p)
      PROVE  [Abstract!Next]_(Abstract!vars)
  <2>1. log' = log
    BY <1>3, LogTruncate, LogRewrite
  <2> QED
    BY <1>3, <2>1 DEF RepairTruncate, RepairRewrite, Abstract!vars
<1>4. ASSUME NEW p \in Procs, WritePiece(p)
      PROVE  [Abstract!Next]_(Abstract!vars)
  <2>1. acked' = acked
    BY <1>4 DEF WritePiece
  <2>2. \/ log' = log
        \/ cur[p] \in [n : 1 .. MaxAppends, seq : 1 .. MaxAppends] /\ log' = Append(log, cur[p])
    BY <1>4, LogPiece
  <2> QED
    BY <2>1, <2>2 DEF Abstract!vars, Abstract!Next, Abstract!Write
<1>5. ASSUME NEW p \in Procs, EndAppend(p)
      PROVE  [Abstract!Next]_(Abstract!vars)
  <2>1. log' = log /\ \E i \in DOMAIN log : acked' = acked \cup {log[i]}
    BY <1>5, LogAcknowledge
  <2> QED
    BY <2>1 DEF Abstract!Next, Abstract!Acknowledge
<1>6. ASSUME NEW p \in Procs, AppendFails(p)
      PROVE  [Abstract!Next]_(Abstract!vars)
  BY <1>6 DEF AppendFails
<1> QED
  BY <1>1, <1>2, <1>3, <1>4, <1>5, <1>6 DEF Next

LEMMA LogStarts ==
    ASSUME OneWriter, Init
    PROVE  Abstract!Init
<1>1. IInv /\ LogInv
  BY SafeInit, LogInit
<1>2. file = <<>> /\ acked = {} /\ Rewriting = {}
  BY DEF Init, Rewriting
<1>3. log = Replayed(file)
  BY <1>2, LogOfFile
<1>4. file \in Seq(Fragment) /\ Shaped(file) /\ Len(file) = 0
  BY <1>1, <1>2 DEF IInv, TypeOK, LogInv, Tidy
<1>5. Replayed(file) = [k \in 1 .. 0 |-> RecordAt(file, 3*k - 2)]
  <2>1. 0 \in Nat /\ 3*0 - 1 <= Len(file) /\ Len(file) <= 3*0 + 1
    BY <1>4
  <2> QED
    BY <1>4, <2>1, ReplayedIs
<1>6. log = <<>>
  BY <1>3, <1>5
<1> QED
  BY <1>2, <1>6 DEF Abstract!Init

\* Through crashes, torn tails, repairs and reopenings the file of fragments is
\* an append-only log: a record only ever joins it at its end, none leaves it, and
\* what append() acknowledges is in it.
THEOREM FileIsLog ==
    ASSUME OnlyCrashes
    PROVE  Spec => ImplementsLog
<1>1. Init => Abstract!Init
  BY LogStarts DEF OnlyCrashes
<1>2. IInv /\ LogInv /\ (IInv /\ LogInv)' /\ [Next]_vars => [Abstract!Next]_(Abstract!vars)
  BY LogRefines
<1> QED
  BY <1>1, <1>2, BothInvariant, PTL DEF Spec, ImplementsLog, Abstract!Spec
=============================================================================
