------------------------------ MODULE ReplProofs ------------------------------
(***************************************************************************)
(* Proofs about Repl, for any number of lines, messages and presses of     *)
(* Ctrl-C: who reads the terminal, and that what was typed is run once, in *)
(* order, and is never mislaid.                                            *)
(***************************************************************************)
EXTENDS Repl, SequenceTheorems, TLAPS

-----------------------------------------------------------------------------
(* Sequences of lines                                                      *)

Sorted(s) == \A i, j \in DOMAIN s : i < j => s[i].id < s[j].id
Below(S, T) == \A a \in S, b \in T : a < b

\* One more line at the end of a queue.
LEMMA Appended ==
    ASSUME NEW s \in Seq(Line), NEW l \in Line
    PROVE  /\ Append(s, l) \in Seq(Line)
           /\ IdsOf(Append(s, l)) = IdsOf(s) \cup {l.id}
           /\ Sorted(s) /\ Below(IdsOf(s), {l.id}) => Sorted(Append(s, l))
<1>1. /\ Append(s, l) \in Seq(Line) /\ Len(s) \in Nat /\ DOMAIN s = 1 .. Len(s)
      /\ DOMAIN Append(s, l) = 1 .. Len(s) + 1
      /\ \A i \in 1 .. Len(s) : Append(s, l)[i] = s[i]
      /\ Append(s, l)[Len(s) + 1] = l
  OBVIOUS
<1>2. IdsOf(Append(s, l)) = IdsOf(s) \cup {l.id}
  <2>1. ASSUME NEW i \in DOMAIN Append(s, l) PROVE Append(s, l)[i].id \in IdsOf(s) \cup {l.id}
    BY <1>1, <2>1 DEF IdsOf
  <2>2. ASSUME NEW i \in DOMAIN s PROVE s[i].id \in IdsOf(Append(s, l))
    <3>1. i \in DOMAIN Append(s, l) /\ Append(s, l)[i] = s[i]
      BY <1>1, <2>2
    <3> QED
      BY <3>1 DEF IdsOf
  <2>3. l.id \in IdsOf(Append(s, l))
    <3>1. Len(s) + 1 \in DOMAIN Append(s, l)
      BY <1>1
    <3> QED
      BY <1>1, <3>1 DEF IdsOf
  <2> QED
    BY <2>1, <2>2, <2>3 DEF IdsOf
<1>3. ASSUME Sorted(s), Below(IdsOf(s), {l.id}) PROVE Sorted(Append(s, l))
  <2> SUFFICES ASSUME NEW i \in DOMAIN Append(s, l), NEW j \in DOMAIN Append(s, l), i < j
               PROVE  Append(s, l)[i].id < Append(s, l)[j].id
    BY DEF Sorted
  <2>1. i \in 1 .. Len(s)
    BY <1>1
  <2>2. CASE j \in 1 .. Len(s)
    BY <1>1, <1>3, <2>1, <2>2 DEF Sorted
  <2>3. CASE j = Len(s) + 1
    <3>1. s[i].id \in IdsOf(s)
      BY <1>1, <2>1 DEF IdsOf
    <3> QED
      BY <1>1, <1>3, <2>1, <2>3, <3>1 DEF Below
  <2> QED
    BY <1>1, <2>2, <2>3
<1> QED
  BY <1>1, <1>2, <1>3

\* A queue without its first k lines.
LEMMA Dropped ==
    ASSUME NEW s \in Seq(Line), NEW k \in DOMAIN s
    PROVE  LET ids == [i \in 1 .. k |-> s[i].id]
               rest == SubSeq(s, k + 1, Len(s)) IN
           /\ rest \in Seq(Line)
           /\ ids \in Seq(1 .. MaxLines) /\ Len(ids) = k
           /\ IdsOf(s) = ToSet(ids) \cup IdsOf(rest)
           /\ Sorted(s) => /\ Sorted(rest) /\ Increasing(ids)
                           /\ Below(ToSet(ids), IdsOf(rest))
<1> DEFINE ids == [i \in 1 .. k |-> s[i].id]
           rest == SubSeq(s, k + 1, Len(s))
<1>1. /\ Len(s) \in Nat /\ k \in 1 .. Len(s) /\ DOMAIN s = 1 .. Len(s)
      /\ \A i \in 1 .. Len(s) : s[i].id \in 1 .. MaxLines
  <2>1. Len(s) \in Nat /\ DOMAIN s = 1 .. Len(s) /\ \A i \in 1 .. Len(s) : s[i] \in Line
    OBVIOUS
  <2>2. \A l \in Line : l.id \in 1 .. MaxLines
    BY DEF Line
  <2> QED
    BY <2>1, <2>2
<1>2. /\ rest \in Seq(Line) /\ Len(rest) = Len(s) - k /\ DOMAIN rest = 1 .. Len(s) - k
      /\ \A i \in 1 .. Len(s) - k : rest[i] = s[k + i]
  <2>1. /\ rest \in Seq(Line) /\ Len(rest) = Len(s) - k
        /\ \A i \in 1 .. Len(s) - k : rest[i] = s[k + i]
    <3>1. k + 1 \in 1 .. Len(s) + 1 /\ Len(s) - (k + 1) + 1 = Len(s) - k /\ k \in Nat
      BY <1>1
    <3>2. \A i \in 1 .. Len(s) - k : k + 1 + i - 1 = k + i /\ k + i \in 1 .. Len(s)
      BY <1>1
    <3>3. \A i \in k + 1 .. Len(s) : s[i] \in Line
      BY <1>1
    <3>4. rest \in Seq(Line)
      BY <1>1, <3>1, <3>3
    <3>5. Len(rest) = Len(s) - k
      BY <1>1, <3>1
    <3>6. \A i \in 1 .. Len(s) - k : rest[i] = s[k + i]
      BY <1>1, <3>1, <3>2
    <3> QED
      BY <3>4, <3>5, <3>6
  <2> QED
    BY <2>1
<1>3. /\ ids \in Seq(1 .. MaxLines) /\ Len(ids) = k /\ DOMAIN ids = 1 .. k
      /\ \A i \in 1 .. k : ids[i] = s[i].id
  <2>1. k \in Nat /\ \A i \in 1 .. k : s[i].id \in 1 .. MaxLines
    BY <1>1
  <2>2. ids \in [1 .. k -> 1 .. MaxLines]
    BY <2>1
  <2>3. ids \in Seq(1 .. MaxLines)
    <3>1. Seq(1 .. MaxLines) = UNION {[1 .. n -> 1 .. MaxLines] : n \in Nat}
      BY SeqDef
    <3>2. [1 .. k -> 1 .. MaxLines] \in {[1 .. n -> 1 .. MaxLines] : n \in Nat}
      BY <2>1
    <3> HIDE DEF ids
    <3> QED
      BY <2>2, <3>1, <3>2
  <2>4. Len(ids) = k
    <3>1. Len(ids) \in Nat /\ DOMAIN ids = 1 .. Len(ids)
      BY <2>3, LenProperties
    <3> QED
      BY <2>1, <3>1
  <2> QED
    BY <2>1, <2>3, <2>4
<1> HIDE DEF ids, rest
<1>4. IdsOf(s) = ToSet(ids) \cup IdsOf(rest)
  <2>1. ASSUME NEW i \in DOMAIN s PROVE s[i].id \in ToSet(ids) \cup IdsOf(rest)
    <3>1. CASE i <= k
      <4>1. i \in DOMAIN ids /\ ids[i] = s[i].id
        BY <1>1, <1>3, <3>1
      <4> QED
        BY <4>1 DEF ToSet
    <3>2. CASE i > k
      <4>1. i - k \in 1 .. Len(s) - k /\ k + (i - k) = i
        BY <1>1, <3>2
      <4>2. i - k \in DOMAIN rest /\ rest[i - k] = s[i]
        BY <1>2, <4>1
      <4> QED
        BY <4>2 DEF IdsOf
    <3> QED
      BY <1>1, <3>1, <3>2
  <2>2. ASSUME NEW i \in DOMAIN ids PROVE ids[i] \in IdsOf(s)
    BY <1>1, <1>3, <2>2 DEF IdsOf
  <2>3. ASSUME NEW i \in DOMAIN rest PROVE rest[i].id \in IdsOf(s)
    <3>1. k + i \in DOMAIN s /\ rest[i] = s[k + i]
      BY <1>1, <1>2, <2>3
    <3> QED
      BY <3>1 DEF IdsOf
  <2> QED
    BY <2>1, <2>2, <2>3 DEF IdsOf, ToSet
<1>5. ASSUME Sorted(s) PROVE Sorted(rest) /\ Increasing(ids) /\ Below(ToSet(ids), IdsOf(rest))
  <2>1. Sorted(rest)
    <3> SUFFICES ASSUME NEW i \in DOMAIN rest, NEW j \in DOMAIN rest, i < j
                 PROVE  rest[i].id < rest[j].id
      BY DEF Sorted
    <3>1. k + i \in DOMAIN s /\ k + j \in DOMAIN s /\ k + i < k + j
      BY <1>1, <1>2
    <3> QED
      BY <1>2, <1>5, <3>1 DEF Sorted
  <2>2. Increasing(ids)
    BY <1>1, <1>3, <1>5 DEF Sorted, Increasing
  <2>3. ASSUME NEW i \in DOMAIN ids, NEW j \in DOMAIN rest PROVE ids[i] < rest[j].id
    <3>1. i \in DOMAIN s /\ k + j \in DOMAIN s /\ i < k + j
      BY <1>1, <1>2, <1>3, <2>3
    <3> QED
      BY <1>2, <1>3, <1>5, <2>3, <3>1 DEF Sorted
  <2> QED
    BY <2>1, <2>2, <2>3 DEF Below, ToSet, IdsOf
<1> QED
  BY <1>2, <1>3, <1>4, <1>5 DEF ids, rest

\* A queue without its first line.
LEMMA Tailed ==
    ASSUME NEW s \in Seq(Line), s # <<>>
    PROVE  /\ Head(s) \in Line /\ Tail(s) \in Seq(Line)
           /\ IdsOf(s) = {Head(s).id} \cup IdsOf(Tail(s))
           /\ Sorted(s) => Sorted(Tail(s)) /\ Below({Head(s).id}, IdsOf(Tail(s)))
<1>1. /\ Len(s) \in Nat \ {0} /\ DOMAIN s = 1 .. Len(s)
      /\ Head(s) = s[1] /\ Head(s) \in Line /\ Tail(s) \in Seq(Line)
      /\ DOMAIN Tail(s) = 1 .. Len(s) - 1
      /\ \A i \in 1 .. Len(s) - 1 : Tail(s)[i] = s[i + 1]
  OBVIOUS
<1>2. IdsOf(s) = {Head(s).id} \cup IdsOf(Tail(s))
  <2>1. ASSUME NEW i \in DOMAIN s PROVE s[i].id \in {Head(s).id} \cup IdsOf(Tail(s))
    <3>1. CASE i = 1
      BY <1>1, <3>1
    <3>2. CASE i # 1
      <4>1. i - 1 \in DOMAIN Tail(s) /\ Tail(s)[i - 1] = s[i]
        BY <1>1, <3>2
      <4> QED
        BY <4>1 DEF IdsOf
    <3> QED
      BY <3>1, <3>2
  <2>2. ASSUME NEW i \in DOMAIN Tail(s) PROVE Tail(s)[i].id \in IdsOf(s)
    <3>1. i + 1 \in DOMAIN s /\ Tail(s)[i] = s[i + 1]
      BY <1>1, <2>2
    <3> QED
      BY <3>1 DEF IdsOf
  <2>3. Head(s).id \in IdsOf(s)
    <3>1. 1 \in DOMAIN s
      BY <1>1
    <3> QED
      BY <1>1, <3>1 DEF IdsOf
  <2> QED
    BY <2>1, <2>2, <2>3 DEF IdsOf
<1>3. ASSUME Sorted(s) PROVE Sorted(Tail(s)) /\ Below({Head(s).id}, IdsOf(Tail(s)))
  <2>1. Sorted(Tail(s))
    BY <1>1, <1>3 DEF Sorted
  <2>2. ASSUME NEW i \in DOMAIN Tail(s) PROVE Head(s).id < Tail(s)[i].id
    <3>1. 1 \in DOMAIN s /\ i + 1 \in DOMAIN s /\ 1 < i + 1 /\ Tail(s)[i] = s[i + 1]
      BY <1>1, <2>2
    <3> QED
      BY <1>1, <1>3, <3>1 DEF Sorted
  <2> QED
    BY <2>1, <2>2 DEF Below, IdsOf
<1> QED
  BY <1>1, <1>2, <1>3

\* What was run, with more behind it.
LEMMA Joined ==
    ASSUME NEW m \in Nat, NEW r \in Seq(1 .. m), NEW s \in Seq(1 .. m),
           Increasing(r), Increasing(s), Below(ToSet(r), ToSet(s))
    PROVE  /\ r \o s \in Seq(1 .. m) /\ Increasing(r \o s)
           /\ ToSet(r \o s) = ToSet(r) \cup ToSet(s)
<1>1. /\ r \o s \in Seq(1 .. m)
      /\ Len(r) \in Nat /\ Len(s) \in Nat /\ DOMAIN r = 1 .. Len(r) /\ DOMAIN s = 1 .. Len(s)
      /\ DOMAIN (r \o s) = 1 .. Len(r) + Len(s)
      /\ \A i \in 1 .. Len(r) : (r \o s)[i] = r[i]
      /\ \A i \in 1 .. Len(s) : (r \o s)[Len(r) + i] = s[i]
  OBVIOUS
<1>2. \A i \in 1 .. Len(r) + Len(s) :
          \/ i \in 1 .. Len(r) /\ (r \o s)[i] = r[i]
          \/ i - Len(r) \in 1 .. Len(s) /\ (r \o s)[i] = s[i - Len(r)]
  <2> SUFFICES ASSUME NEW i \in 1 .. Len(r) + Len(s), i > Len(r)
               PROVE  i - Len(r) \in 1 .. Len(s) /\ (r \o s)[i] = s[i - Len(r)]
    BY <1>1
  <2>1. i - Len(r) \in 1 .. Len(s) /\ Len(r) + (i - Len(r)) = i
    BY <1>1
  <2> QED
    BY <1>1, <2>1
<1> DEFINE q == r \o s
<1>3. /\ DOMAIN q = 1 .. Len(r) + Len(s)
      /\ \A i \in 1 .. Len(r) + Len(s) :
          \/ i \in 1 .. Len(r) /\ q[i] = r[i]
          \/ i - Len(r) \in 1 .. Len(s) /\ q[i] = s[i - Len(r)]
  BY <1>1, <1>2
<1>4. /\ \A i \in 1 .. Len(r) : q[i] = r[i] /\ i \in DOMAIN q
      /\ \A i \in 1 .. Len(s) : q[Len(r) + i] = s[i] /\ Len(r) + i \in DOMAIN q
  BY <1>1
<1> HIDE DEF q
<1>5. ToSet(q) = ToSet(r) \cup ToSet(s)
  <2>1. ToSet(q) \subseteq ToSet(r) \cup ToSet(s)
    BY <1>1, <1>3 DEF ToSet
  <2>2. ToSet(r) \cup ToSet(s) \subseteq ToSet(q)
    BY <1>1, <1>4 DEF ToSet
  <2> QED
    BY <2>1, <2>2
<1>6. Increasing(q)
  <2> SUFFICES ASSUME NEW i \in DOMAIN q, NEW j \in DOMAIN q, i < j PROVE q[i] < q[j]
    BY DEF Increasing
  <2>1. CASE j \in 1 .. Len(r)
    <3>1. i \in 1 .. Len(r)
      BY <1>1, <1>3, <2>1
    <3> QED
      BY <1>1, <1>4, <2>1, <3>1 DEF Increasing
  <2>2. CASE i \in 1 .. Len(r) /\ j \notin 1 .. Len(r)
    <3>1. q[i] \in ToSet(r) /\ q[j] \in ToSet(s)
      BY <1>1, <1>3, <1>4, <2>2 DEF ToSet
    <3> QED
      BY <3>1 DEF Below
  <2>3. CASE i \notin 1 .. Len(r)
    <3>1. j \notin 1 .. Len(r) /\ i - Len(r) < j - Len(r)
      BY <1>1, <1>3, <2>3
    <3>2. /\ i - Len(r) \in 1 .. Len(s) /\ q[i] = s[i - Len(r)]
          /\ j - Len(r) \in 1 .. Len(s) /\ q[j] = s[j - Len(r)]
      BY <1>3, <2>3, <3>1
    <3> QED
      BY <1>1, <3>1, <3>2 DEF Increasing
  <2> QED
    BY <2>1, <2>2, <2>3
<1> QED
  BY <1>1, <1>5, <1>6 DEF q

-----------------------------------------------------------------------------
(* Who reads the terminal, and the flags of run_turn                       *)

\* InputSound is inductive as it stands.
LEMMA InputStart == Init => InputSound
BY DEF Init, InputSound, StatusTruthful, OneReader, InRunTurn

LEMMA InputStep == InputSound /\ [Next]_vars => InputSound'
<1> SUFFICES ASSUME InputSound, [Next]_vars PROVE InputSound'
  OBVIOUS
<1> USE DEF InputSound, StatusTruthful, OneReader, InRunTurn
<1>1. CASE Type \/ Send \/ Finish \/ Collect \/ UNCHANGED vars
  BY <1>1 DEF Type, Send, Finish, Collect, vars, collector, flags
<1>2. CASE Enter \/ Ask \/ Answered \/ TurnEnds
  BY <1>2 DEF Enter, Ask, Answered, TurnEnds, collector, flags
<1>3. CASE Leave
  BY <1>3 DEF Leave, After
<1>4. CASE Sigint
  BY <1>4 DEF Sigint, After, collector
<1>5. CASE Poll \/ Read \/ Wake
  <2>1. CASE Poll
    BY <2>1 DEF Poll, Body, Begin
  <2>2. CASE Read
    BY <2>2 DEF Read, Body, Begin, collector, flags
  <2>3. CASE Wake
    BY <2>3 DEF Wake, Body, Begin
  <2> QED
    BY <1>5, <2>1, <2>2, <2>3
<1>6. CASE Prompt \/ EndOfInput \/ Drained \/ NoTask \/ Teardown
  BY <1>6 DEF Prompt, EndOfInput, Drained, NoTask, Teardown, collector, flags
<1>7. CASE Drain
  BY <1>7 DEF Drain, flags
<1>8. CASE NextTask
  BY <1>8 DEF NextTask, Begin
<1> QED
  BY <1>1, <1>2, <1>3, <1>4, <1>5, <1>6, <1>7, <1>8 DEF Next, Main

\* Whatever is typed, sent and interrupted: the reader thread is never up
\* outside the turn it was started for nor beside a question, and unless Ctrl-C
\* hit a window of run_turn, status says busy exactly while a turn is on.
THEOREM InputAlwaysSound == Spec => []InputSound
<1> QED
  BY InputStart, InputStep, PTL DEF Spec

-----------------------------------------------------------------------------
(* The queues of lines, from the latest to the oldest                      *)

\* What was run was typed before what is pending, that before what is collected,
\* that before what nobody has read yet.
Chain(R, P, C, I) ==
    /\ Below(R, P) /\ Below(R, C) /\ Below(R, I)
    /\ Below(P, C) /\ Below(P, I) /\ Below(C, I)

\* Every queue is in the order of typing, and so are the queues among themselves.
LineInv ==
    /\ stdin \in Seq(Line) /\ collected \in Seq(Line) /\ pending \in Seq(Line)
    /\ typed \in 0 .. MaxLines /\ ran \in Seq(1 .. MaxLines)
    /\ handled \subseteq 1 .. MaxLines
    /\ Sorted(stdin) /\ Sorted(collected) /\ Sorted(pending) /\ Increasing(ran)
    /\ Chain(ToSet(ran), IdsOf(pending), IdsOf(collected), IdsOf(stdin))
    /\ ToSet(ran) \cup IdsOf(pending) \cup IdsOf(collected) \cup IdsOf(stdin) \subseteq 1 .. typed

\* No typed line is mislaid.
Kept == 1 .. typed = handled \cup IdsOf(stdin) \cup IdsOf(collected) \cup IdsOf(pending)

\* What holds of the lines after a step, given what held before.
Onward == LineInv' /\ (Kept => Kept')

LEMMA Empty ==
    /\ <<>> \in Seq(Line) /\ IdsOf(<<>>) = {} /\ Sorted(<<>>)
    /\ ToSet(<<>>) = {} /\ Increasing(<<>>)
<1>1. DOMAIN <<>> = {}
  OBVIOUS
<1> QED
  BY <1>1 DEF IdsOf, Sorted, ToSet, Increasing

\* One more number at the end.
LEMMA Numbered ==
    ASSUME NEW m \in Nat, NEW r \in Seq(1 .. m), NEW n \in 1 .. m,
           Increasing(r), Below(ToSet(r), {n})
    PROVE  /\ Append(r, n) \in Seq(1 .. m) /\ Increasing(Append(r, n))
           /\ ToSet(Append(r, n)) = ToSet(r) \cup {n}
<1>1. DOMAIN <<n>> = {1} /\ <<n>>[1] = n /\ <<n>> \in Seq(1 .. m)
  OBVIOUS
<1>2. ToSet(<<n>>) = {n} /\ Increasing(<<n>>)
  BY <1>1 DEF ToSet, Increasing
<1>3. Append(r, n) = r \o <<n>>
  BY AppendIsConcat
<1>4. /\ r \o <<n>> \in Seq(1 .. m) /\ Increasing(r \o <<n>>)
      /\ ToSet(r \o <<n>>) = ToSet(r) \cup ToSet(<<n>>)
  <2>1. Below(ToSet(r), ToSet(<<n>>))
    BY <1>2
  <2> QED
    BY <1>1, <1>2, <2>1, Joined
<1> QED
  BY <1>2, <1>3, <1>4

\* The oldest number taken away.
LEMMA Polled ==
    ASSUME NEW m \in Nat, NEW r \in Seq(1 .. m), r # <<>>, Increasing(r)
    PROVE  /\ Head(r) \in 1 .. m /\ Tail(r) \in Seq(1 .. m) /\ Increasing(Tail(r))
           /\ ToSet(r) = {Head(r)} \cup ToSet(Tail(r))
           /\ Below({Head(r)}, ToSet(Tail(r)))
<1>1. /\ Len(r) \in Nat \ {0} /\ DOMAIN r = 1 .. Len(r)
      /\ Head(r) = r[1] /\ Head(r) \in 1 .. m /\ Tail(r) \in Seq(1 .. m)
      /\ DOMAIN Tail(r) = 1 .. Len(r) - 1
      /\ \A i \in 1 .. Len(r) - 1 : Tail(r)[i] = r[i + 1]
  OBVIOUS
<1>2. /\ 1 \in DOMAIN r
      /\ \A i \in DOMAIN Tail(r) : i + 1 \in DOMAIN r /\ 1 < i + 1 /\ Tail(r)[i] = r[i + 1]
      /\ \A i, j \in DOMAIN Tail(r) : i < j => i + 1 < j + 1
      /\ \A i \in DOMAIN r : i = 1 \/ (i - 1 \in DOMAIN Tail(r) /\ Tail(r)[i - 1] = r[i])
  <2>1. \A i \in DOMAIN r : i = 1 \/ (i - 1 \in DOMAIN Tail(r) /\ i - 1 + 1 = i)
    BY <1>1
  <2>2. \A i \in DOMAIN r : i = 1 \/ (i - 1 \in DOMAIN Tail(r) /\ Tail(r)[i - 1] = r[i])
    <3> SUFFICES ASSUME NEW i \in DOMAIN r, i # 1
                 PROVE  i - 1 \in DOMAIN Tail(r) /\ Tail(r)[i - 1] = r[i]
      OBVIOUS
    <3> QED
      BY <1>1, <2>1
  <2> QED
    BY <1>1, <2>2
<1>3. Increasing(Tail(r))
  BY <1>2 DEF Increasing
<1>4. ToSet(r) = {Head(r)} \cup ToSet(Tail(r))
  <2>1. ASSUME NEW i \in DOMAIN r PROVE r[i] \in {Head(r)} \cup ToSet(Tail(r))
    <3>1. i = 1 \/ (i - 1 \in DOMAIN Tail(r) /\ Tail(r)[i - 1] = r[i])
      BY <1>2
    <3> QED
      BY <1>1, <3>1 DEF ToSet
  <2>2. {Head(r)} \cup ToSet(Tail(r)) \subseteq ToSet(r)
    BY <1>1, <1>2 DEF ToSet
  <2> QED
    BY <2>1, <2>2 DEF ToSet
<1>5. Below({Head(r)}, ToSet(Tail(r)))
  <2>1. ASSUME NEW i \in DOMAIN Tail(r) PROVE Head(r) < Tail(r)[i]
    BY <1>1, <1>2 DEF Increasing
  <2> QED
    BY <2>1 DEF Below, ToSet
<1> QED
  BY <1>1, <1>3, <1>4, <1>5

\* The actions that move lines.
LEMMA TypeOnward == LineInv /\ Type => Onward
<1> SUFFICES ASSUME LineInv, Type PROVE Onward
  OBVIOUS
<1>1. MaxLines \in Nat /\ typed \in 0 .. MaxLines /\ typed < MaxLines
  BY ReplAssumption DEF LineInv, Type
<1>2. /\ typed' = typed + 1
      /\ UNCHANGED <<collected, pending, ran, handled>>
  BY DEF Type, collector, lines
<1>3. PICK k \in LineKinds : stdin' = Append(stdin, [id |-> typed + 1, kind |-> k])
  BY DEF Type
<1> DEFINE l == [id |-> typed + 1, kind |-> k]
<1>4. l.id = typed + 1 /\ l \in Line
  <2>1. typed + 1 \in 1 .. MaxLines
    BY <1>1
  <2> QED
    BY <2>1 DEF Line
<1>5. stdin' = Append(stdin, l)
  BY <1>3
<1> HIDE DEF l
<1>6. Below(IdsOf(stdin), {l.id})
  BY <1>1, <1>4 DEF LineInv, Below
<1>7. stdin' \in Seq(Line) /\ IdsOf(stdin') = IdsOf(stdin) \cup {typed + 1} /\ Sorted(stdin')
  BY <1>4, <1>5, <1>6, Appended DEF LineInv
<1>8. /\ 1 .. typed' = 1 .. typed \cup {typed + 1}
      /\ typed' \in 0 .. MaxLines
      /\ \A n \in 1 .. typed : n < typed + 1
  BY <1>1, <1>2
<1>9. Chain(ToSet(ran), IdsOf(pending), IdsOf(collected), IdsOf(stdin) \cup {typed + 1})
  BY <1>8 DEF LineInv, Chain, Below
<1>10. LineInv'
  BY <1>2, <1>7, <1>8, <1>9 DEF LineInv
<1>11. Kept => Kept'
  BY <1>2, <1>7, <1>8 DEF Kept
<1> QED
  BY <1>10, <1>11 DEF Onward

LEMMA CollectOnward == LineInv /\ Collect => Onward
<1> SUFFICES ASSUME LineInv, Collect PROVE Onward
  OBVIOUS
<1> DEFINE l == Head(stdin)
<1>1. /\ collected' = Append(collected, l) /\ stdin' = Tail(stdin)
      /\ UNCHANGED <<typed, pending, ran, handled>>
  BY DEF Collect, lines
<1>2. /\ l \in Line /\ Tail(stdin) \in Seq(Line)
      /\ IdsOf(stdin) = {l.id} \cup IdsOf(Tail(stdin))
      /\ Sorted(Tail(stdin)) /\ Below({l.id}, IdsOf(Tail(stdin)))
  BY Tailed DEF LineInv, Collect
<1> HIDE DEF l
<1>3. Below(IdsOf(collected), {l.id})
  BY <1>2 DEF LineInv, Chain, Below
<1>4. /\ collected' \in Seq(Line) /\ Sorted(collected')
      /\ IdsOf(collected') = IdsOf(collected) \cup {l.id}
  BY <1>1, <1>2, <1>3, Appended DEF LineInv
<1>5. Chain(ToSet(ran), IdsOf(pending), IdsOf(collected) \cup {l.id}, IdsOf(Tail(stdin)))
  BY <1>2 DEF LineInv, Chain, Below
<1>6. LineInv'
  BY <1>1, <1>2, <1>4, <1>5 DEF LineInv
<1>7. Kept => Kept'
  BY <1>1, <1>2, <1>4 DEF Kept
<1> QED
  BY <1>6, <1>7 DEF Onward

LEMMA AnsweredOnward == LineInv /\ Answered => Onward
<1> SUFFICES ASSUME LineInv, Answered PROVE Onward
  OBVIOUS
<1> DEFINE l == Head(stdin)
<1>1. /\ handled' = handled \cup {l.id} /\ stdin' = Tail(stdin)
      /\ UNCHANGED <<typed, collected, pending, ran>>
  BY DEF Answered
<1>2. /\ l \in Line /\ Tail(stdin) \in Seq(Line)
      /\ IdsOf(stdin) = {l.id} \cup IdsOf(Tail(stdin))
      /\ Sorted(Tail(stdin))
  BY Tailed DEF LineInv, Answered
<1>3. l.id \in 1 .. MaxLines
  BY <1>2 DEF Line
<1> HIDE DEF l
<1>4. Chain(ToSet(ran), IdsOf(pending), IdsOf(collected), IdsOf(Tail(stdin)))
  BY <1>2 DEF LineInv, Chain, Below
<1>5. LineInv'
  BY <1>1, <1>2, <1>3, <1>4 DEF LineInv
<1>6. Kept => Kept'
  BY <1>1, <1>2 DEF Kept
<1> QED
  BY <1>5, <1>6 DEF Onward

LEMMA DrainOnward == LineInv /\ Drain => Onward
<1> SUFFICES ASSUME LineInv, Drain PROVE Onward
  OBVIOUS
<1> DEFINE l == Head(collected)
<1>1. collected' = Tail(collected) /\ UNCHANGED <<typed, stdin, ran>>
  BY DEF Drain
<1>2. \/ pending' = Append(pending, l) /\ handled' = handled
      \/ pending' = pending /\ handled' = handled \cup {l.id}
  BY DEF Drain
<1>3. /\ l \in Line /\ Tail(collected) \in Seq(Line)
      /\ IdsOf(collected) = {l.id} \cup IdsOf(Tail(collected))
      /\ Sorted(Tail(collected)) /\ Below({l.id}, IdsOf(Tail(collected)))
  BY Tailed DEF LineInv, Drain
<1>4. l.id \in 1 .. MaxLines
  BY <1>3 DEF Line
<1> HIDE DEF l
<1>5. CASE pending' = Append(pending, l) /\ handled' = handled
  <2>1. Below(IdsOf(pending), {l.id})
    BY <1>3 DEF LineInv, Chain, Below
  <2>2. /\ pending' \in Seq(Line) /\ Sorted(pending')
        /\ IdsOf(pending') = IdsOf(pending) \cup {l.id}
    BY <1>3, <1>5, <2>1, Appended DEF LineInv
  <2>3. Chain(ToSet(ran), IdsOf(pending) \cup {l.id}, IdsOf(Tail(collected)), IdsOf(stdin))
    BY <1>3 DEF LineInv, Chain, Below
  <2>4. LineInv'
    BY <1>1, <1>3, <1>5, <2>2, <2>3 DEF LineInv
  <2>5. Kept => Kept'
    BY <1>1, <1>3, <1>5, <2>2 DEF Kept
  <2> QED
    BY <2>4, <2>5 DEF Onward
<1>6. CASE pending' = pending /\ handled' = handled \cup {l.id}
  <2>1. Chain(ToSet(ran), IdsOf(pending), IdsOf(Tail(collected)), IdsOf(stdin))
    BY <1>3 DEF LineInv, Chain, Below
  <2>2. LineInv'
    BY <1>1, <1>3, <1>4, <1>6, <2>1 DEF LineInv
  <2>3. Kept => Kept'
    BY <1>1, <1>3, <1>6 DEF Kept
  <2> QED
    BY <2>2, <2>3 DEF Onward
<1> QED
  BY <1>2, <1>5, <1>6

LEMMA NextTaskOnward == LineInv /\ NextTask => Onward
<1> SUFFICES ASSUME LineInv, NextTask PROVE Onward
  OBVIOUS
<1> DEFINE l == Head(pending)
<1>1. /\ pending' = Tail(pending) /\ handled' = handled \cup {l.id}
      /\ UNCHANGED <<typed, stdin, collected>>
  BY DEF NextTask
<1>2. ran' = Append(ran, l.id) \/ ran' = ran
  BY DEF NextTask
<1>3. /\ l \in Line /\ Tail(pending) \in Seq(Line)
      /\ IdsOf(pending) = {l.id} \cup IdsOf(Tail(pending))
      /\ Sorted(Tail(pending)) /\ Below({l.id}, IdsOf(Tail(pending)))
  BY Tailed DEF LineInv, NextTask
<1>4. l.id \in 1 .. MaxLines
  BY <1>3 DEF Line
<1> HIDE DEF l
<1>5. /\ ran' \in Seq(1 .. MaxLines) /\ Increasing(ran')
      /\ ToSet(ran') \subseteq ToSet(ran) \cup {l.id}
  <2>1. MaxLines \in Nat
    BY ReplAssumption
  <2>2. Below(ToSet(ran), {l.id})
    BY <1>3 DEF LineInv, Chain, Below
  <2>3. /\ Append(ran, l.id) \in Seq(1 .. MaxLines) /\ Increasing(Append(ran, l.id))
        /\ ToSet(Append(ran, l.id)) = ToSet(ran) \cup {l.id}
    <3>1. ran \in Seq(1 .. MaxLines) /\ Increasing(ran)
      BY DEF LineInv
    <3> QED
      BY <1>4, <2>1, <2>2, <3>1, Numbered
  <2> QED
    BY <1>2, <2>3 DEF LineInv
<1>6. Chain(ToSet(ran'), IdsOf(Tail(pending)), IdsOf(collected), IdsOf(stdin))
  BY <1>3, <1>5 DEF LineInv, Chain, Below
<1>7. LineInv'
  BY <1>1, <1>3, <1>4, <1>5, <1>6 DEF LineInv
<1>8. Kept => Kept'
  BY <1>1, <1>3 DEF Kept
<1> QED
  BY <1>7, <1>8 DEF Onward

\* Reading at the prompt goes past the queues, which are empty there.
LEMMA ReadOnward == LineInv /\ collected = <<>> /\ pending = <<>> /\ Read => Onward
<1> SUFFICES ASSUME LineInv, collected = <<>>, pending = <<>>, Read PROVE Onward
  OBVIOUS
<1>1. PICK k \in DOMAIN stdin :
          LET ids == [i \in 1 .. k |-> stdin[i].id] IN
          /\ stdin' = SubSeq(stdin, k + 1, Len(stdin))
          /\ handled' = handled \cup ToSet(ids)
          /\ ran' = ran \o ids \/ ran' = ran
          /\ UNCHANGED <<collected, pending>>
  BY DEF Read, Body, collector
<1>2. typed' = typed
  BY DEF Read
<1> DEFINE ids == [i \in 1 .. k |-> stdin[i].id]
           rest == SubSeq(stdin, k + 1, Len(stdin))
<1>3. /\ stdin' = rest /\ handled' = handled \cup ToSet(ids)
      /\ ran' = ran \o ids \/ ran' = ran
      /\ UNCHANGED <<collected, pending>>
  BY <1>1
<1>4. /\ rest \in Seq(Line) /\ ids \in Seq(1 .. MaxLines)
      /\ IdsOf(stdin) = ToSet(ids) \cup IdsOf(rest)
      /\ Sorted(rest) /\ Increasing(ids) /\ Below(ToSet(ids), IdsOf(rest))
  BY Dropped DEF LineInv
<1>5. ToSet(ids) \subseteq 1 .. MaxLines
  BY <1>4, RangeOfSeq DEF ToSet, Range
<1> HIDE DEF ids, rest
<1>6. /\ ran' \in Seq(1 .. MaxLines) /\ Increasing(ran')
      /\ ToSet(ran') \subseteq ToSet(ran) \cup ToSet(ids)
  <2>1. MaxLines \in Nat
    BY ReplAssumption
  <2>2. Below(ToSet(ran), ToSet(ids))
    BY <1>4 DEF LineInv, Chain, Below
  <2> QED
    BY <1>3, <1>4, <2>1, <2>2, Joined DEF LineInv
<1>7. IdsOf(collected) = {} /\ IdsOf(pending) = {}
  BY Empty
<1>8. Chain(ToSet(ran'), IdsOf(pending), IdsOf(collected), IdsOf(rest))
  BY <1>4, <1>6, <1>7 DEF LineInv, Chain, Below
<1>9. LineInv'
  BY <1>2, <1>3, <1>4, <1>5, <1>6, <1>8 DEF LineInv
<1>10. Kept => Kept'
  BY <1>2, <1>3, <1>4 DEF Kept
<1> QED
  BY <1>9, <1>10 DEF Onward

\* An interrupted turn drops what was queued, any other keeps it.
LEMMA AfterOnward ==
    ASSUME NEW aborted \in BOOLEAN, LineInv, After(aborted),
           UNCHANGED <<stdin, typed, ran, handled>>
    PROVE  LineInv' /\ (~aborted /\ Kept => Kept')
<1>1. CASE aborted
  <2>1. collected' = <<>> /\ pending' = <<>>
    BY <1>1 DEF After
  <2>2. Chain(ToSet(ran), {}, {}, IdsOf(stdin))
    BY DEF LineInv, Chain, Below
  <2> QED
    BY <1>1, <2>1, <2>2, Empty DEF LineInv
<1>2. CASE ~aborted
  <2>1. UNCHANGED <<collected, pending>>
    BY <1>2 DEF After
  <2> QED
    BY <2>1 DEF LineInv, Kept
<1> QED
  BY <1>1, <1>2

-----------------------------------------------------------------------------
(* Where the main thread is, and the control messages                      *)

\* At the prompt nothing is queued: that is why a line read there may be run past
\* the queues.  The synchronous loop never queues anything.
PhaseInv ==
    /\ where \in {"poll", "prompt"} => collected = <<>> /\ pending = <<>>
    /\ where = "next" => collected = <<>>
    /\ mode = "sync" =>
           ~reader /\ collected = <<>> /\ pending = <<>> /\ where \notin {"drain", "next"}
    /\ mode \in {"sync", "async"}
    /\ OneReader

LEMMA PhaseStep == PhaseInv /\ [Next]_vars => PhaseInv'
<1> SUFFICES ASSUME PhaseInv, [Next]_vars PROVE PhaseInv'
  OBVIOUS
<1> USE DEF PhaseInv, OneReader
<1>1. CASE Type \/ Send \/ Finish \/ UNCHANGED vars
  BY <1>1 DEF Type, Send, Finish, vars, collector, flags
<1>2. CASE Collect
  BY <1>2 DEF Collect, flags
<1>3. CASE Enter \/ TurnEnds
  BY <1>3 DEF Enter, TurnEnds, collector
<1>4. CASE Ask
  BY <1>4 DEF Ask
<1>5. CASE Answered
  BY <1>5 DEF Answered
<1>6. ASSUME NEW aborted, After(aborted), mode' = mode,
             where \notin {"drain", "next", "poll", "prompt"}
      PROVE  PhaseInv'
  <2>1. CASE aborted
    BY <1>6, <2>1 DEF After
  <2>2. CASE ~aborted
    <3>1. where' = IF mode = "async" THEN "drain" ELSE "poll"
      BY <1>6, <2>2 DEF After
    <3>2. reader' = FALSE /\ collected' = collected /\ pending' = pending
      BY <1>6, <2>2 DEF After
    <3> QED
      BY <1>6, <3>1, <3>2
  <2> QED
    BY <2>1, <2>2
<1>7. CASE Leave
  BY <1>6, <1>7 DEF Leave
<1>8. CASE Sigint
  <2>1. CASE where \in {"entering", "leaving"} /\ After(TRUE)
    BY <1>6, <1>8, <2>1 DEF Sigint
  <2>2. CASE where = "asking" /\ where' = "turn" /\ reader' = (mode = "async")
             /\ UNCHANGED <<collected, pending>>
    BY <1>8, <2>2 DEF Sigint
  <2>3. CASE /\ UNCHANGED collector
             /\ \/ where' = where
                \/ where' \in {"teardown", "over"} /\ where \in {"poll", "drain", "next", "teardown"}
    <3>1. mode' = mode /\ reader' = reader /\ collected' = collected /\ pending' = pending
      BY <1>8, <2>3 DEF Sigint, collector
    <3>2. CASE where' = where
      BY <3>1, <3>2
    <3>3. CASE where' # where
      BY <2>3, <3>1, <3>3
    <3> QED
      BY <3>2, <3>3
  <2>4. CASE /\ where = "turn" /\ where' = "leaving"
             /\ UNCHANGED <<reader, collected, pending>>
    BY <1>8, <2>4 DEF Sigint
  <2>5. CASE where = "prompt" /\ where' = "poll" /\ UNCHANGED collector
    BY <1>8, <2>5 DEF Sigint, collector
  <2> QED
    BY <1>8, <2>1, <2>2, <2>3, <2>4, <2>5 DEF Sigint
<1>9. CASE Poll \/ Read \/ Wake
  <2>1. CASE Poll
    BY <2>1 DEF Poll, Body, Begin
  <2>2. CASE Read
    BY <2>2 DEF Read, Body, Begin, collector, flags
  <2>3. CASE Wake
    BY <2>3 DEF Wake, Body, Begin
  <2> QED
    BY <1>9, <2>1, <2>2, <2>3
<1>10. CASE Prompt \/ EndOfInput \/ Drained \/ NoTask \/ Teardown
  BY <1>10 DEF Prompt, EndOfInput, Drained, NoTask, Teardown, collector, flags
<1>11. CASE Drain
  BY <1>11 DEF Drain, flags
<1>12. CASE NextTask
  BY <1>12 DEF NextTask, Begin
<1> QED
  BY <1>1, <1>2, <1>3, <1>4, <1>5, <1>7, <1>8, <1>9, <1>10, <1>11, <1>12 DEF Next, Main

\* The control messages, like the lines: what was served was accepted before what
\* waits.
MessageInv ==
    /\ inbox \in Seq(1 .. MaxMessages) /\ served \in Seq(1 .. MaxMessages)
    /\ sent \in 0 .. MaxMessages
    /\ Increasing(inbox) /\ Increasing(served) /\ Below(ToSet(served), ToSet(inbox))
    /\ ToSet(served) \cup ToSet(inbox) \subseteq 1 .. sent

LEMMA MessageStep == MessageInv /\ [Next]_vars => MessageInv'
<1> SUFFICES ASSUME MessageInv, [Next]_vars PROVE MessageInv'
  OBVIOUS
<1>1. MaxMessages \in Nat
  BY ReplAssumption
<1>2. CASE Send
  <2>1. /\ sent' = sent + 1 /\ inbox' = Append(inbox, sent + 1) /\ served' = served
        /\ sent < MaxMessages /\ sent \in 0 .. MaxMessages
    BY <1>2 DEF Send, MessageInv
  <2>2. /\ sent + 1 \in 1 .. MaxMessages /\ sent' \in 0 .. MaxMessages
        /\ 1 .. sent' = 1 .. sent \cup {sent + 1}
        /\ \A n \in 1 .. sent : n < sent + 1
    BY <1>1, <2>1
  <2>3. /\ inbox' \in Seq(1 .. MaxMessages) /\ Increasing(inbox')
        /\ ToSet(inbox') = ToSet(inbox) \cup {sent + 1}
    <3>1. Below(ToSet(inbox), {sent + 1})
      BY <2>2 DEF MessageInv, Below
    <3> QED
      BY <1>1, <2>1, <2>2, <3>1, Numbered DEF MessageInv
  <2>4. Below(ToSet(served), ToSet(inbox) \cup {sent + 1})
    BY <2>2 DEF MessageInv, Below
  <2> QED
    BY <2>1, <2>2, <2>3, <2>4 DEF MessageInv
<1>3. CASE Poll
  <2> DEFINE n == Head(inbox)
  <2>1. /\ inbox' = Tail(inbox) /\ served' = Append(served, n) /\ sent' = sent
        /\ inbox # <<>>
    BY <1>3 DEF Poll
  <2>2. /\ n \in 1 .. MaxMessages /\ Tail(inbox) \in Seq(1 .. MaxMessages)
        /\ Increasing(Tail(inbox)) /\ ToSet(inbox) = {n} \cup ToSet(Tail(inbox))
        /\ Below({n}, ToSet(Tail(inbox)))
    BY <1>1, <2>1, Polled DEF MessageInv
  <2> HIDE DEF n
  <2>3. /\ served' \in Seq(1 .. MaxMessages) /\ Increasing(served')
        /\ ToSet(served') = ToSet(served) \cup {n}
    <3>1. Below(ToSet(served), {n})
      BY <2>2 DEF MessageInv, Below
    <3> QED
      BY <1>1, <2>1, <2>2, <3>1, Numbered DEF MessageInv
  <2>4. Below(ToSet(served) \cup {n}, ToSet(Tail(inbox)))
    BY <2>2 DEF MessageInv, Below
  <2> QED
    BY <2>1, <2>2, <2>3, <2>4 DEF MessageInv
<1>4. CASE ~Send /\ ~Poll
  <2>1. UNCHANGED <<inbox, sent, served>>
    BY <1>4 DEF Next, Main, vars, control, Type, Finish, Collect, Enter, TurnEnds, Leave,
       Prompt, Read, Drain, Drained, NextTask, NoTask, Teardown, Ask, Answered, Sigint,
       EndOfInput, Wake
  <2> QED
    BY <2>1 DEF MessageInv
<1> QED
  BY <1>2, <1>3, <1>4

-----------------------------------------------------------------------------
(* The other variables                                                     *)

PlaceInv == where \in InRunTurn \cup {"poll", "prompt", "drain", "next", "teardown", "over"}

LEMMA PlaceStep == PlaceInv /\ [Next]_vars => PlaceInv'
<1> SUFFICES ASSUME PlaceInv, [Next]_vars PROVE PlaceInv'
  OBVIOUS
<1>1. \/ where' = where
      \/ where' \in InRunTurn \cup {"poll", "prompt", "drain", "next", "teardown", "over"}
  BY DEF Next, Main, vars, Type, Send, Finish, Collect, Enter, TurnEnds, Leave, After, Poll,
     Prompt, Read, Body, Begin, Drain, Drained, NextTask, NoTask, Teardown, Ask, Answered,
     Sigint, EndOfInput, Wake, InRunTurn
<1> QED
  BY <1>1 DEF PlaceInv

BooleanInv == {reader, interrupted, inTurn, busy, socket, caught} \subseteq BOOLEAN

LEMMA BooleanStep == BooleanInv /\ [Next]_vars => BooleanInv'
<1> SUFFICES ASSUME BooleanInv, [Next]_vars PROVE BooleanInv'
  OBVIOUS
<1>1. reader' \in BOOLEAN
  BY DEF BooleanInv, Next, Main, vars, collector, Type, Send, Finish, Collect, Enter, TurnEnds,
     Leave, After, Poll, Prompt, Read, Body, Begin, Drain, Drained, NextTask, NoTask, Teardown,
     Ask, Answered, Sigint, EndOfInput, Wake
<1>2. interrupted' \in BOOLEAN
  BY DEF BooleanInv, Next, Main, vars, collector, Type, Send, Finish, Collect, Enter, TurnEnds,
     Leave, After, Poll, Prompt, Read, Body, Begin, Drain, Drained, NextTask, NoTask, Teardown,
     Ask, Answered, Sigint, EndOfInput, Wake
<1>3. inTurn' \in BOOLEAN /\ busy' \in BOOLEAN
  BY DEF BooleanInv, Next, Main, vars, flags, Type, Send, Finish, Collect, Enter, TurnEnds,
     Leave, Poll, Prompt, Read, Body, Begin, Drain, Drained, NextTask, NoTask, Teardown,
     Ask, Answered, Sigint, EndOfInput, Wake
<1>4. caught' \in BOOLEAN /\ socket' \in BOOLEAN
  BY DEF BooleanInv, Next, Main, vars, flags, control, Type, Send, Finish, Collect, Enter,
     TurnEnds, Leave, Poll, Prompt, Read, Body, Drain, Drained, NextTask, NoTask, Teardown,
     Ask, Answered, Sigint, EndOfInput, Wake
<1> QED
  BY <1>1, <1>2, <1>3, <1>4 DEF BooleanInv

\* An interrupted turn was interrupted by somebody.
CountInv ==
    /\ wakes \in 0 .. MaxFinished /\ finished \in 0 .. wakes
    /\ sigints \in 0 .. MaxSigints /\ (interrupted => sigints > 0)

LEMMA CountStep == CountInv /\ [Next]_vars => CountInv'
<1> SUFFICES ASSUME CountInv, [Next]_vars PROVE CountInv'
  OBVIOUS
<1>1. MaxFinished \in Nat /\ MaxSigints \in Nat
  BY ReplAssumption
<1>2. \/ wakes' = wakes /\ finished' \in {0, finished}
      \/ wakes < MaxFinished /\ wakes' = wakes + 1 /\ finished' = finished + 1
  BY DEF Next, Main, vars, background, Type, Send, Finish, Collect, Enter, TurnEnds, Leave, Poll,
     Prompt, Read, Body, Drain, Drained, NextTask, NoTask, Teardown, Ask, Answered, Sigint,
     EndOfInput, Wake
<1>3. wakes' \in 0 .. MaxFinished /\ finished' \in 0 .. wakes'
  BY <1>1, <1>2 DEF CountInv
<1>4. CASE Sigint
  <2>1. sigints < MaxSigints /\ sigints' = sigints + 1
    BY <1>4 DEF Sigint
  <2> QED
    BY <1>1, <1>3, <2>1 DEF CountInv
<1>5. CASE ~Sigint
  <2>1. sigints' = sigints /\ (interrupted' = interrupted \/ interrupted' = FALSE)
    BY <1>5 DEF Next, Main, vars, flags, collector, Type, Send, Finish, Collect, Enter, TurnEnds,
       Leave, After, Poll, Prompt, Read, Body, Begin, Drain, Drained, NextTask, NoTask, Teardown,
       Ask, Answered, EndOfInput, Wake
  <2> QED
    BY <1>3, <2>1 DEF CountInv
<1> QED
  BY <1>4, <1>5

-----------------------------------------------------------------------------
(* The lines through every step                                            *)

QueueInv ==
    /\ LineInv /\ NothingLost /\ MessageInv /\ PhaseInv
    /\ PlaceInv /\ BooleanInv /\ CountInv

\* Only an interrupted turn drops lines.
LEMMA LineStep == QueueInv /\ [Next]_vars => LineInv' /\ NothingLost'
<1> SUFFICES ASSUME QueueInv, [Next]_vars PROVE LineInv' /\ NothingLost'
  OBVIOUS
<1>1. LineInv /\ (sigints = 0 => Kept)
  BY DEF QueueInv, NothingLost, Kept
<1>2. ASSUME Onward, sigints' = sigints PROVE LineInv' /\ NothingLost'
  BY <1>1, <1>2 DEF Onward, NothingLost, Kept
<1>3. ASSUME UNCHANGED <<stdin, typed, collected, pending, ran, handled>>,
             sigints' = 0 => sigints = 0
      PROVE  LineInv' /\ NothingLost'
  BY <1>1, <1>3 DEF LineInv, NothingLost, Kept
<1>4. CASE Type
  BY <1>1, <1>2, <1>4, TypeOnward DEF Type, flags
<1>5. CASE Collect
  BY <1>1, <1>2, <1>5, CollectOnward DEF Collect, flags
<1>6. CASE Answered
  BY <1>1, <1>2, <1>6, AnsweredOnward DEF Answered, flags
<1>7. CASE Drain
  BY <1>1, <1>2, <1>7, DrainOnward DEF Drain, flags
<1>8. CASE NextTask
  BY <1>1, <1>2, <1>8, NextTaskOnward DEF NextTask
<1>9. CASE Read
  <2>1. collected = <<>> /\ pending = <<>>
    BY <1>9 DEF Read, QueueInv, PhaseInv
  <2>2. sigints' = sigints
    BY <1>9 DEF Read, Body, flags
  <2> QED
    BY <1>1, <1>2, <1>9, <2>1, <2>2, ReadOnward
<1>10. CASE Leave
  <2>1. /\ interrupted \in BOOLEAN /\ After(interrupted) /\ sigints' = sigints
        /\ UNCHANGED <<stdin, typed, ran, handled>>
    BY <1>10 DEF Leave, lines, QueueInv, BooleanInv
  <2>2. LineInv' /\ (~interrupted /\ Kept => Kept')
    BY <1>1, <2>1, AfterOnward
  <2>3. sigints = 0 => ~interrupted
    BY DEF QueueInv, CountInv
  <2> QED
    BY <1>1, <2>1, <2>2, <2>3 DEF NothingLost, Kept
<1>11. CASE Sigint
  <2>1. sigints' # 0 /\ UNCHANGED <<stdin, typed, ran, handled>>
    BY <1>11 DEF Sigint, lines, QueueInv, CountInv
  <2>2. CASE After(TRUE)
    BY <1>1, <2>1, <2>2, AfterOnward DEF NothingLost
  <2>3. CASE UNCHANGED <<collected, pending>>
    BY <1>3, <2>1, <2>3
  <2> QED
    BY <1>11, <2>2, <2>3 DEF Sigint, collector
<1>12. CASE Send \/ Finish \/ Enter \/ Ask \/ TurnEnds \/ Prompt \/ EndOfInput \/ Drained
            \/ NoTask \/ Teardown \/ UNCHANGED vars
  <2>1. UNCHANGED <<stdin, typed, collected, pending, ran, handled, sigints>>
    BY <1>12 DEF Send, Finish, Enter, Ask, TurnEnds, Prompt, EndOfInput, Drained, NoTask,
       Teardown, vars, collector, flags, lines
  <2> QED
    BY <1>3, <2>1
<1>13. CASE Poll \/ Wake
  <2>1. UNCHANGED <<stdin, typed, collected, pending, ran, handled, sigints>>
    BY <1>13 DEF Poll, Wake, Body, lines
  <2> QED
    BY <1>3, <2>1
<1> QED
  BY <1>4, <1>5, <1>6, <1>7, <1>8, <1>9, <1>10, <1>11, <1>12, <1>13 DEF Next, Main

LEMMA QueueStart == Init => QueueInv
<1> SUFFICES ASSUME Init PROVE QueueInv
  OBVIOUS
<1>1. /\ MaxLines \in Nat /\ MaxMessages \in Nat /\ MaxFinished \in Nat /\ MaxSigints \in Nat
      /\ 1 .. 0 = {} /\ 0 \in Nat
  BY ReplAssumption
<1>2. /\ <<>> \in Seq(1 .. MaxLines) /\ <<>> \in Seq(1 .. MaxMessages)
  OBVIOUS
<1>3. LineInv
  BY <1>1, <1>2, Empty DEF Init, LineInv, Chain, Below
<1>4. NothingLost
  BY <1>1, Empty DEF Init, NothingLost
<1>5. MessageInv
  BY <1>1, <1>2, Empty DEF Init, MessageInv, Below
<1>6. PhaseInv
  BY DEF Init, PhaseInv, OneReader
<1>7. PlaceInv
  BY DEF Init, PlaceInv
<1>8. BooleanInv
  BY DEF Init, BooleanInv
<1>9. CountInv
  BY <1>1 DEF Init, CountInv
<1> QED
  BY <1>3, <1>4, <1>5, <1>6, <1>7, <1>8, <1>9 DEF QueueInv

LEMMA QueueImplies == QueueInv => QueueSound
<1> SUFFICES ASSUME QueueInv PROVE QueueSound
  OBVIOUS
<1>1. MaxFinished \in Nat /\ wakes \in 0 .. MaxFinished /\ finished \in 0 .. wakes
  BY ReplAssumption DEF QueueInv, CountInv
<1>2. finished \in 0 .. MaxFinished
  BY <1>1
<1>3. TypeOK
  BY <1>1, <1>2 DEF QueueInv, LineInv, MessageInv, PhaseInv, PlaceInv, BooleanInv, CountInv, TypeOK
<1> QED
  BY <1>3 DEF QueueInv, LineInv, MessageInv, QueueSound, TasksInOrder

\* However many lines are typed, messages sent and turns interrupted: the tasks
\* run once each and in the order they were typed, the control messages in the
\* order they were accepted, and until the first Ctrl-C every line is waiting in
\* one of the queues or was handled.
THEOREM QueueAlwaysSound == Spec => []QueueSound
<1>1. QueueInv /\ [Next]_vars => QueueInv'
  BY LineStep, MessageStep, PhaseStep, PlaceStep, BooleanStep, CountStep DEF QueueInv
<1> QED
  BY <1>1, QueueStart, QueueImplies, PTL DEF Spec
=============================================================================
