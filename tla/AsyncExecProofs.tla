--------------------------- MODULE AsyncExecProofs ---------------------------
(***************************************************************************)
(* Proofs about AsyncExec, for any number of executions and tool threads   *)
(* and any retention: that collection takes old results only, that the     *)
(* model is told the truth, and that completion records pass through a     *)
(* mailbox, each once and in order.                                        *)
(***************************************************************************)
EXTENDS AsyncExec, FiniteSetTheorems, TLAPS

-----------------------------------------------------------------------------
(* Types                                                                   *)

Ops == [op : {"idle", "starting", "waiting", "done"}, e : Execs \cup {None},
        news : SUBSET Execs]

Flags == turn \in {"prompt", "entering", "running"} /\ typed \in BOOLEAN

Sets ==
    /\ entries \subseteq Execs /\ delayed \subseteq Execs
    /\ started \subseteq Execs /\ exited \subseteq Execs
    /\ fast \subseteq Execs /\ notice \subseteq Execs
    /\ told \subseteq Execs /\ dropped \subseteq Execs
    /\ spawner \in [Execs -> {"none", "sleeping", "launching", "window", "tail", "done"}]
    /\ watcher \in [Execs -> {"none", "watching", "collected", "done"}]
    /\ announced \in Seq(Execs) /\ claimed \in Seq(Execs)
    /\ tool \in [Tools -> Ops]

LEMMA TypeParts == TypeOK <=> Flags /\ Sets
  BY Zenon DEF TypeOK, Flags, Sets, Ops

LEMMA IdleTypes == Idle \in Ops /\ Idle.news = {} /\ Idle.op = "idle"
  BY DEF Idle, Ops

\* What a call that returns adds to what is held, and what it keeps of it.
LEMMA ReturnSays ==
    ASSUME Sets, NEW t \in Tools, NEW S \in SUBSET Execs, Return(t, S), UNCHANGED notice
    PROVE  /\ tool' \in [Tools -> Ops] /\ tool'[t].op = "done"
           /\ \A u \in Tools \ {t} : tool'[u] = tool[u]
           /\ Held' \subseteq Held \cup S
           /\ Held \cup S \subseteq Held' \cup told
<1> DEFINE d == [[Idle EXCEPT !.op = "done"] EXCEPT !.news = (tool[t].news \cup S) \ told]
<1>1. d \in Ops /\ d.op = "done" /\ d.news = (tool[t].news \cup S) \ told
  BY DEF Sets, Ops, Idle
<1>2. tool' = [tool EXCEPT ![t] = d]
  BY DEF Return
<1> HIDE DEF d
<1>3. /\ tool' \in [Tools -> Ops] /\ tool'[t] = d
      /\ \A u \in Tools \ {t} : tool'[u] = tool[u]
  BY <1>1, <1>2 DEF Sets
<1>4. /\ \A x : x \in Held <=> x \in notice \/ \E u \in Tools : x \in tool[u].news
      /\ \A x : x \in Held' <=> x \in notice \/ \E u \in Tools : x \in tool'[u].news
  BY DEF Held
<1>5. \A u \in Tools : u # t => tool'[u].news = tool[u].news
  BY <1>3
<1>6. tool'[t].news = (tool[t].news \cup S) \ told
  BY <1>1, <1>3
<1> QED
  BY <1>1, <1>3, <1>4, <1>5, <1>6

LEMMA QueueTypes ==
    ASSUME Sets
    PROVE  /\ Queue \in Seq(Execs)
           /\ Len(Queue) > 0 => Len(claimed) + Len(Queue) = Len(announced)
           /\ \A i \in 1 .. Len(Queue) : Queue[i] = announced[Len(claimed) + i]
           /\ ToSet(Queue) \subseteq ToSet(announced)
           /\ ToSet(announced) \subseteq Execs
<1>1. /\ announced \in Seq(Execs) /\ Len(announced) \in Nat /\ Len(claimed) \in Nat
      /\ DOMAIN announced = 1 .. Len(announced)
  BY DEF Sets
<1>2. /\ Queue \in Seq(Execs)
      /\ Len(Queue) > 0 => Len(claimed) + Len(Queue) = Len(announced)
      /\ \A i \in 1 .. Len(Queue) : Queue[i] = announced[Len(claimed) + i]
  BY <1>1 DEF Queue
<1>3. ToSet(Queue) \subseteq ToSet(announced)
  <2> SUFFICES ASSUME NEW i \in DOMAIN Queue PROVE Queue[i] \in ToSet(announced)
    BY DEF ToSet
  <2>1. i \in 1 .. Len(Queue)
    BY <1>2
  <2>2. Queue[i] = announced[Len(claimed) + i]
    BY <1>2, <2>1, Zenon
  <2>3. Len(claimed) + i \in DOMAIN announced
    <3>1. i \in Nat /\ 1 <= i /\ i <= Len(Queue)
      BY <2>1
    <3>2. Len(claimed) + Len(Queue) = Len(announced) /\ Len(Queue) \in Nat
      BY <1>2, <3>1
    <3> QED
      BY <1>1, <3>1, <3>2
  <2> QED
    BY <2>2, <2>3 DEF ToSet
<1>4. ToSet(announced) \subseteq Execs
  BY <1>1 DEF ToSet
<1> QED
  BY <1>2, <1>3, <1>4

LEMMA TypeStep == TypeOK /\ [Next]_vars => TypeOK'
<1> SUFFICES ASSUME Flags, Sets, [Next]_vars PROVE Flags' /\ Sets'
  BY TypeParts, Zenon DEF TypeOK, Flags, Sets, Ops
<1>1. Flags'
  BY Zenon
     DEF Flags, Next, vars, Register, Launch, Decide, SpawnReturns, SpawnFails, ProcessEnds,
         Collect, Announce, Query, WaitBegins, WaitSeesExit, WaitTakes, WaitGivesUp,
         UserTypes, BeginTurn, Submit, NoticeDropped, BareTurn, NextBatch, EndTurn,
         CutShort, HandOver, repl
<1>2. ASSUME NEW t \in Tools, NEW S \in SUBSET Execs, Return(t, S), UNCHANGED notice
      PROVE  tool' \in [Tools -> Ops]
  BY <1>2, ReturnSays
<1>3. ASSUME NEW t \in Tools, NEW e \in Execs, NEW later \in BOOLEAN, Register(t, e, later)
      PROVE  Sets'
  <2>1. tool' \in [Tools -> Ops]
    <3>1. CASE later
      BY <1>2, <1>3, <3>1 DEF Register, repl
    <3>2. CASE ~later
      <4>1. [[Idle EXCEPT !.op = "starting"] EXCEPT !.e = e] \in Ops
        BY DEF Idle, Ops
      <4> QED
        BY <1>3, <3>2, <4>1 DEF Register, Sets
    <3> QED
      BY <3>1, <3>2
  <2> QED
    BY <1>3, <2>1 DEF Register, Sets, procs, queue, repl, heard
<1>4. ASSUME NEW e \in Execs,
             Launch(e) \/ Decide(e) \/ ProcessEnds(e) \/ Collect(e) \/ Announce(e)
      PROVE  Sets'
  <2>1. CASE Announce(e)
    BY <1>4, <2>1 DEF Announce, Sets, procs, repl, heard
  <2>2. CASE ~Announce(e)
    BY <1>4, <2>2
       DEF Launch, Decide, ProcessEnds, Collect, Sets, procs, threads, queue, repl, heard
  <2> QED
    BY <2>1, <2>2
<1>5. ASSUME NEW e \in Execs, SpawnReturns(e) PROVE Sets'
  <2>1. tool' \in [Tools -> Ops]
    BY <1>2, <1>5 DEF SpawnReturns, Sets, repl
  <2> QED
    BY <1>5, <2>1 DEF SpawnReturns, Sets, procs, queue, repl, heard
<1>6. ASSUME NEW e \in Execs, SpawnFails(e) PROVE Sets'
  <2>1. tool' \in [Tools -> Ops]
    BY <1>2, <1>6, IdleTypes DEF SpawnFails, Sets
  <2>2. dropped' \subseteq Execs
    BY <1>6 DEF SpawnFails, Drop, Sets
  <2> QED
    BY <1>6, <2>1, <2>2 DEF SpawnFails, Sets, procs, queue
<1>7. ASSUME NEW t \in Tools,
             \/ WaitSeesExit(t) \/ WaitGivesUp(t)
             \/ \E e \in Execs : Query(t, e)
      PROVE  Sets'
  <2>1. WaitSeesExit(t) => tool[t].e \in Execs
    BY DEF Sets, WaitSeesExit
  <2>2. tool' \in [Tools -> Ops]
    BY <1>2, <1>7, <2>1 DEF WaitSeesExit, WaitGivesUp, Query, repl
  <2> QED
    BY <1>7, <2>2
       DEF WaitSeesExit, WaitGivesUp, Query, Sets, procs, threads, queue, repl, heard
<1>8. ASSUME NEW t \in Tools, NEW e \in Execs, WaitBegins(t, e) PROVE Sets'
  <2>1. [[Idle EXCEPT !.op = "waiting"] EXCEPT !.e = e] \in Ops
    BY DEF Idle, Ops
  <2> QED
    BY <1>8, <2>1 DEF WaitBegins, Sets, procs, threads, queue, repl, heard
<1>9. ASSUME NEW t \in Tools, WaitTakes(t) PROVE Sets'
  <2>1. Head(Queue) \in Execs
    BY <1>9, QueueTypes DEF WaitTakes
  <2>2. claimed' \in Seq(Execs)
    BY <1>9, <2>1 DEF WaitTakes, Sets
  <2>3. tool' \in [Tools -> Ops]
    <3>1. CASE Head(Queue) = tool[t].e
      BY <1>2, <1>9, <2>1, <3>1 DEF WaitTakes, repl
    <3>2. CASE Head(Queue) # tool[t].e
      <4>1. [tool[t] EXCEPT !.news = @ \cup ({Head(Queue)} \ told)] \in Ops
        BY <2>1 DEF Sets, Ops
      <4> QED
        BY <1>9, <3>2, <4>1 DEF WaitTakes, Sets
    <3> QED
      BY <3>1, <3>2
  <2> QED
    BY <1>9, <2>2, <2>3 DEF WaitTakes, Sets, procs, threads, repl, heard
<1>10. Held \subseteq Execs
  BY DEF Held, Sets, Ops
<1>11. CASE \/ UserTypes \/ Submit \/ NoticeDropped \/ BareTurn \/ NextBatch \/ EndTurn
            \/ UNCHANGED vars
  <2>1. CASE UserTypes \/ BareTurn \/ UNCHANGED vars
    BY <1>1, <2>1 DEF UserTypes, BareTurn, vars, Sets, procs, threads, queue, heard
  <2>2. CASE Submit \/ NoticeDropped
    BY <1>1, <2>2 DEF Submit, NoticeDropped, Drop, Sets, procs, threads, queue
  <2>3. CASE NextBatch \/ EndTurn
    BY <1>1, <1>10, <2>3, IdleTypes
       DEF NextBatch, EndTurn, HandOver, Sets, procs, threads, queue, repl
  <2> QED
    BY <1>11, <2>1, <2>2, <2>3
<1>12. CASE CutShort
  <2>1. dropped' \subseteq Execs
    BY <1>10, <1>12 DEF CutShort, Drop, Sets
  <2>2. spawner' \in [Execs -> {"none", "sleeping", "launching", "window", "tail", "done"}]
    BY <1>12 DEF CutShort, Sets
  <2>3. /\ tool' \in [Tools -> Ops]
        /\ UNCHANGED <<entries, delayed, started, exited, fast, watcher, announced, claimed,
                       notice, told>>
    BY <1>12, IdleTypes DEF CutShort, procs, queue
  <2> QED
    BY <1>1, <2>1, <2>2, <2>3 DEF Sets
<1>13. CASE BeginTurn
  <2>1. notice' \subseteq Execs /\ claimed' \in Seq(Execs)
    BY <1>13, QueueTypes DEF BeginTurn, Sets
  <2> QED
    BY <1>1, <1>13, <2>1 DEF BeginTurn, Sets, procs, threads, heard
<1> QED
  BY <1>1, <1>3, <1>4, <1>5, <1>6, <1>7, <1>8, <1>9, <1>11, <1>12, <1>13 DEF Next

LEMMA TypeInit == Init => TypeOK
<1>1. Init => Flags
  BY Zenon DEF Init, Flags
<1>2. Init => Sets
  BY IdleTypes DEF Init, Sets
<1> QED
  BY <1>1, <1>2, TypeParts

-----------------------------------------------------------------------------
(* What is kept                                                            *)

\* A notice exists while its turn starts only; a call that starts an execution
\* has registered it and knows nothing yet.
CallsInv ==
    /\ turn # "entering" => notice = {}
    /\ \A t \in Tools :
           tool[t].op = "starting" =>
               tool[t].e \in Execs /\ tool[t].news = {} /\ spawner[tool[t].e] # "none"

LEMMA CallsStep == TypeOK /\ CallsInv /\ [Next]_vars => CallsInv'
<1> SUFFICES ASSUME TypeOK, CallsInv, [Next]_vars PROVE CallsInv'
  OBVIOUS
<1> USE TypeParts
<1>1. turn' # "entering" => notice' = {}
  <2>1. CASE UNCHANGED <<turn, notice>>
    BY <2>1 DEF CallsInv
  <2>2. CASE turn # "entering" /\ UNCHANGED notice
    BY <2>2 DEF CallsInv
  <2>3. CASE BeginTurn \/ Submit \/ NoticeDropped
    BY <2>3 DEF BeginTurn, Submit, NoticeDropped
  <2>4. ASSUME NEW e \in Execs, SpawnFails(e)
        PROVE  UNCHANGED notice /\ (turn # "entering" \/ UNCHANGED turn)
    BY <2>4 DEF SpawnFails
  <2>5. CASE BareTurn \/ EndTurn \/ CutShort
    <3>1. turn # "entering" /\ UNCHANGED notice
      BY <2>5 DEF BareTurn, EndTurn, CutShort, HandOver
    <3> QED
      BY <2>2, <3>1
  <2>6. ASSUME \/ UserTypes \/ NextBatch \/ UNCHANGED vars
               \/ \E e \in Execs : \/ Launch(e) \/ Decide(e) \/ SpawnReturns(e)
                                   \/ ProcessEnds(e) \/ Collect(e) \/ Announce(e)
               \/ \E t \in Tools :
                      \/ WaitSeesExit(t) \/ WaitTakes(t) \/ WaitGivesUp(t)
                      \/ \E e \in Execs :
                             \/ Query(t, e) \/ WaitBegins(t, e)
                             \/ \E later \in BOOLEAN : Register(t, e, later)
        PROVE  UNCHANGED <<turn, notice>>
    BY <2>6, Zenon
       DEF UserTypes, NextBatch, vars, Launch, Decide, SpawnReturns, ProcessEnds, Collect,
           Announce, WaitSeesExit, WaitTakes, WaitGivesUp, Query, WaitBegins, Register, repl
  <2> QED
    BY <2>1, <2>2, <2>3, <2>4, <2>5, <2>6 DEF Next
<1>2. \A e \in Execs : spawner[e] # "none" => spawner'[e] # "none"
  BY DEF Next, vars, Register, Launch, Decide, SpawnReturns, SpawnFails, ProcessEnds,
         Collect, Announce, Query, WaitBegins, WaitSeesExit, WaitTakes, WaitGivesUp,
         UserTypes, BeginTurn, Submit, NoticeDropped, BareTurn, NextBatch, EndTurn,
         CutShort, HandOver, threads, TypeOK
<1>3. ASSUME \A u \in Tools : tool'[u].op = "starting" => tool'[u] = tool[u]
      PROVE  CallsInv'
  BY <1>1, <1>2, <1>3 DEF CallsInv
<1>4. ASSUME NEW t \in Tools, NEW S \in SUBSET Execs, Return(t, S), UNCHANGED notice
      PROVE  CallsInv'
  BY <1>3, <1>4, ReturnSays, Zenon
<1>5. ASSUME NEW t \in Tools, NEW e \in Execs, NEW later \in BOOLEAN, Register(t, e, later)
      PROVE  CallsInv'
  <2>1. CASE later
    BY <1>4, <1>5, <2>1 DEF Register, repl
  <2>2. CASE ~later
    <3> DEFINE d == [[Idle EXCEPT !.op = "starting"] EXCEPT !.e = e]
    <3>1. d.e = e /\ d.news = {}
      BY DEF Idle
    <3>2. /\ tool' = [tool EXCEPT ![t] = d]
          /\ spawner' = [spawner EXCEPT ![e] = "launching"]
      BY <1>5, <2>2 DEF Register
    <3> HIDE DEF d
    <3>3. /\ tool'[t] = d /\ spawner'[e] = "launching"
          /\ \A u \in Tools \ {t} : tool'[u] = tool[u]
      BY <3>2 DEF Sets
    <3> QED
      BY <1>1, <1>2, <3>1, <3>3 DEF CallsInv
  <2> QED
    BY <2>1, <2>2
<1>6. ASSUME NEW e \in Execs, SpawnReturns(e) \/ SpawnFails(e) PROVE CallsInv'
  <2>1. CASE tool' = tool
    BY <1>3, <2>1
  <2>2. CASE tool' # tool
    <3>1. PICK t \in Tools :
              \/ \E S \in SUBSET Execs : Return(t, S) /\ UNCHANGED notice
              \/ tool' = [tool EXCEPT ![t] = Idle]
      BY <1>6, <2>2 DEF SpawnReturns, SpawnFails, Sets, repl
    <3> QED
      BY <1>3, <1>4, <3>1, IdleTypes DEF Sets
  <2> QED
    BY <2>1, <2>2
<1>7. ASSUME NEW t \in Tools,
             \/ WaitSeesExit(t) \/ WaitGivesUp(t)
             \/ \E e \in Execs : Query(t, e)
      PROVE  CallsInv'
  <2>1. WaitSeesExit(t) => tool[t].e \in Execs
    BY DEF Sets, WaitSeesExit
  <2> QED
    BY <1>4, <1>7, <2>1 DEF WaitSeesExit, WaitGivesUp, Query, repl
<1>8. ASSUME NEW t \in Tools, NEW e \in Execs, WaitBegins(t, e) PROVE CallsInv'
  BY <1>3, <1>8 DEF WaitBegins, Sets, Idle
<1>9. ASSUME NEW t \in Tools, WaitTakes(t) PROVE CallsInv'
  <2>1. CASE Head(Queue) = tool[t].e
    <3>1. Head(Queue) \in Execs
      BY <1>9, QueueTypes DEF WaitTakes
    <3> QED
      BY <1>4, <1>9, <2>1, <3>1 DEF WaitTakes, repl
  <2>2. CASE Head(Queue) # tool[t].e
    <3>1. /\ \A u \in Tools \ {t} : tool'[u] = tool[u]
          /\ tool'[t].op = "waiting"
      BY <1>9, <2>2 DEF WaitTakes, Waiting, Sets, Ops
    <3> QED
      BY <1>3, <3>1
  <2> QED
    BY <2>1, <2>2
<1>10. CASE NextBatch \/ EndTurn \/ CutShort
  BY <1>3, <1>10, IdleTypes DEF NextBatch, EndTurn, HandOver, CutShort
<1>11. ASSUME \/ UserTypes \/ BeginTurn \/ Submit \/ NoticeDropped \/ BareTurn
              \/ UNCHANGED vars
              \/ \E e \in Execs : \/ Launch(e) \/ Decide(e) \/ ProcessEnds(e)
                                  \/ Collect(e) \/ Announce(e)
       PROVE  CallsInv'
  BY <1>3, <1>11
     DEF UserTypes, BeginTurn, Submit, NoticeDropped, BareTurn, vars, Launch, Decide,
         ProcessEnds, Collect, Announce
<1> QED
  BY <1>5, <1>6, <1>7, <1>8, <1>9, <1>10, <1>11 DEF Next

LEMMA CallsInit == Init => CallsInv
  BY IdleTypes DEF Init, CallsInv

\* Only what was started ends, and only what was registered is started.
StagesInv ==
    /\ exited \subseteq started
    /\ \A e \in Execs :
           /\ e \in started => spawner[e] \in {"window", "tail", "done"}
           /\ spawner[e] = "none" => e \notin entries
           /\ e \in fast => e \in exited
           /\ watcher[e] \in {"collected", "done"} => e \in exited
    /\ RunningKept

\* Starts do not move once an execution is registered.
LEMMA StartFixed ==
    ASSUME TypeOK, StagesInv, NEW x \in started, [Next]_vars
    PROVE  x \in delayed' <=> x \in delayed
<1>1. ASSUME NEW t \in Tools, NEW e \in Execs, NEW later \in BOOLEAN, Register(t, e, later)
      PROVE  x # e
  <2>1. /\ x \in Execs /\ spawner[x] # "none"
        /\ \A y \in Execs : spawner[y] # "none" => y < e
    BY <1>1 DEF Register, StagesInv, TypeOK
  <2> QED
    BY <2>1, TimeAssumption DEF Execs
<1> QED
  BY <1>1
     DEF Next, vars, Register, Launch, Decide, SpawnReturns, SpawnFails, ProcessEnds,
         Collect, Announce, Query, WaitBegins, WaitSeesExit, WaitTakes, WaitGivesUp,
         UserTypes, BeginTurn, Submit, NoticeDropped, BareTurn, NextBatch, EndTurn,
         CutShort, HandOver

LEMMA StagesStep == TypeOK /\ CallsInv /\ StagesInv /\ [Next]_vars => StagesInv'
<1> SUFFICES ASSUME TypeOK, CallsInv, StagesInv, [Next]_vars PROVE StagesInv'
  OBVIOUS
<1>1. CASE UNCHANGED <<entries, procs, threads>>
  BY <1>1 DEF StagesInv, RunningKept, procs, threads
<1>2. ASSUME NEW t \in Tools, NEW e \in Execs, NEW later \in BOOLEAN, Register(t, e, later)
      PROVE  StagesInv'
  <2>1. /\ entries' = entries \cup {e} /\ UNCHANGED <<procs, fast, watcher>>
        /\ spawner' = [spawner EXCEPT ![e] = IF later THEN "sleeping" ELSE "launching"]
    BY <1>2 DEF Register
  <2>2. spawner[e] = "none"
    <3>1. spawner[e] # "none" => e < e
      BY <1>2 DEF Register
    <3> QED
      BY <3>1, TimeAssumption DEF Execs
  <2> QED
    BY <2>1, <2>2 DEF StagesInv, RunningKept, TypeOK, procs
<1>3. ASSUME NEW e \in Execs, Launch(e) PROVE StagesInv'
  BY <1>3 DEF Launch, StagesInv, RunningKept, TypeOK
<1>4. ASSUME NEW e \in Execs, Decide(e) PROVE StagesInv'
  BY <1>4 DEF Decide, StagesInv, RunningKept, TypeOK, procs
<1>5. ASSUME NEW e \in Execs, SpawnReturns(e) \/ SpawnFails(e) PROVE StagesInv'
  BY <1>5 DEF SpawnReturns, SpawnFails, StagesInv, RunningKept, TypeOK, procs
<1>6. ASSUME NEW e \in Execs, ProcessEnds(e) PROVE StagesInv'
  BY <1>6 DEF ProcessEnds, StagesInv, RunningKept, TypeOK, threads
<1>7. ASSUME NEW e \in Execs, Collect(e) PROVE StagesInv'
  <2>1. Outdated \subseteq exited
    BY DEF Outdated, Completed
  <2> QED
    BY <1>7, <2>1 DEF Collect, StagesInv, RunningKept, TypeOK, procs
<1>8. ASSUME NEW e \in Execs, Announce(e) PROVE StagesInv'
  BY <1>8 DEF Announce, StagesInv, RunningKept, TypeOK, procs
\* A start that is cut short had its entry.
<1>9. CASE CutShort
  <2>1. /\ UNCHANGED <<entries, procs, fast, watcher>>
        /\ \A e \in Execs : spawner'[e] \in {"done", spawner[e]}
        /\ \A e \in Execs : spawner'[e] # spawner[e] => \E t \in Tools : Starting(t, e)
    BY <1>9 DEF CutShort
  <2>2. \A t \in Tools, e \in Execs : Starting(t, e) => spawner[e] # "none"
    BY DEF CallsInv, Starting
  <2> QED
    BY <2>1, <2>2 DEF StagesInv, RunningKept, procs
<1>10. ASSUME \/ UserTypes \/ BeginTurn \/ Submit \/ NoticeDropped \/ BareTurn
              \/ NextBatch \/ EndTurn \/ UNCHANGED vars
              \/ \E t \in Tools : \/ WaitSeesExit(t) \/ WaitTakes(t) \/ WaitGivesUp(t)
                                  \/ \E e \in Execs : Query(t, e) \/ WaitBegins(t, e)
       PROVE  UNCHANGED <<entries, procs, threads>>
  BY <1>10
     DEF UserTypes, BeginTurn, Submit, NoticeDropped, BareTurn, NextBatch, EndTurn, vars,
         WaitSeesExit, WaitTakes, WaitGivesUp, Query, WaitBegins, procs, threads
<1> QED
  BY <1>1, <1>2, <1>3, <1>4, <1>5, <1>6, <1>7, <1>8, <1>9, <1>10 DEF Next

\* The executions that are over and started later than x.
Later(x) == {y \in exited : Start(y) > Start(x)}

LEMMA LaterGrows ==
    ASSUME TypeOK, StagesInv, [Next]_vars, NEW x \in exited
    PROVE  /\ Later(x) \subseteq Later(x)'
           /\ IsFiniteSet(exited') /\ Later(x)' \subseteq exited'
<1>1. exited \subseteq exited' /\ exited \subseteq started
  BY DEF Next, vars, Register, Launch, Decide, SpawnReturns, SpawnFails, ProcessEnds,
         Collect, Announce, Query, WaitBegins, WaitSeesExit, WaitTakes, WaitGivesUp,
         UserTypes, BeginTurn, Submit, NoticeDropped, BareTurn, NextBatch, EndTurn,
         CutShort, HandOver, procs, StagesInv
<1>2. \A y \in exited : Start(y)' = Start(y)
  BY <1>1, StartFixed DEF Start
<1>3. IsFiniteSet(exited')
  <2>1. exited' \subseteq Execs
    BY TypeStep DEF TypeOK
  <2>2. IsFiniteSet(Execs)
    BY FS_Interval, TimeAssumption DEF Execs
  <2> QED
    BY <2>1, <2>2, FS_Subset
<1> QED
  BY <1>1, <1>2, <1>3 DEF Later

LEMMA KeptStep == TypeOK /\ StagesInv /\ NewestKept /\ [Next]_vars => NewestKept'
<1> SUFFICES ASSUME TypeOK, StagesInv, NewestKept, [Next]_vars,
                    NEW x \in exited' \ entries'
             PROVE  Cardinality(Later(x)') >= Retain
  BY DEF NewestKept, Later
<1>1. x \in exited
  <2>1. CASE x \notin exited
    <3>1. PICK e \in Execs : ProcessEnds(e)
      BY <2>1
         DEF Next, vars, Register, Launch, Decide, SpawnReturns, SpawnFails, Collect,
             Announce, Query, WaitBegins, WaitSeesExit, WaitTakes, WaitGivesUp, UserTypes,
             BeginTurn, Submit, NoticeDropped, BareTurn, NextBatch, EndTurn, CutShort,
             HandOver, procs
    <3>2. x = e /\ e \in started \ exited /\ entries' = entries
      BY <2>1, <3>1 DEF ProcessEnds
    <3>3. e \in entries
      BY <3>2 DEF StagesInv, RunningKept
    <3> QED
      BY <3>2, <3>3
  <2> QED
    BY <2>1
<1>2. Cardinality(Later(x)) >= Retain
  <2>1. CASE x \notin entries
    BY <1>1, <2>1 DEF NewestKept, Later
  <2>2. CASE x \in entries
    <3>1. x \in Outdated
      BY <2>2
         DEF Next, vars, Register, Launch, Decide, SpawnReturns, SpawnFails, ProcessEnds,
             Collect, Announce, Query, WaitBegins, WaitSeesExit, WaitTakes, WaitGivesUp,
             UserTypes, BeginTurn, Submit, NoticeDropped, BareTurn, NextBatch, EndTurn,
             CutShort, HandOver
    <3> DEFINE known == {y \in Completed : Start(y) > Start(x)}
    <3>2. Cardinality(known) >= Retain
      BY <3>1 DEF Outdated
    <3>3. known \subseteq Later(x) /\ IsFiniteSet(Later(x))
      <4>1. known \subseteq Later(x) /\ Later(x) \subseteq Execs
        BY DEF Completed, Later, TypeOK
      <4>2. IsFiniteSet(Execs)
        BY FS_Interval, TimeAssumption DEF Execs
      <4> QED
        BY <4>1, <4>2, FS_Subset
    <3>4. /\ Cardinality(known) <= Cardinality(Later(x))
          /\ Cardinality(known) \in Nat /\ Cardinality(Later(x)) \in Nat
      BY <3>3, FS_Subset, FS_CardinalityType
    <3> HIDE DEF known
    <3> QED
      BY <3>2, <3>4, RetainAssumption
  <2> QED
    BY <2>1, <2>2
<1>3. /\ Later(x) \subseteq Later(x)' /\ IsFiniteSet(Later(x)')
  BY <1>1, LaterGrows, FS_Subset
<1>4. /\ Cardinality(Later(x)) <= Cardinality(Later(x)')
      /\ Cardinality(Later(x)) \in Nat /\ Cardinality(Later(x)') \in Nat
  BY <1>3, FS_Subset, FS_CardinalityType
<1> QED
  BY <1>2, <1>4, RetainAssumption

KeptInv == TypeOK /\ CallsInv /\ StagesInv /\ NewestKept

LEMMA KeptInit == Init => KeptInv
<1> SUFFICES ASSUME Init PROVE KeptInv
  OBVIOUS
<1>1. StagesInv /\ NewestKept
  BY DEF Init, StagesInv, RunningKept, NewestKept
<1> QED
  BY <1>1, TypeInit, CallsInit DEF KeptInv

LEMMA KeptAlways == Spec => []KeptInv
<1>1. KeptInv /\ [Next]_vars => KeptInv'
  BY TypeStep, CallsStep, StagesStep, KeptStep DEF KeptInv
<1> QED
  BY <1>1, KeptInit, PTL DEF Spec

\* Whatever interleaving of starts, ends and collections: an execution that is
\* scheduled or running is never collected, and a finished one only when Retain
\* finished ones started after it (_prune_completed_executions).
THEOREM RetentionHolds == Spec => []Retention
<1>1. KeptInv => Retention
  BY DEF KeptInv, StagesInv, Retention
<1> QED
  BY <1>1, KeptAlways, PTL

-----------------------------------------------------------------------------
(* The mailbox                                                             *)

\* What was taken out of the queue is what was put in first.
PrefixInv == Len(claimed) <= Len(announced) /\ claimed = SubSeq(announced, 1, Len(claimed))

\* What is queued is what was not taken.
LEMMA QueueIsRest ==
    ASSUME Sets, PrefixInv
    PROVE  ToSet(announced) \subseteq ToSet(claimed) \cup ToSet(Queue)
<1>1. /\ Len(announced) \in Nat /\ Len(claimed) \in Nat /\ Len(claimed) <= Len(announced)
      /\ DOMAIN announced = 1 .. Len(announced) /\ DOMAIN claimed = 1 .. Len(claimed)
      /\ announced \in Seq(Execs)
  BY DEF Sets, PrefixInv
<1>2. SUFFICES ASSUME NEW i \in 1 .. Len(announced)
               PROVE  announced[i] \in ToSet(claimed) \cup ToSet(Queue)
  BY <1>1 DEF ToSet
<1>3. CASE i <= Len(claimed)
  <2>1. SubSeq(announced, 1, Len(claimed))[i] = announced[i]
    BY <1>1, <1>3
  <2>2. claimed[i] = announced[i] /\ i \in DOMAIN claimed
    BY <1>1, <1>3, <2>1 DEF PrefixInv
  <2> QED
    BY <2>2 DEF ToSet
<1>4. CASE ~(i <= Len(claimed))
  <2>1. /\ i - Len(claimed) \in 1 .. Len(announced) - Len(claimed)
        /\ Len(Queue) = Len(announced) - Len(claimed)
        /\ Len(claimed) + (i - Len(claimed)) = i
    <3>1. i \in Nat /\ 1 <= i /\ i <= Len(announced) /\ i > Len(claimed)
      BY <1>1, <1>4
    <3>2. \A k \in 1 .. Len(announced) :
              Len(SubSeq(announced, k, Len(announced))) = Len(announced) - k + 1
      BY <1>1
    <3>3. /\ Len(claimed) + 1 \in 1 .. Len(announced)
          /\ Len(announced) - (Len(claimed) + 1) + 1 = Len(announced) - Len(claimed)
      BY <1>1, <3>1
    <3>4. Len(Queue) = Len(announced) - Len(claimed)
      BY <3>2, <3>3 DEF Queue
    <3> QED
      BY <1>1, <3>1, <3>4
  <2>2. Queue[i - Len(claimed)] = announced[i]
    <3>1. Queue[i - Len(claimed)] = announced[Len(claimed) + (i - Len(claimed))]
      BY <2>1, QueueTypes
    <3> QED
      BY <2>1, <3>1
  <2>3. i - Len(claimed) \in DOMAIN Queue
    BY <1>1, <2>1, QueueTypes
  <2> QED
    BY <2>2, <2>3 DEF ToSet
<1> QED
  BY <1>3, <1>4

LEMMA MailboxStep ==
    TypeOK /\ PrefixInv /\ [Next]_vars => PrefixInv' /\ [M!Next]_(M!vars)
<1> SUFFICES ASSUME TypeOK, PrefixInv, [Next]_vars
             PROVE  PrefixInv' /\ [M!Next]_(M!vars)
  OBVIOUS
<1>1. /\ announced \in Seq(Execs) /\ claimed \in Seq(Execs)
      /\ Len(announced) \in Nat /\ Len(claimed) \in Nat
      /\ Len(claimed) <= Len(announced)
      /\ \A i \in 1 .. Len(claimed) : claimed[i] = announced[i]
  <2>1. /\ announced \in Seq(Execs) /\ claimed \in Seq(Execs)
        /\ Len(announced) \in Nat /\ Len(claimed) \in Nat
        /\ Len(claimed) <= Len(announced)
    BY DEF TypeOK, PrefixInv
  <2>2. \A i \in 1 .. Len(claimed) : SubSeq(announced, 1, Len(claimed))[i] = announced[i]
    BY <2>1
  <2> QED
    BY <2>1, <2>2 DEF PrefixInv
<1>2. CASE UNCHANGED queue
  BY <1>2 DEF queue, PrefixInv, M!vars
\* A prefix of what was sent, longer than before or the same.
<1>3. ASSUME NEW k \in 0 .. Len(announced), announced' = announced,
             Len(claimed) <= k, claimed' = SubSeq(announced, 1, k)
      PROVE  PrefixInv' /\ [M!Next]_(M!vars)
  <2>1. Len(claimed') = k
    BY <1>1, <1>3
  <2>2. PrefixInv'
    BY <1>1, <1>3, <2>1 DEF PrefixInv
  <2>3. CASE k = Len(claimed)
    BY <1>3, <2>3 DEF PrefixInv, M!vars
  <2>4. CASE k # Len(claimed)
    <3>1. k \in (Len(claimed) + 1) .. Len(announced)
      BY <1>1, <1>3, <2>4
    <3> QED
      BY <1>3, <2>2, <3>1 DEF M!Next, M!Receive
  <2> QED
    BY <2>2, <2>3, <2>4
<1>4. ASSUME NEW e \in Execs, Announce(e) PROVE PrefixInv' /\ [M!Next]_(M!vars)
  <2>1. announced' = Append(announced, e) /\ claimed' = claimed
    BY <1>4 DEF Announce
  <2>2. Len(claimed') <= Len(announced')
    BY <1>1, <2>1
  <2>3. SubSeq(announced', 1, Len(claimed')) = claimed'
    <3>1. SubSeq(Append(announced, e), 1, Len(claimed)) = SubSeq(announced, 1, Len(claimed))
      BY <1>1
    <3> QED
      BY <2>1, <3>1 DEF PrefixInv
  <2> QED
    BY <2>1, <2>2, <2>3 DEF PrefixInv, M!Next, M!Send
<1>5. ASSUME NEW t \in Tools, WaitTakes(t) PROVE PrefixInv' /\ [M!Next]_(M!vars)
  <2>1. /\ claimed' = Append(claimed, Head(Queue)) /\ announced' = announced
        /\ Queue # <<>>
    BY <1>5 DEF WaitTakes
  <2>2. /\ Len(claimed) + 1 \in 0 .. Len(announced)
        /\ Head(Queue) = announced[Len(claimed) + 1]
    BY <1>1, <2>1 DEF Queue
  <2>3. claimed' = SubSeq(announced, 1, Len(claimed) + 1)
    <3> DEFINE s == SubSeq(announced, 1, Len(claimed) + 1)
    <3>1. /\ s \in Seq(Execs) /\ Len(s) = Len(claimed) + 1
          /\ \A i \in 1 .. Len(claimed) + 1 : s[i] = announced[i]
      BY <1>1, <2>2
    <3>2. /\ claimed' \in Seq(Execs) /\ Len(claimed') = Len(claimed) + 1
          /\ \A i \in 1 .. Len(claimed) + 1 : claimed'[i] = announced[i]
      <4>1. announced[Len(claimed) + 1] \in Execs
        BY <1>1, <2>2
      <4> QED
        BY <1>1, <2>1, <2>2, <4>1
    <3> HIDE DEF s
    <3>3. claimed' = s
      BY <3>1, <3>2
    <3> QED
      BY <3>3 DEF s
  <2> QED
    BY <1>1, <1>3, <2>1, <2>2, <2>3
<1>6. CASE BeginTurn
  <2>1. claimed' = announced /\ announced' = announced
    BY <1>6 DEF BeginTurn
  <2>2. SubSeq(announced, 1, Len(announced)) = announced
    BY <1>1
  <2>3. Len(announced) \in 0 .. Len(announced)
    BY <1>1
  <2>4. claimed' = SubSeq(announced, 1, Len(announced))
    BY <2>1, <2>2
  <2> QED
    BY <1>1, <1>3, <2>1, <2>3, <2>4
<1>7. ASSUME \A e \in Execs : ~Announce(e), \A t \in Tools : ~WaitTakes(t), ~BeginTurn
      PROVE  UNCHANGED queue
  BY <1>7
     DEF Next, vars, Register, Launch, Decide, SpawnReturns, SpawnFails, ProcessEnds,
         Collect, Query, WaitBegins, WaitSeesExit, WaitGivesUp, UserTypes, Submit,
         NoticeDropped, BareTurn, NextBatch, EndTurn, CutShort, HandOver, queue
<1> QED
  BY <1>2, <1>4, <1>5, <1>6, <1>7

-----------------------------------------------------------------------------
(* What is told                                                            *)

SaidInv == KeptInv /\ PrefixInv /\ ToldTruthfully

\* A step that takes no record, hands nothing over and drops nothing that is
\* held keeps what is held or told.
LEMMA SaidKeeps ==
    ASSUME ToldTruthfully, UNCHANGED claimed,
           exited \subseteq exited', told \subseteq told', dropped \subseteq dropped',
           Held \subseteq Held' \cup told',
           told' \cup Held' \cup ToSet(announced') \subseteq exited'
    PROVE  ToldTruthfully'
  BY DEF ToldTruthfully, EndedOnly, NoneMislaid

LEMMA SaidStep == SaidInv /\ [Next]_vars => ToldTruthfully'
<1> SUFFICES ASSUME SaidInv, [Next]_vars PROVE ToldTruthfully'
  OBVIOUS
<1>1. /\ told \subseteq exited /\ Held \subseteq exited /\ ToSet(announced) \subseteq exited
      /\ ToSet(claimed) \subseteq told \cup Held \cup dropped
      /\ ToldTruthfully /\ CallsInv
  BY DEF SaidInv, KeptInv, ToldTruthfully, EndedOnly, NoneMislaid
<1>2. /\ Sets /\ exited \subseteq exited' /\ dropped \subseteq dropped'
      /\ exited \subseteq Execs
  <2>1. exited \subseteq exited' /\ dropped \subseteq dropped'
    BY DEF Next, vars, Register, Launch, Decide, SpawnReturns, SpawnFails, ProcessEnds,
           Collect, Announce, Query, WaitBegins, WaitSeesExit, WaitTakes, WaitGivesUp,
           UserTypes, BeginTurn, Submit, NoticeDropped, BareTurn, NextBatch, EndTurn,
           CutShort, HandOver, Drop, procs, heard
  <2> QED
    BY <2>1, TypeParts DEF SaidInv, KeptInv, Sets
<1>3. /\ \A x : x \in Held <=> x \in notice \/ \E u \in Tools : x \in tool[u].news
      /\ \A x : x \in Held' <=> x \in notice' \/ \E u \in Tools : x \in tool'[u].news
  BY DEF Held
\* A call returns.
<1>4. ASSUME NEW t \in Tools, NEW S \in SUBSET exited, Return(t, S),
             UNCHANGED <<notice, told, queue>>
      PROVE  ToldTruthfully'
  <2>1. Held' \subseteq Held \cup S /\ Held \cup S \subseteq Held' \cup told
    BY <1>2, <1>4, ReturnSays
  <2>2. told' = told /\ announced' = announced /\ claimed' = claimed
    BY <1>4 DEF queue
  <2> QED
    BY <1>1, <1>2, <2>1, <2>2, SaidKeeps
\* Nothing is taken or told, and no call returns.
<1>5. ASSUME UNCHANGED <<notice, told, queue>>,
             \A u \in Tools : tool'[u].news = tool[u].news
      PROVE  ToldTruthfully'
  <2>1. Held' = Held
    BY <1>3, <1>5
  <2>2. told' = told /\ announced' = announced /\ claimed' = claimed
    BY <1>5 DEF queue
  <2> QED
    BY <1>1, <1>2, <2>1, <2>2, SaidKeeps
<1>6. ASSUME NEW t \in Tools, NEW e \in Execs, NEW later \in BOOLEAN, Register(t, e, later)
      PROVE  ToldTruthfully'
  <2>1. UNCHANGED <<notice, told, queue>> /\ tool[t] = Idle
    BY <1>6 DEF Register, CanCall, repl, heard
  <2>2. CASE later
    BY <1>4, <1>6, <2>1, <2>2 DEF Register
  <2>3. CASE ~later
    <3>1. \A u \in Tools : tool'[u].news = tool[u].news
      BY <1>2, <1>6, <2>1, <2>3, IdleTypes DEF Register, Sets, Idle
    <3> QED
      BY <1>5, <2>1, <3>1
  <2> QED
    BY <2>2, <2>3
<1>7. ASSUME NEW e \in Execs, Launch(e) \/ Decide(e) \/ ProcessEnds(e) \/ Collect(e)
      PROVE  ToldTruthfully'
  BY <1>5, <1>7 DEF Launch, Decide, ProcessEnds, Collect, queue, repl, heard
<1>8. ASSUME NEW e \in Execs, SpawnReturns(e) PROVE ToldTruthfully'
  <2>1. {e} \cap fast \subseteq exited
    BY DEF SaidInv, KeptInv, StagesInv
  <2>2. UNCHANGED <<notice, told, queue>>
    BY <1>8 DEF SpawnReturns, repl, heard, queue
  <2>3. tool' = tool \/ \E t \in Tools : Return(t, {e} \cap fast)
    BY <1>8 DEF SpawnReturns
  <2> QED
    BY <1>4, <1>5, <2>1, <2>2, <2>3
<1>9. ASSUME NEW e \in Execs, SpawnFails(e) PROVE ToldTruthfully'
  <2>1. UNCHANGED <<notice, told, queue>>
    BY <1>9 DEF SpawnFails, queue
  <2>2. \/ tool' = tool
        \/ \E t \in Tools : /\ Starting(t, e)
                            /\ Return(t, {}) \/ tool' = [tool EXCEPT ![t] = Idle]
    BY <1>9 DEF SpawnFails
  <2>3. ASSUME NEW t \in Tools, Starting(t, e), tool' = [tool EXCEPT ![t] = Idle]
        PROVE  \A u \in Tools : tool'[u].news = tool[u].news
    <3>1. tool[t].news = {}
      BY <1>1, <2>3 DEF CallsInv, Starting
    <3> QED
      BY <1>2, <2>3, <3>1, IdleTypes DEF Sets
  <2>4. {} \in SUBSET exited
    OBVIOUS
  <2> QED
    BY <1>4, <1>5, <2>1, <2>2, <2>3, <2>4
<1>10. ASSUME NEW e \in Execs, Announce(e) PROVE ToldTruthfully'
  <2>1. e \in exited
    BY <1>10 DEF Announce, SaidInv, KeptInv, StagesInv
  <2>2. ToSet(announced') \subseteq ToSet(announced) \cup {e}
    BY <1>2, <1>10 DEF Announce, Sets, ToSet
  <2>3. Held' = Held /\ told' = told /\ claimed' = claimed
    BY <1>3, <1>10 DEF Announce, repl, heard
  <2> QED
    BY <1>1, <1>2, <2>1, <2>2, <2>3, SaidKeeps
<1>11. ASSUME NEW t \in Tools,
              \/ WaitSeesExit(t) \/ WaitGivesUp(t)
              \/ \E e \in Execs : Query(t, e)
       PROVE  ToldTruthfully'
  BY <1>4, <1>11
     DEF WaitSeesExit, WaitGivesUp, Query, Completed, repl, heard
<1>12. ASSUME NEW t \in Tools, NEW e \in Execs, WaitBegins(t, e) PROVE ToldTruthfully'
  <2>1. \A u \in Tools : tool'[u].news = tool[u].news
    BY <1>2, <1>12 DEF WaitBegins, CanCall, Sets, Idle
  <2> QED
    BY <1>5, <1>12, <2>1 DEF WaitBegins, repl, heard
<1>13. ASSUME NEW t \in Tools, WaitTakes(t) PROVE ToldTruthfully'
  <2> DEFINE h == Head(Queue)
  <2>1. h \in exited /\ h \in Execs
    <3>1. /\ Queue \in Seq(Execs) /\ Queue # <<>>
          /\ ToSet(Queue) \subseteq ToSet(announced)
      BY <1>2, <1>13, QueueTypes DEF WaitTakes
    <3>2. Head(Queue) \in ToSet(Queue)
      BY <3>1 DEF ToSet
    <3> QED
      BY <1>1, <3>1, <3>2
  <2>2. /\ claimed' = Append(claimed, h)
        /\ told' = told /\ announced' = announced /\ notice' = notice
    BY <1>13 DEF WaitTakes, repl, heard
  <2> HIDE DEF h
  <2>3. ToSet(claimed') \subseteq ToSet(claimed) \cup {h}
    BY <1>2, <2>2 DEF Sets, ToSet
  <2>4. Held' \subseteq Held \cup {h} /\ Held \cup {h} \subseteq Held' \cup told
    <3>1. CASE Head(Queue) = tool[t].e
      <4>1. Return(t, {h})
        BY <1>13, <3>1 DEF WaitTakes, h
      <4> QED
        BY <1>2, <2>1, <2>2, <4>1, ReturnSays
    <3>2. CASE Head(Queue) # tool[t].e
      <4>1. /\ tool'[t].news = tool[t].news \cup ({h} \ told)
            /\ \A u \in Tools \ {t} : tool'[u] = tool[u]
        BY <1>2, <1>13, <3>2 DEF WaitTakes, Sets, Ops, h
      <4>2. \A u \in Tools : u # t => tool'[u].news = tool[u].news
        BY <4>1
      <4> QED
        BY <1>3, <2>2, <4>1, <4>2
    <3> QED
      BY <3>1, <3>2
  <2>5. told' \cup Held' \cup ToSet(announced') \subseteq exited'
    BY <1>1, <1>2, <2>1, <2>2, <2>4
  <2>6. ToSet(claimed') \subseteq told' \cup Held' \cup dropped'
    BY <1>1, <1>2, <2>2, <2>3, <2>4
  <2> QED
    BY <2>5, <2>6 DEF ToldTruthfully, EndedOnly, NoneMislaid
<1>14. CASE BeginTurn
  <2>1. /\ claimed' = announced /\ announced' = announced /\ told' = told /\ tool' = tool
        /\ notice = {} /\ notice' = ToSet(Queue) \ told
    BY <1>1, <1>14 DEF BeginTurn, heard, CallsInv
  <2>2. /\ ToSet(Queue) \subseteq ToSet(announced)
        /\ ToSet(announced) \subseteq ToSet(claimed) \cup ToSet(Queue)
    BY <1>2, QueueTypes, QueueIsRest DEF SaidInv
  <2>3. /\ Held' \subseteq Held \cup ToSet(Queue)
        /\ Held \cup ToSet(Queue) \subseteq Held' \cup told
    BY <1>3, <2>1
  <2>4. told' \cup Held' \cup ToSet(announced') \subseteq exited'
    BY <1>1, <1>2, <2>1, <2>2, <2>3
  <2>5. ToSet(claimed') \subseteq told' \cup Held' \cup dropped'
    BY <1>1, <1>2, <2>1, <2>2, <2>3
  <2> QED
    BY <2>4, <2>5 DEF ToldTruthfully, EndedOnly, NoneMislaid
<1>15. CASE Submit
  <2>1. /\ told' = told \cup notice /\ notice' = {} /\ tool' = tool /\ UNCHANGED queue
    BY <1>15 DEF Submit
  <2>2. Held' \subseteq Held /\ notice \subseteq Held /\ Held \subseteq Held' \cup told'
    BY <1>3, <2>1
  <2> QED
    BY <1>1, <1>2, <2>1, <2>2, SaidKeeps DEF queue
<1>16. CASE NextBatch \/ EndTurn
  <2>1. /\ told' = told \cup Held /\ notice' = notice /\ UNCHANGED queue
        /\ \A u \in Tools : tool'[u].news = {}
    BY <1>16, IdleTypes DEF NextBatch, EndTurn, HandOver, repl, queue
  <2>2. Held' \subseteq Held /\ Held \subseteq Held' \cup told'
    BY <1>3, <2>1
  <2> QED
    BY <1>1, <1>2, <2>1, <2>2, SaidKeeps DEF queue
\* What is dropped was taken, told, or can still be taken.
<1>17. CASE NoticeDropped \/ CutShort
  <2>1. /\ told' = told /\ UNCHANGED queue
        /\ Held' \subseteq Held
        /\ (Held \ Held') \cap ToSet(claimed) \subseteq told \cup dropped'
    <3>1. CASE NoticeDropped
      <4>1. /\ told' = told /\ UNCHANGED queue /\ notice' = {} /\ tool' = tool
            /\ dropped' = dropped \cup ((notice \cap (ToSet(claimed) \cup fast)) \ told)
        BY <3>1 DEF NoticeDropped, Drop
      <4> QED
        BY <1>3, <4>1
    <3>2. CASE CutShort
      <4>1. /\ told' = told /\ UNCHANGED queue /\ notice' = notice
            /\ \A u \in Tools : tool'[u].news = {}
            /\ (Held \cap ToSet(claimed)) \ told \subseteq dropped'
        BY <3>2, IdleTypes DEF CutShort, Drop
      <4> QED
        BY <1>3, <4>1
    <3> QED
      BY <1>17, <3>1, <3>2
  <2>2. announced' = announced /\ claimed' = claimed
    BY <2>1 DEF queue
  <2>3. told' \cup Held' \cup ToSet(announced') \subseteq exited'
    BY <1>1, <1>2, <2>1, <2>2
  <2>4. ToSet(claimed') \subseteq told' \cup Held' \cup dropped'
    BY <1>1, <1>2, <2>1, <2>2
  <2> QED
    BY <2>3, <2>4 DEF ToldTruthfully, EndedOnly, NoneMislaid
<1>18. CASE UserTypes \/ BareTurn \/ UNCHANGED vars
  BY <1>5, <1>18 DEF UserTypes, BareTurn, vars, queue, heard
<1> QED
  BY <1>6, <1>7, <1>8, <1>9, <1>10, <1>11, <1>12, <1>13, <1>14, <1>15, <1>16, <1>17, <1>18
     DEF Next

\* The model is never told of a completion that has not happened, by a start, a
\* query, a wait or a notice, whatever they race with; and a record somebody
\* took is in the history or on its way there, unless a turn that was cut short
\* or refused dropped it.
THEOREM TruthTold == Spec => []ToldTruthfully
<1>1. Init => ToldTruthfully
  <2> SUFFICES ASSUME Init PROVE ToldTruthfully
    OBVIOUS
  <2>1. /\ told = {} /\ ToSet(announced) = {} /\ ToSet(claimed) = {}
        /\ Held = {}
    BY IdleTypes DEF Init, ToSet, Held
  <2> QED
    BY <2>1 DEF ToldTruthfully, EndedOnly, NoneMislaid
<1>2. Init => KeptInv /\ PrefixInv
  BY KeptInit DEF Init, PrefixInv
<1>3. SaidInv /\ [Next]_vars => SaidInv'
  <2>1. KeptInv /\ [Next]_vars => KeptInv'
    BY TypeStep, CallsStep, StagesStep, KeptStep DEF KeptInv
  <2>2. TypeOK /\ PrefixInv /\ [Next]_vars => PrefixInv'
    BY MailboxStep
  <2> QED
    BY <2>1, <2>2, SaidStep DEF SaidInv, KeptInv
<1>4. SaidInv => ToldTruthfully
  BY DEF SaidInv
<1>5. Init => SaidInv
  BY <1>1, <1>2 DEF SaidInv
<1> QED
  BY <1>3, <1>4, <1>5, PTL DEF Spec

\* Completion records are taken once each and oldest first, whoever takes them:
\* the safety part of ImplementsMailbox.
THEOREM RecordsOnce == Spec => M!Init /\ [][M!Next]_(M!vars)
<1>1. Init => M!Init /\ PrefixInv
  BY DEF Init, M!Init, PrefixInv
<1>2. TypeOK /\ PrefixInv /\ [Next]_vars => PrefixInv' /\ [M!Next]_(M!vars)
  BY MailboxStep
<1>3. KeptInv => TypeOK
  BY DEF KeptInv
<1> QED
  BY <1>1, <1>2, <1>3, KeptAlways, PTL DEF Spec
=============================================================================
