------------------------ MODULE DurableSessionProofs ------------------------
(***************************************************************************)
(* Proofs about DurableSession, for any number of turns, calls, batches,   *)
(* compactions, crashes and restarts: the write-ahead discipline of the    *)
(* journal, the pairing of every request, the truth of the recovery notes, *)
(* that a resume accounts for what ran, and that /clear is final.  What    *)
(* the functions of History make of a history is taken from the lemmas of  *)
(* FunctionProofs.                                                         *)
(***************************************************************************)
EXTENDS DurableSession, FunctionProofs

JournalFields == {"some", "messages", "pending", "finished", "open"}

\* Replaying a message record or a replacement of the history leaves the tool
\* calls and the open turns alone.
LEMMA ReplayHistory ==
    ASSUME NEW j, DOMAIN j = JournalFields, NEW h,
           NEW k \in {Replay(j, Appended(h)), Replay(j, Reset(h))}
    PROVE  /\ DOMAIN k = JournalFields
           /\ k.pending = j.pending /\ k.finished = j.finished /\ k.open = j.open
<1>1. CASE k = Replay(j, Appended(h))
  BY <1>1 DEF Replay, Appended, JournalFields
<1>2. CASE k = Replay(j, Reset(h))
  BY <1>2 DEF Replay, Reset, ReplaceHistory, JournalFields
<1> QED
  BY <1>1, <1>2

\* A step that journals at most a message or a new history.
JournalsHistory == \E h : jr' \in {jr, Replay(jr, Appended(h)), Replay(jr, Reset(h))}

LEMMA HistoryActions ==
    ASSUME \/ Start \/ Submit \/ CompactAndRetry \/ CompactNow \/ AnswerCalls
           \/ AppendResult \/ StepDone \/ AnswerFinal \/ StopBlocked \/ Clear
           \/ CrashSaving
    PROVE  JournalsHistory
<1>1. CASE Start
  <2>1. jr' = IF Capture THEN Replay(jr, Appended(System)) ELSE jr
    BY <1>1 DEF Start
  <2> QED
    BY <2>1 DEF JournalsHistory
<1>2. CASE Submit
  <2>1. jr' \in {Replay(jr, Reset(messages')), Replay(jr, Appended(User({<<"task", turns>>})))}
    BY <1>2 DEF Submit, Write
  <2> QED
    BY <2>1 DEF JournalsHistory
<1>3. CASE CompactAndRetry \/ CompactNow
  <2>1. \E h : jr' = Replay(jr, Reset(h))
    BY <1>3 DEF CompactAndRetry, CompactNow, Compact, Write
  <2> QED
    BY <2>1 DEF JournalsHistory
<1>4. CASE AnswerCalls
  <2>1. \E m : jr' = Replay(jr, Appended(m))
    BY <1>4 DEF AnswerCalls, Write
  <2> QED
    BY <2>1 DEF JournalsHistory
<1>5. CASE AppendResult
  <2>1. \E m : jr' = Replay(jr, Appended(m))
    BY <1>5 DEF AppendResult, Write
  <2> QED
    BY <2>1 DEF JournalsHistory
<1>6. CASE StepDone
  <2>1. jr' = jr \/ \E m : jr' = Replay(jr, Appended(m))
    BY <1>6 DEF StepDone, Write
  <2> QED
    BY <2>1 DEF JournalsHistory
<1>7. CASE AnswerFinal \/ StopBlocked
  <2>1. \E m : jr' = Replay(jr, Appended(m))
    BY <1>7 DEF AnswerFinal, StopBlocked, Write
  <2> QED
    BY <2>1 DEF JournalsHistory
<1>8. CASE Clear
  <2>1. jr' = Replay(jr, Reset(messages'))
    BY <1>8 DEF Clear, Write
  <2> QED
    BY <2>1 DEF JournalsHistory
<1>9. CASE CrashSaving
  <2>1. jr' = jr \/ \E h : jr' = Replay(jr, Reset(h))
    BY <1>9 DEF CrashSaving, Write
  <2> QED
    BY <2>1 DEF JournalsHistory
<1> QED
  BY <1>1, <1>2, <1>3, <1>4, <1>5, <1>6, <1>7, <1>8, <1>9

\* Such a step leaves the tool calls and the open turns alone.
LEMMA HistoryOnly ==
    ASSUME DOMAIN jr = JournalFields, JournalsHistory
    PROVE  /\ DOMAIN jr' = JournalFields
           /\ jr'.pending = jr.pending /\ jr'.finished = jr.finished /\ jr'.open = jr.open
<1>1. PICK h : jr' \in {jr, Replay(jr, Appended(h)), Replay(jr, Reset(h))}
  BY DEF JournalsHistory
<1>2. CASE jr' = jr
  BY <1>2
<1>3. CASE jr' \in {Replay(jr, Appended(h)), Replay(jr, Reset(h))}
  BY <1>3, ReplayHistory
<1> QED
  BY <1>1, <1>2, <1>3

\* A turn record changes the number of open turns and nothing else.
LEMMA ReplayTurn ==
    ASSUME NEW j, DOMAIN j = JournalFields
    PROVE  /\ DOMAIN Replay(j, TurnStart) = JournalFields
           /\ DOMAIN Replay(j, TurnEnd) = JournalFields
           /\ Replay(j, TurnStart).pending = j.pending
           /\ Replay(j, TurnStart).finished = j.finished
           /\ Replay(j, TurnStart).open = j.open + 1
           /\ Replay(j, TurnEnd).pending = j.pending
           /\ Replay(j, TurnEnd).finished = j.finished
           /\ Replay(j, TurnEnd).open = IF j.open > 0 THEN j.open - 1 ELSE j.open
<1>1. /\ DOMAIN Replay(j, TurnStart) = JournalFields
      /\ Replay(j, TurnStart).pending = j.pending
      /\ Replay(j, TurnStart).finished = j.finished
      /\ Replay(j, TurnStart).open = j.open + 1
  BY DEF Replay, TurnStart, JournalFields
<1>2. /\ DOMAIN Replay(j, TurnEnd) = JournalFields
      /\ Replay(j, TurnEnd).pending = j.pending
      /\ Replay(j, TurnEnd).finished = j.finished
      /\ Replay(j, TurnEnd).open = IF j.open > 0 THEN j.open - 1 ELSE j.open
  BY DEF Replay, TurnEnd, JournalFields
<1> QED
  BY <1>1, <1>2

\* A tool record moves the call it names and those that share its id.
LEMMA ReplayTool ==
    ASSUME NEW j, DOMAIN j = JournalFields, NEW c
    PROVE  /\ DOMAIN Replay(j, ToolStart(c)) = JournalFields
           /\ Replay(j, ToolStart(c)).pending = Without(j.pending, c) \cup {c}
           /\ Replay(j, ToolStart(c)).finished = j.finished
           /\ Replay(j, ToolStart(c)).open = j.open
           /\ DOMAIN Replay(j, ToolEnd(c)) = JournalFields
           /\ Replay(j, ToolEnd(c)).pending = Without(j.pending, c)
           /\ Replay(j, ToolEnd(c)).finished = Without(j.finished, c) \cup {c}
           /\ Replay(j, ToolEnd(c)).open = j.open
<1>1. /\ DOMAIN Replay(j, ToolStart(c)) = JournalFields
      /\ Replay(j, ToolStart(c)).pending = Without(j.pending, c) \cup {c}
      /\ Replay(j, ToolStart(c)).finished = j.finished
      /\ Replay(j, ToolStart(c)).open = j.open
  BY DEF Replay, ToolStart, StartCall, JournalFields
<1>2. /\ DOMAIN Replay(j, ToolEnd(c)) = JournalFields
      /\ Replay(j, ToolEnd(c)).pending = Without(j.pending, c)
      /\ Replay(j, ToolEnd(c)).finished = Without(j.finished, c) \cup {c}
      /\ Replay(j, ToolEnd(c)).open = j.open
  BY DEF Replay, ToolEnd, EndCall, JournalFields
<1> QED
  BY <1>1, <1>2
-----------------------------------------------------------------------------
(* A turn that is open is seen to be open                                  *)

OpenInv ==
    /\ DOMAIN jr = JournalFields
    /\ jr.open \in Nat
    /\ MidTurnSeen
    /\ InTurn => ~cut
    /\ cut \in BOOLEAN

LEMMA OpenInit == Init => OpenInv
<1> SUFFICES ASSUME Init PROVE OpenInv
  OBVIOUS
<1>1. DOMAIN jr = JournalFields /\ jr.open \in Nat
  BY DEF Init, EmptyJournal, JournalFields
<1>2. cut = FALSE /\ ~InTurn
  BY DEF Init, InTurn, InLoop
<1> QED
  BY <1>1, <1>2 DEF OpenInv, MidTurnSeen

\* A step that writes no turn record and neither enters nor leaves a turn.
OpenQuiet ==
    /\ DOMAIN jr' = JournalFields
    /\ jr'.open = jr.open
    /\ InTurn' <=> InTurn
    /\ cut' = cut

LEMMA OpenQuietStep == OpenInv /\ OpenQuiet => OpenInv'
  BY DEF OpenInv, OpenQuiet, MidTurnSeen, MidTurn, InTurn

\* The steps of a turn that journal a message, a tool record or nothing.
LEMMA OpenInsideTurn ==
    ASSUME OpenInv,
           Submit \/ Resubmit \/ ModelAnswers \/ DoubleBudget \/ TurnAborts \/ CompactAndRetry
             \/ AnswerCalls \/ StartTool \/ RefuseTool \/ RunTool \/ EndTool
             \/ ToolRaises \/ AppendResult \/ CollectResult \/ StepDone
             \/ AnswerFinal \/ StopBlocked \/ ReplyStands
    PROVE  OpenInv'
<1> USE DEF OpenQuiet, InTurn, InLoop, Goto, disk, memory, bookkeeping, ghosts
<1>0. DOMAIN jr = JournalFields
  BY DEF OpenInv
<1>1. CASE Submit
  <2>1. DOMAIN jr' = JournalFields /\ jr'.open = jr.open
    BY <1>0, <1>1, HistoryActions, HistoryOnly
  <2> QED
    BY <1>1, <2>1, OpenQuietStep DEF Submit
<1>2. CASE Resubmit \/ ModelAnswers \/ DoubleBudget \/ TurnAborts \/ RunTool \/ CollectResult \/ ReplyStands
  BY <1>0, <1>2, OpenQuietStep
     DEF Resubmit, ModelAnswers, DoubleBudget, TurnAborts, RunTool, CollectResult, ReplyStands
<1>3. CASE CompactAndRetry
  <2>1. DOMAIN jr' = JournalFields /\ jr'.open = jr.open
    BY <1>0, <1>3, HistoryActions, HistoryOnly
  <2> QED
    BY <1>3, <2>1, OpenQuietStep DEF CompactAndRetry
<1>4. CASE AnswerCalls
  <2>1. DOMAIN jr' = JournalFields /\ jr'.open = jr.open
    BY <1>0, <1>4, HistoryActions, HistoryOnly
  <2> QED
    BY <1>4, <2>1, OpenQuietStep DEF AnswerCalls
<1>5. CASE StartTool \/ RefuseTool \/ EndTool \/ ToolRaises
  <2>1. DOMAIN jr' = JournalFields /\ jr'.open = jr.open
    BY <1>0, <1>5, ReplayTool DEF StartTool, RefuseTool, EndTool, ToolRaises, Write
  <2> QED
    BY <1>5, <2>1, OpenQuietStep DEF StartTool, RefuseTool, EndTool, ToolRaises
<1>6. CASE AppendResult \/ AnswerFinal \/ StopBlocked
  <2>1. DOMAIN jr' = JournalFields /\ jr'.open = jr.open
    BY <1>0, <1>6, HistoryActions, HistoryOnly
  <2> QED
    BY <1>6, <2>1, OpenQuietStep DEF AppendResult, AnswerFinal, StopBlocked
<1>7. CASE StepDone
  <2>1. DOMAIN jr' = JournalFields /\ jr'.open = jr.open
    BY <1>0, <1>7, HistoryActions, HistoryOnly
  <2> QED
    BY <1>7, <2>1, OpenQuietStep DEF StepDone
<1> QED
  BY <1>1, <1>2, <1>3, <1>4, <1>5, <1>6, <1>7

\* The steps that open or close a turn, and those between turns.
LEMMA OpenBetweenTurns ==
    ASSUME OpenInv,
           Start \/ BeginTurn \/ PromptBlocked \/ InterruptedEarly \/ EndTurn
             \/ SaveSnapshot \/ CompactNow \/ Clear \/ Exit \/ Crash \/ CrashSaving
    PROVE  OpenInv'
<1> USE DEF InTurn, InLoop, Goto, disk, memory, bookkeeping, ghosts
<1>0. DOMAIN jr = JournalFields /\ jr.open \in Nat /\ cut \in BOOLEAN
  BY DEF OpenInv
<1>1. CASE Start
  <2>1. DOMAIN jr' = JournalFields /\ jr'.open = jr.open
    BY <1>0, <1>1, HistoryActions, HistoryOnly
  <2> QED
    BY <1>1, <2>1, OpenQuietStep DEF Start, OpenQuiet
<1>2. CASE BeginTurn
  <2>1. DOMAIN jr' = JournalFields /\ jr'.open = jr.open + 1
    BY <1>0, <1>2, ReplayTurn DEF BeginTurn, Write
  <2>2. jr'.open \in Nat /\ MidTurn(jr)'
    BY <1>0, <2>1 DEF MidTurn
  <2>3. cut' = FALSE
    BY <1>2 DEF BeginTurn
  <2> QED
    BY <2>1, <2>2, <2>3 DEF OpenInv, MidTurnSeen
<1>3. CASE PromptBlocked \/ SaveSnapshot
  BY <1>0, <1>3, OpenQuietStep DEF PromptBlocked, SaveSnapshot, OpenQuiet
<1>4. CASE InterruptedEarly
  BY <1>4 DEF InterruptedEarly, OpenInv, MidTurnSeen, MidTurn
<1>5. CASE EndTurn
  <2>0. jr' = Replay(jr, TurnEnd)
    BY <1>5 DEF EndTurn, Write
  <2>1. DOMAIN jr' = JournalFields /\ jr'.open \in Nat
    <3>1. /\ DOMAIN jr' = JournalFields
          /\ jr'.open = IF jr.open > 0 THEN jr.open - 1 ELSE jr.open
      BY <1>0, <2>0, ReplayTurn
    <3> QED
      BY <1>0, <3>1
  <2>2. pc = "close" /\ pc' = "save" /\ cut' = cut /\ ~cut
    BY <1>5 DEF EndTurn, OpenInv
  <2> QED
    BY <1>0, <2>1, <2>2 DEF OpenInv, MidTurnSeen, MidTurn
<1>6. CASE CompactNow
  <2>1. DOMAIN jr' = JournalFields /\ jr'.open = jr.open
    BY <1>0, <1>6, HistoryActions, HistoryOnly
  <2> QED
    BY <1>6, <2>1, OpenQuietStep DEF CompactNow, OpenQuiet
<1>7. CASE Clear
  <2>1. DOMAIN jr' = JournalFields /\ jr'.open = jr.open
    BY <1>0, <1>7, HistoryActions, HistoryOnly
  <2> QED
    BY <1>7, <2>1, OpenQuietStep DEF Clear, OpenQuiet
<1>8. CASE Exit
  BY <1>0, <1>8, OpenQuietStep DEF Exit, Stop, OpenQuiet
<1>9. CASE Crash
  BY <1>0, <1>9 DEF Crash, Stop, OpenInv, MidTurnSeen, MidTurn
<1>10. CASE CrashSaving
  <2>1. DOMAIN jr' = JournalFields /\ jr'.open = jr.open
    BY <1>0, <1>10, HistoryActions, HistoryOnly
  <2>2. pc' = "down" /\ cut' = (cut \/ InTurn)
    BY <1>10 DEF CrashSaving, Stop
  <2> QED
    BY <1>0, <2>1, <2>2 DEF OpenInv, MidTurnSeen, MidTurn
<1> QED
  BY <1>1, <1>2, <1>3, <1>4, <1>5, <1>6, <1>7, <1>8, <1>9, <1>10

LEMMA OpenStep == OpenInv /\ [Next]_vars => OpenInv'
<1> SUFFICES ASSUME OpenInv, [Next]_vars PROVE OpenInv'
  OBVIOUS
<1>1. CASE Next
  BY <1>1, OpenInsideTurn, OpenBetweenTurns DEF Next, Turn
<1>2. CASE UNCHANGED vars
  BY <1>2 DEF vars, disk, bookkeeping, ghosts, OpenInv, MidTurnSeen, MidTurn, InTurn
<1> QED
  BY <1>1, <1>2

\* Whenever a process is inside a turn, or the last one died inside it, the
\* journal on disk says so.
THEOREM OpenTurnSeen == Spec => []MidTurnSeen
<1>1. OpenInv => MidTurnSeen
  BY DEF OpenInv
<1> QED
  BY <1>1, OpenInit, OpenStep, PTL DEF Spec
-----------------------------------------------------------------------------
(* Tool effects are journalled before they happen                          *)

\* The calls made so far, when the provider never mints an id twice.
Minted == {c \in Call : c.id = c.n /\ c.n <= calls}

\* Where the current answer's calls are being dispatched.
Working == {"started", "denied", "ran"}
Dispatching == {"dispatch", "ended"} \cup Working

CallsInv ==
    /\ DOMAIN jr = JournalFields
    /\ calls \in Nat
    /\ todo \in Seq(Minted)
    /\ ran \cup jr.pending \cup jr.finished \subseteq Minted

\* What is still to be dispatched is new to the journal; the call at its head
\* is in flight while its tool may run.
DispatchInv ==
    /\ pc \in Working \cup {"ended"} => todo # <<>>
    /\ pc = "started" => Head(todo) \in jr.pending
    /\ pc \in Dispatching =>
          \A i, j \in 1 .. Len(todo) : todo[i] = todo[j] => i = j
    /\ pc \in Dispatching =>
          \A i \in 1 .. Len(todo) : todo[i] \in jr.finished => pc = "ended" /\ i = 1

WriteAhead == EffectsJournalled /\ InFlightUnended

CallInv == CallsInv /\ DispatchInv /\ WriteAhead

LEMMA CallInit == Init => CallInv
<1> SUFFICES ASSUME Init PROVE CallInv
  OBVIOUS
<1>1. /\ DOMAIN jr = JournalFields
      /\ jr.pending = {} /\ jr.finished = {} /\ ran = {}
  BY DEF Init, EmptyJournal, JournalFields
<1>2. calls \in Nat /\ todo \in Seq(Minted)
  BY DEF Init
<1>3. pc \notin Dispatching /\ pc \notin Working \cup {"ended"} /\ pc # "started"
  BY DEF Init, Dispatching, Working
<1> QED
  BY <1>1, <1>2, <1>3 DEF CallInv, CallsInv, DispatchInv, WriteAhead,
     EffectsJournalled, InFlightUnended

\* A step that writes no tool record, runs no tool, and does not dispatch.
CallQuiet ==
    /\ DOMAIN jr' = JournalFields
    /\ jr'.pending = jr.pending /\ jr'.finished = jr.finished
    /\ ran' = ran /\ calls' = calls
    /\ todo' \in {todo, <<>>}
    /\ pc' \notin Dispatching

LEMMA CallQuietStep == CallInv /\ CallQuiet => CallInv'
<1> SUFFICES ASSUME CallInv, CallQuiet PROVE CallInv'
  OBVIOUS
<1>1. Minted' = Minted
  BY DEF CallQuiet, Minted
<1>2. CallsInv'
  <2>1. <<>> \in Seq(Minted) /\ todo \in Seq(Minted)
    BY DEF CallInv, CallsInv
  <2>2. todo' \in Seq(Minted')
    BY <1>1, <2>1 DEF CallQuiet
  <2> QED
    BY <1>1, <2>2 DEF CallInv, CallsInv, CallQuiet
<1>3. DispatchInv'
  BY DEF CallQuiet, DispatchInv, Dispatching, Working
<1>4. WriteAhead'
  BY DEF CallInv, WriteAhead, EffectsJournalled, InFlightUnended, CallQuiet
<1> QED
  BY <1>2, <1>3, <1>4 DEF CallInv

\* Everything but the dispatch of tool calls.
LEMMA CallElsewhere ==
    ASSUME CallInv,
           \/ Start \/ BeginTurn \/ PromptBlocked \/ Submit \/ Resubmit
           \/ InterruptedEarly \/ ModelAnswers \/ DoubleBudget \/ TurnAborts \/ CompactAndRetry
           \/ CompactNow \/ StepDone \/ AnswerFinal \/ StopBlocked \/ ReplyStands
           \/ EndTurn \/ SaveSnapshot \/ Clear \/ Exit \/ Crash \/ CrashSaving
    PROVE  CallInv'
<1> USE DEF CallQuiet, Dispatching, Working, Goto, disk, memory, bookkeeping, ghosts
<1>0. DOMAIN jr = JournalFields
  BY DEF CallInv, CallsInv
<1>1. CASE Start
  <2>1. /\ DOMAIN jr' = JournalFields
        /\ jr'.pending = jr.pending /\ jr'.finished = jr.finished
    BY <1>0, <1>1, HistoryActions, HistoryOnly
  <2> QED
    BY <1>1, <2>1, CallQuietStep DEF Start
<1>8. CASE Submit
  <2>1. /\ DOMAIN jr' = JournalFields
        /\ jr'.pending = jr.pending /\ jr'.finished = jr.finished
    BY <1>0, <1>8, HistoryActions, HistoryOnly
  <2> QED
    BY <1>8, <2>1, CallQuietStep DEF Submit
<1>2. CASE BeginTurn \/ EndTurn
  <2>1. /\ DOMAIN jr' = JournalFields
        /\ jr'.pending = jr.pending /\ jr'.finished = jr.finished
    BY <1>0, <1>2, ReplayTurn DEF BeginTurn, EndTurn, Write
  <2> QED
    BY <1>2, <2>1, CallQuietStep DEF BeginTurn, EndTurn
<1>3. CASE \/ PromptBlocked \/ Resubmit \/ InterruptedEarly \/ ModelAnswers
           \/ DoubleBudget \/ TurnAborts \/ ReplyStands \/ SaveSnapshot
  BY <1>0, <1>3, CallQuietStep
     DEF PromptBlocked, Resubmit, InterruptedEarly, ModelAnswers, DoubleBudget, TurnAborts,
         ReplyStands, SaveSnapshot
<1>4. CASE CompactAndRetry \/ CompactNow
  <2>1. /\ DOMAIN jr' = JournalFields
        /\ jr'.pending = jr.pending /\ jr'.finished = jr.finished
    BY <1>0, <1>4, HistoryActions, HistoryOnly
  <2> QED
    BY <1>4, <2>1, CallQuietStep DEF CompactAndRetry, CompactNow
<1>5. CASE StepDone
  <2>1. /\ DOMAIN jr' = JournalFields
        /\ jr'.pending = jr.pending /\ jr'.finished = jr.finished
    BY <1>0, <1>5, HistoryActions, HistoryOnly
  <2> QED
    BY <1>5, <2>1, CallQuietStep DEF StepDone
<1>6. CASE AnswerFinal \/ StopBlocked
  <2>1. /\ DOMAIN jr' = JournalFields
        /\ jr'.pending = jr.pending /\ jr'.finished = jr.finished
    BY <1>0, <1>6, HistoryActions, HistoryOnly
  <2> QED
    BY <1>6, <2>1, CallQuietStep DEF AnswerFinal, StopBlocked
<1>9. CASE Clear
  <2>1. /\ DOMAIN jr' = JournalFields
        /\ jr'.pending = jr.pending /\ jr'.finished = jr.finished
    BY <1>0, <1>9, HistoryActions, HistoryOnly
  <2> QED
    BY <1>9, <2>1, CallQuietStep DEF Clear
<1>7. CASE Exit \/ Crash
  BY <1>0, <1>7, CallQuietStep DEF Exit, Crash, Stop
<1>10. CASE CrashSaving
  <2>1. /\ DOMAIN jr' = JournalFields
        /\ jr'.pending = jr.pending /\ jr'.finished = jr.finished
    BY <1>0, <1>10, HistoryActions, HistoryOnly
  <2> QED
    BY <1>10, <2>1, CallQuietStep DEF CrashSaving, Stop
<1> QED
  BY <1>1, <1>2, <1>3, <1>4, <1>5, <1>6, <1>7, <1>8, <1>9, <1>10

\* With ids that name their calls, a record of c moves c and no other call.
LEMMA MintedById ==
    ASSUME NEW S, S \subseteq Minted, NEW c \in Minted
    PROVE  Without(S, c) = S \ {c}
<1>1. ASSUME NEW d \in S PROVE d.id # c.id <=> d # c
  <2>1. d \in [id : Nat \ {NoCall}, n : Nat \ {0}] /\ c \in [id : Nat \ {NoCall}, n : Nat \ {0}]
    BY DEF Minted, Call
  <2>2. d.id = d.n /\ c.id = c.n
    BY DEF Minted
  <2> QED
    BY <2>1, <2>2
<1> QED
  BY <1>1 DEF Without

LEMMA CallDispatch ==
    ASSUME CallInv, ReuseIds = FALSE,
           \/ AnswerCalls \/ StartTool \/ RefuseTool \/ RunTool \/ EndTool
           \/ ToolRaises \/ AppendResult \/ CollectResult
    PROVE  CallInv'
<1> USE DEF Dispatching, Working, Goto, disk, memory, bookkeeping, ghosts
<1>0. /\ DOMAIN jr = JournalFields /\ calls \in Nat /\ todo \in Seq(Minted)
      /\ ran \subseteq Minted /\ jr.pending \subseteq Minted /\ jr.finished \subseteq Minted
      /\ ran \subseteq jr.pending \cup jr.finished
      /\ jr.pending \cap jr.finished = {}
  BY DEF CallInv, CallsInv, WriteAhead, EffectsJournalled, InFlightUnended
<1>1. CASE AnswerCalls
  <2>1. PICK k \in 1 .. MaxBatch :
            /\ calls' = calls + k
            /\ \E c \in NewCalls(k) : todo' = c
    BY <1>1 DEF AnswerCalls
  <2>2. PICK c \in NewCalls(k) : todo' = c
    BY <2>1
  <2>3. pc' = "dispatch" /\ ran' = ran
    BY <1>1 DEF AnswerCalls
  <2>4. /\ DOMAIN jr' = JournalFields
        /\ jr'.pending = jr.pending /\ jr'.finished = jr.finished
    BY <1>0, <1>1, HistoryActions, HistoryOnly
  <2>5. k \in Nat \ {0} /\ calls' \in Nat
    BY <1>0, <2>1, BoundsAssumption
  <2>6. c = [i \in 1 .. k |-> [id |-> calls + i, n |-> calls + i]]
    <3>1. PICK f \in NewIds(k) : c = [i \in 1 .. k |-> [id |-> f[i], n |-> calls + i]]
      BY DEF NewCalls
    <3>2. f = [i \in 1 .. k |-> calls + i]
      BY ReuseIds = FALSE DEF NewIds, Minting
    <3> QED
      BY <3>1, <3>2
  <2>7. \A i \in 1 .. k : c[i] \in Minted' /\ c[i].n = calls + i
    <3> SUFFICES ASSUME NEW i \in 1 .. k PROVE c[i] \in Minted' /\ c[i].n = calls + i
      OBVIOUS
    <3>1. calls + i \in Nat \ {0} /\ calls + i <= calls'
      BY <1>0, <2>1, <2>5
    <3>2. c[i] = [id |-> calls + i, n |-> calls + i]
      BY <2>6
    <3> QED
      BY <3>1, <3>2 DEF Minted, Call, NoCall
  <2>8. c \in Seq(Minted') /\ Len(c) = k
    <3>1. c \in [1 .. k -> Minted']
      BY <2>6, <2>7
    <3> QED
      BY <2>5, <3>1
  <2>9. Minted \subseteq Minted'
    BY <1>0, <2>1, <2>5 DEF Minted, Call
  <2>10. CallsInv'
    BY <1>0, <2>2, <2>3, <2>4, <2>5, <2>8, <2>9 DEF CallsInv
  <2>11. DispatchInv'
    <3>1. \A i, j \in 1 .. Len(todo') : todo'[i] = todo'[j] => i = j
      BY <1>0, <2>2, <2>5, <2>7, <2>8
    <3>2. \A d \in jr.finished : d.n <= calls
      BY <1>0 DEF Minted
    <3>3. \A i \in 1 .. Len(todo') : todo'[i] \notin jr'.finished
      BY <1>0, <2>2, <2>4, <2>5, <2>7, <2>8, <3>2
    <3> QED
      BY <2>3, <3>1, <3>3 DEF DispatchInv
  <2>12. WriteAhead'
    BY <1>0, <2>3, <2>4 DEF WriteAhead, EffectsJournalled, InFlightUnended
  <2> QED
    BY <2>10, <2>11, <2>12 DEF CallInv
<1>2. CASE StartTool \/ RefuseTool
  <2>1. PICK c : c = Head(todo) /\ c \in Minted /\ c = todo[1] /\ Len(todo) > 0
    BY <1>0, <1>2 DEF StartTool, RefuseTool
  <2>2. jr' = Replay(jr, ToolStart(c))
    BY <1>2, <2>1 DEF StartTool, RefuseTool, Write
  <2>3. /\ DOMAIN jr' = JournalFields
        /\ jr'.pending = jr.pending \cup {c} /\ jr'.finished = jr.finished
    BY <1>0, <2>1, <2>2, ReplayTool, MintedById
  <2>4. /\ pc = "dispatch" /\ pc' \in {"started", "denied"}
        /\ todo' = todo /\ ran' = ran /\ calls' = calls
    BY <1>2 DEF StartTool, RefuseTool
  <2>5. c \notin jr.finished
    BY <2>1, <2>4 DEF CallInv, DispatchInv
  <2>6. Minted' = Minted
    BY <2>4 DEF Minted
  <2>7. CallsInv'
    BY <1>0, <2>1, <2>3, <2>4, <2>6 DEF CallsInv
  <2>8. DispatchInv'
    BY <1>0, <2>1, <2>3, <2>4 DEF CallInv, DispatchInv
  <2>9. WriteAhead'
    BY <1>0, <2>3, <2>4, <2>5 DEF WriteAhead, EffectsJournalled, InFlightUnended
  <2> QED
    BY <2>7, <2>8, <2>9 DEF CallInv
<1>3. CASE RunTool
  <2>1. /\ pc = "started" /\ pc' = "ran" /\ jr' = jr /\ todo' = todo /\ calls' = calls
        /\ ran' = ran \cup {Head(todo)}
    BY <1>3 DEF RunTool
  <2>2. Head(todo) \in jr.pending
    BY <2>1 DEF CallInv, DispatchInv
  <2>3. Minted' = Minted
    BY <2>1 DEF Minted
  <2>4. CallsInv'
    BY <1>0, <2>1, <2>2, <2>3 DEF CallsInv
  <2>5. DispatchInv'
    BY <2>1 DEF CallInv, DispatchInv
  <2>6. WriteAhead'
    BY <1>0, <2>1, <2>2 DEF WriteAhead, EffectsJournalled, InFlightUnended
  <2> QED
    BY <2>4, <2>5, <2>6 DEF CallInv
<1>4. CASE EndTool \/ ToolRaises
  <2>1. pc \in {"ran", "denied"} /\ pc' \in {"ended", "close"}
    BY <1>4 DEF EndTool, ToolRaises
  <2>2. todo # <<>>
    BY <2>1 DEF CallInv, DispatchInv
  <2>3. PICK c : c = Head(todo) /\ c \in Minted /\ c = todo[1] /\ Len(todo) > 0
    BY <1>0, <2>2
  <2>4. jr' = Replay(jr, ToolEnd(c)) /\ todo' = todo /\ ran' = ran /\ calls' = calls
    BY <1>4, <2>3 DEF EndTool, ToolRaises, Write
  <2>5. /\ DOMAIN jr' = JournalFields
        /\ jr'.pending = jr.pending \ {c}
        /\ jr'.finished = (jr.finished \ {c}) \cup {c}
    BY <1>0, <2>3, <2>4, ReplayTool, MintedById
  <2>6. Minted' = Minted
    BY <2>4 DEF Minted
  <2>7. CallsInv'
    BY <1>0, <2>3, <2>4, <2>5, <2>6 DEF CallsInv
  <2>8. DispatchInv'
    <3>1. \A i, j \in 1 .. Len(todo) : todo[i] = todo[j] => i = j
      BY <2>1 DEF CallInv, DispatchInv
    <3>2. \A i \in 1 .. Len(todo) : todo[i] \notin jr.finished
      BY <2>1 DEF CallInv, DispatchInv
    <3>3. \A i \in 1 .. Len(todo) : todo[i] \in jr'.finished => i = 1
      BY <2>3, <2>5, <3>1, <3>2
    <3> QED
      BY <2>1, <2>2, <2>4, <3>1, <3>3 DEF DispatchInv
  <2>9. WriteAhead'
    BY <1>0, <2>4, <2>5 DEF WriteAhead, EffectsJournalled, InFlightUnended
  <2> QED
    BY <2>7, <2>8, <2>9 DEF CallInv
<1>5. CASE AppendResult \/ CollectResult
  <2>1. /\ pc = "ended" /\ pc' = "dispatch"
        /\ todo' = Tail(todo) /\ ran' = ran /\ calls' = calls
    BY <1>5 DEF AppendResult, CollectResult
  <2>2. /\ DOMAIN jr' = JournalFields
        /\ jr'.pending = jr.pending /\ jr'.finished = jr.finished
    <3>1. CASE AppendResult
      BY <1>0, <3>1, HistoryActions, HistoryOnly
    <3>2. CASE CollectResult
      BY <1>0, <3>2 DEF CollectResult
    <3> QED
      BY <1>5, <3>1, <3>2
  <2>3. todo # <<>>
    BY <2>1 DEF CallInv, DispatchInv
  <2>4. /\ Tail(todo) \in Seq(Minted) /\ Len(Tail(todo)) = Len(todo) - 1 /\ Len(todo) \in Nat
        /\ \A i \in 1 .. Len(Tail(todo)) : Tail(todo)[i] = todo[i + 1]
    BY <1>0, <2>3
  <2>5. Minted' = Minted
    BY <2>1 DEF Minted
  <2>6. CallsInv'
    BY <1>0, <2>1, <2>2, <2>4, <2>5 DEF CallsInv
  <2>7. DispatchInv'
    <3>1. \A i, j \in 1 .. Len(todo) : todo[i] = todo[j] => i = j
      BY <2>1 DEF CallInv, DispatchInv
    <3>2. \A i \in 1 .. Len(todo) : todo[i] \in jr.finished => i = 1
      BY <2>1 DEF CallInv, DispatchInv
    <3>3. \A i, j \in 1 .. Len(todo') : todo'[i] = todo'[j] => i = j
      BY <2>1, <2>4, <3>1
    <3>4. \A i \in 1 .. Len(todo') : todo'[i] \notin jr'.finished
      BY <2>1, <2>2, <2>4, <3>2
    <3> QED
      BY <2>1, <3>3, <3>4 DEF DispatchInv
  <2>8. WriteAhead'
    BY <1>0, <2>1, <2>2 DEF WriteAhead, EffectsJournalled, InFlightUnended
  <2> QED
    BY <2>6, <2>7, <2>8 DEF CallInv
<1> QED
  BY <1>1, <1>2, <1>3, <1>4, <1>5

LEMMA CallStep ==
    ASSUME ReuseIds = FALSE, CallInv, [Next]_vars
    PROVE  CallInv'
<1>1. CASE Next
  BY <1>1, CallElsewhere, CallDispatch DEF Next, Turn
<1>2. CASE UNCHANGED vars
  BY <1>2 DEF vars, disk, memory, bookkeeping, ghosts, CallInv, CallsInv, Minted,
     DispatchInv, WriteAhead, EffectsJournalled, InFlightUnended
<1> QED
  BY <1>1, <1>2

\* A provider that never repeats a call id: no call id is used twice.
FreshIds == ReuseIds = FALSE

\* No tool's side effects ever happen, or are ever forgotten, without a record
\* of the call in the journal: not by a crash at any step, nor by what
\* compaction, /clear, interruptions and resumes write.
THEOREM WriteAheadHolds ==
    ASSUME FreshIds
    PROVE  Spec => []EffectsJournalled
<1>1. CallInv /\ [Next]_vars => CallInv'
  BY FreshIds, CallStep DEF FreshIds
<1>2. CallInv => EffectsJournalled
  BY DEF CallInv, WriteAhead
<1> QED
  BY <1>1, <1>2, CallInit, PTL DEF Spec

\* What the journal calls in flight has no recorded end: the two recovery
\* notes of a resume never contradict each other.
THEOREM NotesDisjoint ==
    ASSUME FreshIds
    PROVE  Spec => []InFlightUnended
<1>1. CallInv /\ [Next]_vars => CallInv'
  BY FreshIds, CallStep DEF FreshIds
<1>2. CallInv => InFlightUnended
  BY DEF CallInv, WriteAhead
<1> QED
  BY <1>1, <1>2, CallInit, PTL DEF Spec
-----------------------------------------------------------------------------
(* Types                                                                   *)

Texts == SUBSET (Kinds \X Nat)

\* The messages a session makes.
LEMMA MadeMessages ==
    ASSUME NEW x \in Texts
    PROVE  /\ User(x) \in Msg /\ Assistant(x) \in Msg
           /\ User(x).role = "user" /\ User(x).calls = <<>> /\ User(x).text = x
           /\ Assistant(x).role = "assistant" /\ Assistant(x).calls = <<>> /\ Assistant(x).text = x
           /\ \A id \in CallId : /\ ToolResult(id, x) \in Msg
                                 /\ ToolResult(id, x).role = "tool"
                                 /\ ToolResult(id, x).calls = <<>>
                                 /\ ToolResult(id, x).id = id /\ ToolResult(id, x).text = x
<1>1. <<>> \in Seq(AnyCall) /\ NoCall \in Nat
  BY DEF NoCall
<1> QED
  BY <1>1 DEF Texts, Msg, User, Assistant, ToolResult, Message, CallId, NoCall

LEMMA SystemMessage ==
    System \in Msg /\ System.role = "system" /\ System.calls = <<>> /\ System.text = {}
<1>1. <<>> \in Seq(AnyCall) /\ NoCall \in Nat /\ {} \in SUBSET (Kinds \X Nat)
  BY DEF NoCall
<1> QED
  BY <1>1 DEF System, Msg, Message, NoCall

LEMMA CallingMessage ==
    ASSUME NEW c \in Seq(Call)
    PROVE  /\ Calling(c) \in Msg /\ Calling(c).role = "assistant"
           /\ Calling(c).calls = c /\ Calling(c).text = {}
<1>1. Seq(Call) = Seq(AnyCall) /\ NoCall \in Nat /\ {} \in SUBSET (Kinds \X Nat)
  BY DEF Call, AnyCall, NoCall
<1> QED
  BY <1>1 DEF Calling, Msg, Message, NoCall

LEMMA SummaryMessage ==
    Summary \in Msg /\ Summary.calls = <<>> /\ Summary.role = "assistant"
        /\ Summary.text = {<<"summary", 0>>}
<1>1. {<<"summary", 0>>} \in Texts
  BY DEF Texts, Kinds
<1> QED
  BY <1>1, MadeMessages DEF Summary

\* A message that makes no calls.
LEMMA NoCalls ==
    ASSUME NEW m, m.calls = <<>>
    PROVE  Ids(m) = {} /\ OpenIds(m) = <<>> /\ ToSet(m.calls) = {}
<1>1. DOMAIN m.calls = {} /\ Len(m.calls) = 0 /\ DOMAIN m.calls = 1 .. 0
  OBVIOUS
<1>2. Ids(m) = {}
  BY <1>1 DEF Ids
<1>3. OpenIds(m) = <<>>
  BY <1>1 DEF OpenIds
<1>4. ToSet(m.calls) = {}
  BY <1>1 DEF ToSet
<1> QED
  BY <1>2, <1>3, <1>4

\* What a resumed transcript is, whatever it was made of.
LEMMA Normalised ==
    ASSUME NEW h \in Seq(Msg), NEW flatten \in BOOLEAN
    PROVE  LET o == Normalise(h, flatten)
           IN  /\ o \in Seq(Msg) /\ Paired(o) /\ Owes(o, <<>>)
               /\ flatten => Plain(o)
               /\ ~flatten => /\ CallsOf(o) = CallsOf(h) /\ CallIds(o) = CallIds(h)
                              /\ UniqueIds(h) => UniqueIds(o)
<1> DEFINE g == MergeUsers(h)
<1>1. MergedFrom(g, h)
  BY MergeUsersMerged
<1>2. /\ g \in Seq(Msg) /\ CallsOf(g) = CallsOf(h) /\ CallIds(g) = CallIds(h)
      /\ UniqueIds(h) => UniqueIds(g)
  BY <1>1 DEF MergedFrom
<1> HIDE DEF g
<1>3. CASE flatten
  <2>1. Flattened(Flatten(g), g)
    BY <1>2, FlattenFlattens
  <2>2. Flatten(g) \in Seq(Msg) /\ Plain(Flatten(g))
    BY <2>1 DEF Flattened
  <2>3. Normalise(h, flatten) = Repair(Flatten(g))
    BY <1>3 DEF Normalise, g
  <2>4. Repair(Flatten(g)) = Flatten(g)
    BY <2>2, PlainFacts
  <2>5. Paired(Repair(Flatten(g))) /\ Owes(Repair(Flatten(g)), <<>>)
    BY <2>2, RepairPairs
  <2> QED
    BY <1>3, <2>2, <2>3, <2>4, <2>5
<1>4. CASE ~flatten
  <2>1. Normalise(h, flatten) = Repair(g)
    BY <1>4 DEF Normalise, g
  <2>2. Repair(g) \in Seq(Msg) /\ Paired(Repair(g)) /\ Owes(Repair(g), <<>>)
    BY <1>2, RepairPairs
  <2>3. MadeFrom(Repair(g), <<>>, g)
    BY <1>2, RepairMade
  <2>4. /\ CallsOf(Repair(g)) = CallsOf(g) /\ CallIds(Repair(g)) = CallIds(g)
        /\ UniqueIds(g) => UniqueIds(Repair(g))
    BY <2>3 DEF MadeFrom
  <2> QED
    BY <1>2, <1>4, <2>1, <2>2, <2>4
<1> QED
  BY <1>3, <1>4

\* The state of a replay, and what each record makes of it.
Journal ==
    [some : BOOLEAN, messages : Seq(Msg), pending : SUBSET Call, finished : SUBSET Call,
     open : Nat]

LEMMA JournalType ==
    ASSUME NEW j \in Journal
    PROVE  /\ DOMAIN j = JournalFields /\ j.some \in BOOLEAN /\ j.messages \in Seq(Msg)
           /\ j.pending \subseteq Call /\ j.finished \subseteq Call /\ j.open \in Nat
  BY DEF Journal, JournalFields

LEMMA ReplayMessage ==
    ASSUME NEW j \in Journal, NEW m \in Msg, NEW k, k = Replay(j, Appended(m))
    PROVE  k \in Journal /\ k.messages = Append(j.messages, m) /\ k.some = TRUE
           /\ k.pending = j.pending /\ k.finished = j.finished /\ k.open = j.open
<1>1. k = [[j EXCEPT !.some = TRUE] EXCEPT !.messages = Append(@, m)]
  BY DEF Replay, Appended
<1>2. Append(j.messages, m) \in Seq(Msg)
  BY JournalType
<1> QED
  BY <1>1, <1>2 DEF Journal

LEMMA ReplayReset ==
    ASSUME NEW j \in Journal, NEW h \in Seq(Msg), NEW k, k = Replay(j, Reset(h))
    PROVE  k \in Journal /\ k.messages = h /\ k.some = TRUE
           /\ k.pending = j.pending /\ k.finished = j.finished /\ k.open = j.open
<1>1. k = [[j EXCEPT !.some = TRUE] EXCEPT !.messages = h]
  BY DEF Replay, Reset, ReplaceHistory
<1> QED
  BY <1>1 DEF Journal

LEMMA ReplayRecord ==
    ASSUME NEW j \in Journal, NEW c \in Call, NEW k,
           k \in {Replay(j, TurnStart), Replay(j, TurnEnd),
                  Replay(j, ToolStart(c)), Replay(j, ToolEnd(c))}
    PROVE  k \in Journal /\ k.messages = j.messages /\ k.some = TRUE
<1>0. j.open + 1 \in Nat /\ (j.open > 0 => j.open - 1 \in Nat)
  BY DEF Journal
<1>1. CASE k = Replay(j, TurnStart)
  BY <1>0, <1>1 DEF Replay, TurnStart, Journal
<1>2. CASE k = Replay(j, TurnEnd)
  BY <1>0, <1>2 DEF Replay, TurnEnd, Journal
<1>3. CASE k = Replay(j, ToolStart(c))
  BY <1>3 DEF Replay, ToolStart, StartCall, Without, Journal
<1>4. CASE k = Replay(j, ToolEnd(c))
  BY <1>4 DEF Replay, ToolEnd, EndCall, Without, Journal
<1> QED
  BY <1>1, <1>2, <1>3, <1>4
-----------------------------------------------------------------------------
(* What a resume recovers                                                  *)

Replayed(j) == Normalise(j.messages, FlattenResume)

\* The conditions under which init_session takes the journal.
Replayable(j) == j.some /\ (MidTurn(j) \/ Len(j.messages) > 1)

KnownCalls(j) == {c \in Unreceived(j) : c.id \in CallIds(Replayed(j))}

\* o with one more user message, the note of this kind for these calls.
WithNote(o, kind, noted) ==
    IF noted = {} THEN o ELSE Append(o, User(Note(kind, noted)))

LEMMA NoteText ==
    ASSUME NEW kind \in Kinds, NEW noted, noted \subseteq Call
    PROVE  Note(kind, noted) \in Texts
<1>1. \A c \in noted : c.n \in Nat
  BY DEF Call
<1> QED
  BY <1>1 DEF Note, Texts

LEMMA NoteAdded ==
    ASSUME NEW o \in Seq(Msg), NEW kind \in Kinds, NEW noted, noted \subseteq Call
    PROVE  /\ WithNote(o, kind, noted) \in Seq(Msg)
           /\ o \o (IF noted = {} THEN <<>> ELSE <<User(Note(kind, noted))>>)
                = WithNote(o, kind, noted)
<1>1. User(Note(kind, noted)) \in Msg
  BY NoteText, MadeMessages
<1>2. CASE noted = {}
  BY <1>2 DEF WithNote
<1>3. CASE noted # {}
  <2>1. o \o <<User(Note(kind, noted))>> = Append(o, User(Note(kind, noted)))
    BY <1>1
  <2>2. WithNote(o, kind, noted) = Append(o, User(Note(kind, noted)))
    BY <1>3 DEF WithNote
  <2> QED
    BY <1>1, <1>3, <2>1, <2>2
<1> QED
  BY <1>2, <1>3

LEMMA UnreceivedType ==
    ASSUME NEW j \in Journal
    PROVE  Unreceived(j) \subseteq Call /\ KnownCalls(j) \subseteq Call
<1>1. j.finished \subseteq Call
  BY JournalType
<1> QED
  BY <1>1 DEF Unreceived, KnownCalls

LEMMA RecoveredIs ==
    ASSUME NEW j \in Journal
    PROVE  Recovered(j) =
             IF Replayable(j)
             THEN WithNote(WithNote(Replayed(j), "pending", j.pending), "known", KnownCalls(j))
             ELSE IF Normalise(snapshot, FlattenResume) # <<>>
             THEN Normalise(snapshot, FlattenResume) ELSE <<System>>
<1> DEFINE p == IF j.pending = {} THEN <<>> ELSE <<User(Note("pending", j.pending))>>
           k == IF KnownCalls(j) = {} THEN <<>> ELSE <<User(Note("known", KnownCalls(j)))>>
<1>1. Recovered(j) = IF Replayable(j) THEN Replayed(j) \o p \o k
                     ELSE IF Normalise(snapshot, FlattenResume) # <<>>
                     THEN Normalise(snapshot, FlattenResume) ELSE <<System>>
  BY DEF Recovered, Replayable, Replayed, KnownCalls
<1>2. FlattenResume \in BOOLEAN /\ j.messages \in Seq(Msg) /\ j.pending \subseteq Call
  BY ModesAssumption, JournalType
<1>3. Replayed(j) \in Seq(Msg)
  BY <1>2, Normalised DEF Replayed
<1>4. "pending" \in Kinds /\ "known" \in Kinds
  BY DEF Kinds
<1>5. Replayed(j) \o p = WithNote(Replayed(j), "pending", j.pending)
  BY <1>2, <1>3, <1>4, NoteAdded
<1>6. WithNote(Replayed(j), "pending", j.pending) \in Seq(Msg)
  BY <1>2, <1>3, <1>4, NoteAdded
<1>7. WithNote(Replayed(j), "pending", j.pending) \o k
        = WithNote(WithNote(Replayed(j), "pending", j.pending), "known", KnownCalls(j))
  BY <1>4, <1>6, NoteAdded, UnreceivedType
<1> HIDE DEF p, k
<1> QED
  BY <1>1, <1>5, <1>7

LEMMA RecoveredType ==
    ASSUME NEW j \in Journal, snapshot \in Seq(Msg)
    PROVE  Recovered(j) \in Seq(Msg)
<1>1. FlattenResume \in BOOLEAN /\ j.messages \in Seq(Msg) /\ j.pending \subseteq Call
  BY ModesAssumption, JournalType
<1>2. Replayed(j) \in Seq(Msg) /\ Normalise(snapshot, FlattenResume) \in Seq(Msg)
  BY <1>1, Normalised DEF Replayed
<1>3. "pending" \in Kinds /\ "known" \in Kinds
  BY DEF Kinds
<1>4. WithNote(Replayed(j), "pending", j.pending) \in Seq(Msg)
  BY <1>1, <1>2, <1>3, NoteAdded
<1>5. WithNote(WithNote(Replayed(j), "pending", j.pending), "known", KnownCalls(j)) \in Seq(Msg)
  BY <1>3, <1>4, NoteAdded, UnreceivedType
<1>6. <<System>> \in Seq(Msg)
  BY SystemMessage
<1> QED
  BY <1>2, <1>5, <1>6, RecoveredIs
-----------------------------------------------------------------------------
(* Every variable keeps its type                                           *)

\* The ids of a sequence of calls, in their order.
Due(t) == [k \in DOMAIN t |-> t[k].id]

LEMMA DueFacts ==
    ASSUME NEW t \in Seq(Call)
    PROVE  /\ Due(t) \in Seq(CallId) /\ Len(Due(t)) = Len(t) /\ DOMAIN t = 1 .. Len(t)
           /\ ToSet(Due(t)) = {t[k].id : k \in 1 .. Len(t)}
           /\ OpenIds(Calling(t)) = Due(t) /\ Ids(Calling(t)) = ToSet(Due(t))
<1>1. DOMAIN t = 1 .. Len(t) /\ Len(t) \in Nat /\ \A k \in 1 .. Len(t) : t[k].id \in CallId
  <2>1. \A k \in 1 .. Len(t) : t[k] \in Call
    OBVIOUS
  <2> QED
    BY <2>1 DEF Call, CallId
<1>2. Due(t) \in [1 .. Len(t) -> CallId]
  BY <1>1 DEF Due
<1>3. Due(t) \in Seq(CallId) /\ Len(Due(t)) = Len(t)
  BY <1>1, <1>2
<1>4. ToSet(Due(t)) = {t[k].id : k \in 1 .. Len(t)}
  BY <1>1 DEF ToSet, Due
<1>5. Calling(t).calls = t
  BY CallingMessage
<1>6. OpenIds(Calling(t)) = Due(t)
  BY <1>5 DEF OpenIds, Due
<1>7. Ids(Calling(t)) = {t[k].id : k \in 1 .. Len(t)}
  BY <1>1, <1>5 DEF Ids
<1> QED
  BY <1>1, <1>3, <1>4, <1>6, <1>7

\* The calls of a new answer: numbered on, with ids that are new to the history.
LEMMA NewCallsFacts ==
    ASSUME calls \in Nat, NEW k \in Nat \ {0}, NEW c \in NewCalls(k)
    PROVE  /\ c \in Seq(Call) /\ Len(c) = k
           /\ \A i \in 1 .. k : c[i].n = calls + i
           /\ ReuseIds = FALSE => \A i \in 1 .. k : c[i].id = calls + i
           /\ IsInjective(Due(c)) /\ ToSet(Due(c)) \cap CallIds(messages) = {}
<1>1. PICK f \in NewIds(k) : c = [i \in 1 .. k |-> [id |-> f[i], n |-> calls + i]]
  BY DEF NewCalls
<1>2. /\ f \in Minting(k) /\ IsInjective(f) /\ Range(f) \cap CallIds(messages) = {}
  BY <1>1 DEF NewIds
<1>3. f \in [1 .. k -> Nat \ {0}]
  <2>1. CASE ReuseIds
    BY <1>2, <2>1 DEF Minting
  <2>2. CASE ~ReuseIds
    <3>1. f = [i \in 1 .. k |-> calls + i]
      BY <1>2, <2>2 DEF Minting
    <3> QED
      BY <3>1
  <2> QED
    BY <2>1, <2>2
<1>4. \A i \in 1 .. k : c[i] = [id |-> f[i], n |-> calls + i] /\ c[i] \in Call
  BY <1>1, <1>3 DEF Call, NoCall
<1>5. c \in [1 .. k -> Call]
  BY <1>1, <1>4
<1>6. c \in Seq(Call) /\ Len(c) = k /\ DOMAIN c = 1 .. k
  BY <1>5
<1>7. Due(c) = f
  BY <1>3, <1>4, <1>6 DEF Due
<1>8. ReuseIds = FALSE => \A i \in 1 .. k : c[i].id = calls + i
  <2> SUFFICES ASSUME ReuseIds = FALSE, NEW i \in 1 .. k PROVE c[i].id = calls + i
    OBVIOUS
  <2>1. f = [j \in 1 .. k |-> calls + j]
    BY <1>2 DEF Minting
  <2>2. f[i] = calls + i
    BY <2>1
  <2>3. c[i] = [id |-> f[i], n |-> calls + i]
    BY <1>4
  <2> QED
    BY <2>2, <2>3
<1>9. ToSet(Due(c)) \cap CallIds(messages) = {}
  BY <1>2, <1>7 DEF ToSet, Range
<1> QED
  BY <1>2, <1>4, <1>6, <1>7, <1>8, <1>9

ControlInv ==
    /\ torn \in BOOLEAN /\ stopped \in BOOLEAN /\ cut \in BOOLEAN
    /\ pc \in {"down", "idle", "submit", "close", "save"} \cup InLoop
    /\ todo \in Seq(Call) /\ results \in Seq(Call)
    /\ pc \in Working \cup {"ended"} => todo # <<>>
    /\ ran \subseteq Call
    /\ retries \in Nat /\ mark \in Nat /\ calls \in Nat /\ turns \in Nat
    /\ compactions \in Nat /\ stops \in Nat

HistoriesInv == jr \in Journal /\ snapshot \in Seq(Msg) /\ messages \in Seq(Msg)

TypeInv == ControlInv /\ HistoriesInv

LEMMA TypeInit == Init => TypeInv
<1> SUFFICES ASSUME Init PROVE TypeInv
  OBVIOUS
<1>1. ControlInv
  <2>1. <<>> \in Seq(Call)
    OBVIOUS
  <2>2. pc = "down"
    BY DEF Init
  <2> QED
    BY <2>1, <2>2 DEF Init, ControlInv, Working
<1>2. EmptyJournal \in Journal
  BY DEF EmptyJournal, Journal
<1>3. HistoriesInv
  BY <1>2 DEF Init, HistoriesInv
<1> QED
  BY <1>1, <1>3 DEF TypeInv

\* A step that changes no more of the control state than this.
ControlQuiet ==
    /\ torn' \in BOOLEAN /\ stopped' \in BOOLEAN /\ cut' \in BOOLEAN
    /\ pc' \in {"down", "idle", "submit", "close", "save"} \cup InLoop
    /\ todo' \in {todo, <<>>} /\ results' \in {results, <<>>}
    /\ pc' \notin Working \cup {"ended"}
    /\ ran' = ran
    /\ retries' \in {0, retries, retries + 1} /\ mark' \in {mark, calls}
    /\ calls' = calls /\ turns' \in {turns, turns + 1}
    /\ compactions' \in {compactions, compactions + 1} /\ stops' \in {stops, stops + 1}

LEMMA ControlQuietStep == ControlInv /\ ControlQuiet => ControlInv'
<1> SUFFICES ASSUME ControlInv, ControlQuiet PROVE ControlInv'
  OBVIOUS
<1>1. todo' \in Seq(Call) /\ results' \in Seq(Call)
  <2>1. <<>> \in Seq(Call) /\ todo \in Seq(Call) /\ results \in Seq(Call)
    BY DEF ControlInv
  <2> QED
    BY <2>1 DEF ControlQuiet
<1>2. /\ retries' \in Nat /\ mark' \in Nat /\ calls' \in Nat /\ turns' \in Nat
      /\ compactions' \in Nat /\ stops' \in Nat
  BY DEF ControlInv, ControlQuiet
<1> QED
  BY <1>1, <1>2 DEF ControlInv, ControlQuiet

LEMMA ControlStep ==
    ASSUME TypeInv, Next
    PROVE  ControlInv'
<1>0. ControlInv
  BY DEF TypeInv
<1>00. /\ torn \in BOOLEAN /\ stopped \in BOOLEAN /\ cut \in BOOLEAN
       /\ todo \in Seq(Call) /\ results \in Seq(Call) /\ ran \subseteq Call
  BY <1>0 DEF ControlInv
<1> USE DEF Goto, disk, memory, ghosts, bookkeeping, InLoop, Working
<1>1. CASE Start
  <2>1. ControlQuiet
    BY <1>00, <1>1 DEF ControlQuiet, Start
  <2> QED
    BY <1>0, <2>1, ControlQuietStep
<1>2. CASE SaveSnapshot
  <2>1. ControlQuiet
    BY <1>00, <1>2 DEF ControlQuiet, SaveSnapshot
  <2> QED
    BY <1>0, <2>1, ControlQuietStep
<1>3. CASE Clear
  <2>1. ControlQuiet
    BY <1>00, <1>3 DEF ControlQuiet, Clear
  <2> QED
    BY <1>0, <2>1, ControlQuietStep
<1>4. CASE BeginTurn
  <2>1. ControlQuiet
    BY <1>00, <1>4 DEF ControlQuiet, BeginTurn
  <2> QED
    BY <1>0, <2>1, ControlQuietStep
<1>5. CASE PromptBlocked
  <2>1. ControlQuiet
    BY <1>00, <1>5 DEF ControlQuiet, PromptBlocked
  <2> QED
    BY <1>0, <2>1, ControlQuietStep
<1>6. CASE Submit
  <2>1. ControlQuiet
    BY <1>00, <1>6 DEF ControlQuiet, Submit
  <2> QED
    BY <1>0, <2>1, ControlQuietStep
<1>7. CASE Resubmit
  <2>1. ControlQuiet
    BY <1>00, <1>7 DEF ControlQuiet, Resubmit
  <2> QED
    BY <1>0, <2>1, ControlQuietStep
<1>8. CASE InterruptedEarly
  <2>1. ControlQuiet
    BY <1>00, <1>8 DEF ControlQuiet, InterruptedEarly
  <2> QED
    BY <1>0, <2>1, ControlQuietStep
<1>9. CASE ModelAnswers
  <2>1. ControlQuiet
    BY <1>00, <1>9 DEF ControlQuiet, ModelAnswers
  <2> QED
    BY <1>0, <2>1, ControlQuietStep
<1>10. CASE DoubleBudget
  <2>1. ControlQuiet
    BY <1>00, <1>10 DEF ControlQuiet, DoubleBudget
  <2> QED
    BY <1>0, <2>1, ControlQuietStep
<1>11. CASE TurnAborts
  <2>1. ControlQuiet
    BY <1>00, <1>11 DEF ControlQuiet, TurnAborts
  <2> QED
    BY <1>0, <2>1, ControlQuietStep
<1>12. CASE ReplyStands
  <2>1. ControlQuiet
    BY <1>00, <1>12 DEF ControlQuiet, ReplyStands
  <2> QED
    BY <1>0, <2>1, ControlQuietStep
<1>13. CASE EndTurn
  <2>1. ControlQuiet
    BY <1>00, <1>13 DEF ControlQuiet, EndTurn
  <2> QED
    BY <1>0, <2>1, ControlQuietStep
<1>14. CASE CompactAndRetry
  <2>1. ControlQuiet
    BY <1>00, <1>14 DEF ControlQuiet, CompactAndRetry, Compact
  <2> QED
    BY <1>0, <2>1, ControlQuietStep
<1>15. CASE CompactNow
  <2>1. ControlQuiet
    BY <1>00, <1>15 DEF ControlQuiet, CompactNow, Compact
  <2> QED
    BY <1>0, <2>1, ControlQuietStep
<1>16. CASE StepDone
  <2>1. ControlQuiet
    BY <1>00, <1>16 DEF ControlQuiet, StepDone
  <2> QED
    BY <1>0, <2>1, ControlQuietStep
<1>17. CASE AnswerFinal
  <2>1. ControlQuiet
    BY <1>00, <1>17 DEF ControlQuiet, AnswerFinal
  <2> QED
    BY <1>0, <2>1, ControlQuietStep
<1>18. CASE StopBlocked
  <2>1. ControlQuiet
    BY <1>00, <1>18 DEF ControlQuiet, StopBlocked
  <2> QED
    BY <1>0, <2>1, ControlQuietStep
<1>19. CASE ToolRaises
  <2>1. ControlQuiet
    BY <1>00, <1>19 DEF ControlQuiet, ToolRaises
  <2> QED
    BY <1>0, <2>1, ControlQuietStep
<1>20. CASE Exit
  <2>1. ControlQuiet
    BY <1>00, <1>20 DEF ControlQuiet, Exit, Stop, InTurn
  <2> QED
    BY <1>0, <2>1, ControlQuietStep
<1>21. CASE Crash
  <2>1. ControlQuiet
    BY <1>00, <1>21 DEF ControlQuiet, Crash, Stop, InTurn
  <2> QED
    BY <1>0, <2>1, ControlQuietStep
<1>22. CASE CrashSaving
  <2>1. torn' \in BOOLEAN
    BY <1>22, ModesAssumption DEF CrashSaving
  <2>2. compactions' \in {compactions, compactions + 1}
    BY <1>22 DEF CrashSaving
  <2>3. cut' \in BOOLEAN
    BY <1>00, <1>22 DEF CrashSaving, InTurn
  <2>4. ControlQuiet
    BY <1>00, <1>22, <2>1, <2>2, <2>3 DEF ControlQuiet, CrashSaving, Stop
  <2> QED
    BY <1>0, <2>4, ControlQuietStep
<1>23. CASE AnswerCalls
  <2>1. PICK k \in 1 .. MaxBatch : calls' = calls + k /\ \E c \in NewCalls(k) : todo' = c
    BY <1>23 DEF AnswerCalls
  <2>2. k \in Nat \ {0} /\ calls \in Nat
    BY <1>0, BoundsAssumption DEF ControlInv
  <2>3. PICK c \in NewCalls(k) : todo' = c
    BY <2>1
  <2>4. c \in Seq(Call)
    BY <2>2, NewCallsFacts
  <2>5. todo' \in Seq(Call) /\ calls' \in Nat
    BY <2>1, <2>2, <2>3, <2>4
  <2>6. results' \in Seq(Call)
    BY <1>23 DEF AnswerCalls
  <2> QED
    BY <1>0, <1>23, <2>5, <2>6 DEF AnswerCalls, ControlInv
<1>24. CASE StartTool
  BY <1>0, <1>24 DEF StartTool, ControlInv
<1>25. CASE RefuseTool
  BY <1>0, <1>25 DEF RefuseTool, ControlInv
<1>26. CASE EndTool
  BY <1>0, <1>26 DEF EndTool, ControlInv
<1>27. CASE RunTool
  <2>1. Head(todo) \in Call
    BY <1>0, <1>27 DEF RunTool, ControlInv
  <2> QED
    BY <1>0, <1>27, <2>1 DEF RunTool, ControlInv
<1>28. CASE AppendResult
  <2>1. todo # <<>>
    BY <1>0, <1>28 DEF AppendResult, ControlInv
  <2>2. Tail(todo) \in Seq(Call)
    BY <1>00, <2>1
  <2> QED
    BY <1>0, <1>28, <2>2 DEF AppendResult, ControlInv
<1>29. CASE CollectResult
  <2>1. todo # <<>>
    BY <1>0, <1>29 DEF CollectResult, ControlInv
  <2>2. Tail(todo) \in Seq(Call) /\ Append(results, Head(todo)) \in Seq(Call)
    BY <1>00, <2>1
  <2> QED
    BY <1>0, <1>29, <2>2 DEF CollectResult, ControlInv
<1> QED
  BY <1>1, <1>2, <1>3, <1>4, <1>5, <1>6, <1>7, <1>8, <1>9, <1>10, <1>11, <1>12, <1>13, <1>14, <1>15, <1>16, <1>17, <1>18, <1>19, <1>20, <1>21, <1>22, <1>23, <1>24, <1>25, <1>26, <1>27, <1>28, <1>29 DEF Next, Turn

\* What a compaction leaves.
LEMMA CompactedMessages ==
    ASSUME NEW h \in Seq(Msg), NEW c \in Compactions(h, Keep)
    PROVE  /\ c \in Seq(Msg) /\ ToSet(c) \subseteq ToSet(h) \cup {Summary}
           /\ UniqueIds(h) => UniqueIds(c)
           /\ Owes(h, <<>>) => Owes(c, <<>>)
           /\ FeedsSome(h) => FeedsSome(c)
           /\ Summary \in ToSet(c)
           /\ OfRoles(c, {"system"}) = OfRoles(h, {"system"})
<1>1. Keep \in Nat
  BY BoundsAssumption
<1>2. PICK a, t, s : IsCompaction(h, c, a, t, s)
  BY <1>1, CompactionIs
<1>3. c \in Seq(Msg)
  BY <1>2, CompactionParts
<1>4. /\ ToSet(c) \subseteq ToSet(h) \cup {Summary}
      /\ OfRoles(c, {"system"}) = OfRoles(h, {"system"})
  BY <1>2, CompactionContents
<1>5. UniqueIds(h) => UniqueIds(c)
  BY <1>2, CompactionUnique
<1>6. Owes(h, <<>>) => Owes(c, <<>>)
  BY <1>2, CompactionOwes
<1>7. FeedsSome(h) => FeedsSome(c)
  BY <1>2, CompactionFeeds DEF FeedsSome
<1>8. Summary \in ToSet(c)
  <2>1. c = a \o t /\ a \in Seq(Msg) /\ t \in Seq(Msg) /\ a # <<>> /\ a[Len(a)] = Summary
    BY <1>2 DEF IsCompaction
  <2>2. Len(a) \in 1 .. Len(a) /\ DOMAIN a = 1 .. Len(a)
    BY <2>1
  <2>3. Summary \in ToSet(a)
    BY <2>1, <2>2 DEF ToSet
  <2>4. ToSet(c) = ToSet(a) \cup ToSet(t)
    BY <2>1, ConcatContents
  <2> QED
    BY <2>3, <2>4
<1> QED
  BY <1>3, <1>4, <1>5, <1>6, <1>7, <1>8

\* What /clear leaves.
Kept(h) ==
    LET kept == OfRoles(h, {"system"})
    IN  IF kept # <<>> \/ h = <<>> THEN kept ELSE <<Head(h)>>

LEMMA KeptMessages ==
    ASSUME NEW h \in Seq(Msg)
    PROVE  /\ Kept(h) \in Seq(Msg) /\ ToSet(Kept(h)) \subseteq ToSet(h)
           /\ \/ \A m \in ToSet(Kept(h)) : m.role = "system"
              \/ h # <<>> /\ Kept(h) = <<h[1]>> /\ h[1] \in Msg
<1>1. /\ OfRoles(h, {"system"}) \in Seq(Msg)
      /\ ToSet(OfRoles(h, {"system"})) = {m \in ToSet(h) : m.role \in {"system"}}
  BY RolesFacts
<1>2. CASE OfRoles(h, {"system"}) # <<>> \/ h = <<>>
  <2>1. Kept(h) = OfRoles(h, {"system"})
    BY <1>2 DEF Kept
  <2> QED
    BY <1>1, <2>1
<1>3. CASE ~(OfRoles(h, {"system"}) # <<>> \/ h = <<>>)
  <2>1. Kept(h) = <<Head(h)>>
    BY <1>3 DEF Kept
  <2>2. Head(h) = h[1] /\ h[1] \in Msg /\ 1 \in DOMAIN h
    BY <1>3, SeqFacts
  <2>3. <<h[1]>> \in Seq(Msg) /\ ToSet(<<h[1]>>) = {h[1]}
    BY <2>2 DEF ToSet
  <2>4. h[1] \in ToSet(h)
    BY <2>2 DEF ToSet
  <2> QED
    BY <1>3, <2>1, <2>2, <2>3, <2>4
<1> QED
  BY <1>2, <1>3
-----------------------------------------------------------------------------
(* What each step does to the three histories                              *)

Quiet ==
    /\ messages' = messages /\ snapshot' \in {snapshot, messages}
    /\ jr' \in Journal /\ jr'.messages = jr.messages /\ (jr.some => jr'.some)

LEMMA QuietSteps ==
    ASSUME TypeInv,
           \/ Resubmit \/ InterruptedEarly \/ ModelAnswers \/ DoubleBudget \/ TurnAborts
           \/ StartTool \/ RefuseTool \/ RunTool \/ EndTool \/ ToolRaises \/ CollectResult
           \/ (StepDone /\ Structured) \/ ReplyStands \/ EndTurn \/ SaveSnapshot
    PROVE  Quiet
<1> USE DEF disk, memory, bookkeeping
<1>0. jr \in Journal /\ todo \in Seq(Call) /\ (pc \in Working \cup {"ended"} => todo # <<>>)
  BY DEF TypeInv, HistoriesInv, ControlInv
<1>1. CASE Resubmit \/ InterruptedEarly \/ ModelAnswers \/ DoubleBudget \/ TurnAborts
  BY <1>0, <1>1 DEF Quiet, Resubmit, InterruptedEarly, ModelAnswers, DoubleBudget, TurnAborts
<1>2. CASE RunTool \/ CollectResult \/ ReplyStands \/ SaveSnapshot
  BY <1>0, <1>2 DEF Quiet, RunTool, CollectResult, ReplyStands, SaveSnapshot
<1>3. CASE StepDone /\ Structured
  BY <1>0, <1>3 DEF Quiet, StepDone
<1>4. CASE StartTool \/ RefuseTool \/ EndTool \/ ToolRaises
  <2>1. Head(todo) \in Call
    BY <1>0, <1>4 DEF StartTool, RefuseTool, EndTool, ToolRaises, Working, Goto
  <2>2. jr' \in {Replay(jr, ToolStart(Head(todo))), Replay(jr, ToolEnd(Head(todo)))}
    BY <1>4 DEF StartTool, RefuseTool, EndTool, ToolRaises, Write
  <2>3. jr' \in Journal /\ jr'.messages = jr.messages /\ jr'.some = TRUE
    <3> DEFINE c == Head(todo)
    <3>1. jr \in Journal /\ c \in Call
      BY <1>0, <2>1
    <3>2. jr' \in {Replay(jr, TurnStart), Replay(jr, TurnEnd),
                   Replay(jr, ToolStart(c)), Replay(jr, ToolEnd(c))}
      BY <2>2
    <3> HIDE DEF c
    <3> QED
      BY <3>1, <3>2, ReplayRecord, ZenonT(60)
  <2> QED
    BY <1>4, <2>3 DEF Quiet, StartTool, RefuseTool, EndTool, ToolRaises
<1>5. CASE EndTurn
  <2>1. jr' = Replay(jr, TurnEnd) /\ [id |-> 1, n |-> 1] \in Call
    BY <1>5 DEF EndTurn, Write, Call, NoCall
  <2>2. jr' \in Journal /\ jr'.messages = jr.messages /\ jr'.some = TRUE
    BY <1>0, <2>1, ReplayRecord
  <2> QED
    BY <1>5, <2>2 DEF Quiet, EndTurn
<1> QED
  BY <1>1, <1>2, <1>3, <1>4, <1>5

\* The live history is repaired before a turn.
Mends ==
    /\ messages' = Repair(messages) /\ snapshot' = snapshot
    /\ jr' \in Journal /\ jr'.messages = jr.messages /\ (jr.some => jr'.some)

LEMMA MendingSteps ==
    ASSUME TypeInv, BeginTurn \/ PromptBlocked
    PROVE  Mends
<1>0. jr \in Journal
  BY DEF TypeInv, HistoriesInv
<1>1. CASE BeginTurn
  <2>1. jr' = Replay(jr, TurnStart) /\ [id |-> 1, n |-> 1] \in Call
    BY <1>1 DEF BeginTurn, Write, Call, NoCall
  <2>2. jr' \in Journal /\ jr'.messages = jr.messages /\ jr'.some = TRUE
    BY <1>0, <2>1, ReplayRecord
  <2> QED
    BY <1>1, <2>2 DEF Mends, BeginTurn
<1>2. CASE PromptBlocked
  BY <1>0, <1>2 DEF Mends, PromptBlocked, disk
<1> QED
  BY <1>1, <1>2

\* A message joins the live history and the journal.
Says(m) ==
    /\ m \in Msg /\ messages' = Append(messages, m) /\ snapshot' = snapshot
    /\ jr' \in Journal /\ jr'.messages = Append(jr.messages, m) /\ jr'.some

LEMMA SaysStep ==
    ASSUME TypeInv, NEW m \in Msg, messages' = Append(messages, m), Write(Appended(m)),
           snapshot' = snapshot
    PROVE  Says(m)
<1>1. jr \in Journal /\ jr' = Replay(jr, Appended(m))
  BY DEF TypeInv, HistoriesInv, Write
<1>2. jr' \in Journal /\ jr'.messages = Append(jr.messages, m) /\ jr'.some = TRUE
  BY <1>1, ReplayMessage
<1> QED
  BY <1>2 DEF Says

\* What the prompt of the latest turn, its reply and its Stop hook say.
Task == User({<<"task", turns>>})
Reply == Assistant({<<"reply", turns>>})
Objection == User({<<"stop", turns>>})
\* The message of an answer that makes these calls, and those of their results.
Asking(c) == IF Structured THEN Calling(c) ELSE Assistant({<<"inline", calls + 1>>})
Result == ToolResult(Head(todo).id, ResultOf(Head(todo)))
Results == User(UNION {ResultOf(results[i]) : i \in DOMAIN results})

LEMMA SessionMessages ==
    ASSUME TypeInv
    PROVE  /\ Task \in Msg /\ Reply \in Msg /\ Objection \in Msg /\ Results \in Msg
           /\ Task.role = "user" /\ Objection.role = "user" /\ Results.role = "user"
           /\ Reply.role = "assistant" /\ Reply.calls = <<>>
           /\ Task.text = {<<"task", turns>>} /\ Reply.text = {<<"reply", turns>>}
           /\ Objection.text = {<<"stop", turns>>}
           /\ Results.text = {<<"res", results[i].n>> : i \in DOMAIN results}
           /\ \A c \in Seq(Call) :
                 /\ Asking(c) \in Msg /\ Asking(c).role = "assistant"
                 /\ Structured => Asking(c).calls = c /\ Asking(c).text = {}
                 /\ ~Structured => Asking(c).calls = <<>> /\ Asking(c).text = {<<"inline", calls + 1>>}
           /\ todo # <<>> =>
                 /\ Result \in Msg /\ Result.role = "tool" /\ Result.id = Head(todo).id
                 /\ Result.text = {<<"res", Head(todo).n>>} /\ Result.calls = <<>>
<1>0. /\ turns \in Nat /\ calls + 1 \in Nat /\ todo \in Seq(Call) /\ results \in Seq(Call)
  BY DEF TypeInv, ControlInv
<1>1. /\ {<<"task", turns>>} \in Texts /\ {<<"reply", turns>>} \in Texts
      /\ {<<"stop", turns>>} \in Texts /\ {<<"inline", calls + 1>>} \in Texts
  BY <1>0 DEF Texts, Kinds
<1>2. UNION {ResultOf(results[i]) : i \in DOMAIN results}
        = {<<"res", results[i].n>> : i \in DOMAIN results}
  BY DEF ResultOf
<1>3. {<<"res", results[i].n>> : i \in DOMAIN results} \in Texts
  <2>1. \A i \in DOMAIN results : results[i] \in Call
    BY <1>0
  <2>2. \A i \in DOMAIN results : results[i].n \in Nat
    BY <2>1 DEF Call
  <2> QED
    BY <2>2 DEF Texts, Kinds
<1>4. /\ Task \in Msg /\ Reply \in Msg /\ Objection \in Msg
      /\ Task.role = "user" /\ Objection.role = "user"
      /\ Reply.role = "assistant" /\ Reply.calls = <<>>
      /\ Task.text = {<<"task", turns>>} /\ Reply.text = {<<"reply", turns>>}
      /\ Objection.text = {<<"stop", turns>>}
  BY <1>1, MadeMessages DEF Task, Reply, Objection
<1>5. Results \in Msg /\ Results.role = "user"
         /\ Results.text = {<<"res", results[i].n>> : i \in DOMAIN results}
  BY <1>2, <1>3, MadeMessages, ZenonT(60) DEF Results
<1>6. ASSUME NEW c \in Seq(Call)
      PROVE  /\ Asking(c) \in Msg /\ Asking(c).role = "assistant"
             /\ Structured => Asking(c).calls = c /\ Asking(c).text = {}
             /\ ~Structured => Asking(c).calls = <<>> /\ Asking(c).text = {<<"inline", calls + 1>>}
  <2>1. CASE Structured
    BY <2>1, CallingMessage DEF Asking
  <2>2. CASE ~Structured
    BY <1>1, <2>2, MadeMessages DEF Asking
  <2> QED
    BY <2>1, <2>2
<1>7. ASSUME todo # <<>>
      PROVE  /\ Result \in Msg /\ Result.role = "tool" /\ Result.id = Head(todo).id
             /\ Result.text = {<<"res", Head(todo).n>>} /\ Result.calls = <<>>
  <2>1. Head(todo) \in Call
    BY <1>0, <1>7
  <2>2. Head(todo).id \in CallId /\ Head(todo).n \in Nat
    BY <2>1 DEF Call, CallId
  <2>3. {<<"res", Head(todo).n>>} \in Texts
    BY <2>2 DEF Texts, Kinds
  <2> DEFINE x == {<<"res", Head(todo).n>>}
  <2>4. Result = ToolResult(Head(todo).id, x)
    BY DEF Result, ResultOf
  <2>5. x \in Texts
    BY <2>3
  <2> HIDE DEF x
  <2>6. \A id \in CallId : /\ ToolResult(id, x) \in Msg
                           /\ ToolResult(id, x).role = "tool"
                           /\ ToolResult(id, x).calls = <<>>
                           /\ ToolResult(id, x).id = id /\ ToolResult(id, x).text = x
    BY <2>5, MadeMessages
  <2>7. /\ Result \in Msg /\ Result.role = "tool" /\ Result.id = Head(todo).id
        /\ Result.text = x /\ Result.calls = <<>>
    BY <2>2, <2>4, <2>6
  <2> QED
    BY <2>7 DEF x
<1> QED
  BY <1>4, <1>5, <1>6, <1>7

\* The messages that join, each from where its step is taken.
LEMMA SayingSteps ==
    ASSUME TypeInv
    PROVE  /\ Submit => Says(Task) \/ EndsWithUser(messages)
           /\ AnswerFinal => Says(Reply)
           /\ StopBlocked => Says(Objection)
           /\ AppendResult => Says(Result)
           /\ StepDone => Structured \/ Says(Results)
           /\ AnswerCalls =>
                 \E k \in Nat \ {0} : \E c \in NewCalls(k) :
                     calls' = calls + k /\ todo' = c /\ c \in Seq(Call) /\ Says(Asking(c))
<1>1. ASSUME Submit, ~EndsWithUser(messages) PROVE Says(Task)
  <2>1. messages' = Append(messages, Task) /\ Write(Appended(Task)) /\ snapshot' = snapshot
    BY <1>1 DEF Submit, Task
  <2> QED
    BY <2>1, SaysStep, SessionMessages
<1>2. ASSUME AnswerFinal PROVE Says(Reply)
  <2>1. messages' = Append(messages, Reply) /\ Write(Appended(Reply)) /\ snapshot' = snapshot
    BY <1>2 DEF AnswerFinal, Reply
  <2> QED
    BY <2>1, SaysStep, SessionMessages
<1>3. ASSUME StopBlocked PROVE Says(Objection)
  <2>1. messages' = Append(messages, Objection) /\ Write(Appended(Objection)) /\ snapshot' = snapshot
    BY <1>3 DEF StopBlocked, Objection
  <2> QED
    BY <2>1, SaysStep, SessionMessages
<1>4. ASSUME AppendResult PROVE Says(Result)
  <2>1. messages' = Append(messages, Result) /\ Write(Appended(Result)) /\ snapshot' = snapshot
    BY <1>4 DEF AppendResult, Result
  <2>2. todo # <<>>
    BY <1>4 DEF AppendResult, Goto, TypeInv, ControlInv
  <2> QED
    BY <2>1, <2>2, SaysStep, SessionMessages
<1>5. ASSUME StepDone, ~Structured PROVE Says(Results)
  <2>1. messages' = Append(messages, Results) /\ Write(Appended(Results)) /\ snapshot' = snapshot
    BY <1>5 DEF StepDone, Results
  <2> QED
    BY <2>1, SaysStep, SessionMessages
<1>6. ASSUME AnswerCalls
      PROVE  \E k \in Nat \ {0} : \E c \in NewCalls(k) :
                 calls' = calls + k /\ todo' = c /\ c \in Seq(Call) /\ Says(Asking(c))
  <2>1. PICK k \in 1 .. MaxBatch :
            /\ calls' = calls + k
            /\ \E c \in NewCalls(k) :
                  LET m == IF Structured THEN Calling(c) ELSE Assistant({<<"inline", calls + 1>>})
                  IN  /\ todo' = c
                      /\ messages' = Append(messages, m)
                      /\ Write(Appended(m))
    BY <1>6 DEF AnswerCalls
  <2>2. PICK c \in NewCalls(k) : /\ todo' = c
                                 /\ messages' = Append(messages, Asking(c))
                                 /\ Write(Appended(Asking(c)))
    BY <2>1 DEF Asking
  <2>3. k \in Nat \ {0} /\ calls \in Nat
    BY BoundsAssumption DEF TypeInv, ControlInv
  <2>4. c \in Seq(Call)
    BY <2>3, NewCallsFacts
  <2>5. snapshot' = snapshot
    BY <1>6 DEF AnswerCalls
  <2>6. Says(Asking(c))
    BY <2>2, <2>4, <2>5, SaysStep, SessionMessages
  <2> QED
    BY <2>1, <2>2, <2>3, <2>4, <2>6
<1> QED
  BY <1>1, <1>2, <1>3, <1>4, <1>5, <1>6

\* The prompt joins the user message at the end.
Joins ==
    /\ EndsWithUser(messages) /\ messages' = MergeOne("user", messages, Task)
    /\ jr' \in Journal /\ jr'.messages = messages' /\ jr'.some /\ snapshot' = snapshot
    /\ messages' \in Seq(Msg) /\ Grown(messages, Task.text, messages')

LEMMA JoiningStep ==
    ASSUME TypeInv, Submit, EndsWithUser(messages)
    PROVE  Joins
<1>1. /\ messages' = MergeOne("user", messages, Task)
      /\ jr' = Replay(jr, Reset(messages')) /\ snapshot' = snapshot
  BY DEF Submit, Task, Write
<1>2. messages \in Seq(Msg) /\ jr \in Journal /\ Task \in Msg /\ Task.role = "user"
  BY SessionMessages DEF TypeInv, HistoriesInv
<1>3. messages # <<>> /\ Last(messages).role = "user"
  BY DEF EndsWithUser
<1>4. Grown(messages, Task.text, messages')
  BY <1>1, <1>2, <1>3, MergeCases
<1>5. messages' \in Seq(Msg)
  BY <1>4 DEF Grown, Alike
<1>6. jr' \in Journal /\ jr'.messages = messages' /\ jr'.some = TRUE
  <2>1. \A q \in Seq(Msg) : jr' = Replay(jr, Reset(q)) =>
            jr' \in Journal /\ jr'.messages = q /\ jr'.some = TRUE
    BY <1>2, ReplayReset
  <2> QED
    BY <1>1, <1>5, <2>1
<1> QED
  BY <1>1, <1>4, <1>5, <1>6 DEF Joins

\* A new history takes the place of both.
Becomes(h) ==
    /\ h \in Seq(Msg) /\ messages' = h /\ snapshot' \in {snapshot, h}
    /\ jr' \in Journal /\ jr'.messages = h /\ jr'.some

LEMMA ReplacingSteps ==
    ASSUME TypeInv
    PROVE  /\ CompactAndRetry \/ CompactNow =>
                 MaxCompactions # 0 /\ \E h \in Compactions(messages, Keep) : Becomes(h)
           /\ Clear => Becomes(Kept(messages))
<1>0. messages \in Seq(Msg) /\ jr \in Journal
  BY DEF TypeInv, HistoriesInv
<1>1. ASSUME CompactAndRetry \/ CompactNow
      PROVE  MaxCompactions # 0 /\ \E h \in Compactions(messages, Keep) : Becomes(h)
  <2>1. PICK h \in Compactions(messages, Keep) : Compact(h)
    BY <1>1 DEF CompactAndRetry, CompactNow
  <2>0. MaxCompactions # 0
    <3>1. compactions \in Nat /\ compactions < MaxCompactions
      BY <2>1 DEF Compact, TypeInv, ControlInv
    <3> QED
      BY <3>1
  <2>2. messages' = h /\ jr' = Replay(jr, Reset(h)) /\ snapshot' = h
    BY <2>1 DEF Compact, Write
  <2>3. h \in Seq(Msg)
    BY <1>0, CompactedMessages
  <2>4. jr' \in Journal /\ jr'.messages = h /\ jr'.some = TRUE
    BY <1>0, <2>2, <2>3, ReplayReset, ZenonT(60)
  <2> QED
    BY <2>0, <2>2, <2>3, <2>4 DEF Becomes
<1>2. ASSUME Clear PROVE Becomes(Kept(messages))
  <2>1. messages' = Kept(messages) /\ jr' = Replay(jr, Reset(messages')) /\ snapshot' = snapshot
    BY <1>2 DEF Clear, Kept, Write
  <2>2. Kept(messages) \in Seq(Msg)
    BY <1>0, KeptMessages
  <2>3. jr' = Replay(jr, Reset(Kept(messages)))
    BY <2>1
  <2>4. jr' \in Journal /\ jr'.messages = Kept(messages) /\ jr'.some = TRUE
    <3>1. \A q \in Seq(Msg) : jr' = Replay(jr, Reset(q)) =>
              jr' \in Journal /\ jr'.messages = q /\ jr'.some = TRUE
      BY <1>0, ReplayReset
    <3> QED
      BY <2>2, <2>3, <3>1
  <2> QED
    BY <2>1, <2>2, <2>4 DEF Becomes
<1> QED
  BY <1>1, <1>2

\* A process starts, and its history is recovered from the journal j.
Wakes(j) ==
    /\ j \in Journal /\ jr' = j /\ messages' = Recovered(j) /\ snapshot' = snapshot
    /\ ~Capture => j = jr
    /\ Capture => j.messages = Append(jr.messages, System) /\ j.some
    /\ jr.some => j.some
    /\ j.pending = jr.pending /\ j.finished = jr.finished /\ j.open = jr.open

LEMMA WakingStep ==
    ASSUME TypeInv, Start
    PROVE  \E j : Wakes(j)
<1>0. jr \in Journal /\ System \in Msg
  BY SystemMessage DEF TypeInv, HistoriesInv
<1> DEFINE j == IF Capture THEN Replay(jr, Appended(System)) ELSE jr
<1>1. jr' = j /\ messages' = Recovered(j) /\ snapshot' = snapshot
  BY DEF Start
<1>2. CASE Capture
  <2>1. j = Replay(jr, Appended(System))
    BY <1>2
  <2> HIDE DEF j
  <2>2. /\ j \in Journal /\ j.messages = Append(jr.messages, System) /\ j.some
        /\ j.pending = jr.pending /\ j.finished = jr.finished /\ j.open = jr.open
    BY <1>0, <2>1, ReplayMessage
  <2> QED
    BY <1>1, <1>2, <2>2 DEF Wakes
<1>3. CASE ~Capture
  <2>1. j = jr
    BY <1>3
  <2> HIDE DEF j
  <2> QED
    BY <1>0, <1>1, <1>3, <2>1 DEF Wakes
<1> QED
  BY <1>2, <1>3

\* The process is gone; it may have journalled a compaction before.
Ends ==
    /\ pc' = "down" /\ messages' = <<>> /\ snapshot' \in {snapshot, messages, <<>>}
    /\ jr' \in Journal /\ (jr.some => jr'.some)
    /\ \/ jr'.messages = jr.messages
       \/ MaxCompactions # 0 /\ jr'.messages \in Compactions(messages, Keep)

LEMMA EndingSteps ==
    ASSUME TypeInv, Exit \/ Crash \/ CrashSaving
    PROVE  Ends
<1>0. messages \in Seq(Msg) /\ jr \in Journal
  BY DEF TypeInv, HistoriesInv
<1>1. CASE Exit \/ Crash
  BY <1>0, <1>1 DEF Ends, Exit, Crash, Stop, disk
<1>2. CASE CrashSaving
  <2>1. pc' = "down" /\ messages' = <<>> /\ snapshot' \in {snapshot, <<>>}
    BY <1>2 DEF CrashSaving, Stop
  <2>2. \/ jr' = jr
        \/ MaxCompactions # 0 /\ \E h \in Compactions(messages, Keep) : jr' = Replay(jr, Reset(h))
    <3>1. compactions \in Nat
      BY DEF TypeInv, ControlInv
    <3>2. compactions < MaxCompactions => MaxCompactions # 0
      BY <3>1
    <3> QED
      BY <1>2, <3>2 DEF CrashSaving, Write
  <2>3. ASSUME NEW h \in Compactions(messages, Keep), jr' = Replay(jr, Reset(h))
        PROVE  jr' \in Journal /\ jr'.messages = h /\ jr'.some = TRUE
    <3>1. h \in Seq(Msg)
      BY <1>0, CompactedMessages
    <3> QED
      BY <1>0, <2>3, <3>1, ReplayReset, ZenonT(60)
  <2>4. /\ jr' \in Journal /\ (jr.some => jr'.some)
        /\ \/ jr'.messages = jr.messages
           \/ MaxCompactions # 0 /\ jr'.messages \in Compactions(messages, Keep)
    BY <1>0, <2>2, <2>3
  <2> QED
    BY <2>1, <2>4 DEF Ends
<1> QED
  BY <1>1, <1>2

LEMMA HistoriesStep ==
    ASSUME TypeInv, Next
    PROVE  HistoriesInv'
<1>0. messages \in Seq(Msg) /\ snapshot \in Seq(Msg) /\ jr \in Journal /\ jr.messages \in Seq(Msg)
  BY JournalType DEF TypeInv, HistoriesInv
<1>1. ASSUME Quiet PROVE HistoriesInv'
  BY <1>0, <1>1 DEF Quiet, HistoriesInv
<1>2. ASSUME Mends PROVE HistoriesInv'
  <2>1. Repair(messages) \in Seq(Msg)
    BY <1>0, RepairPairs
  <2> QED
    BY <1>0, <1>2, <2>1 DEF Mends, HistoriesInv
<1>3. ASSUME NEW m, Says(m) PROVE HistoriesInv'
  <2>1. m \in Msg
    BY <1>3 DEF Says
  <2>2. Append(messages, m) \in Seq(Msg)
    BY <1>0, <2>1
  <2> QED
    BY <1>0, <1>3, <2>2 DEF Says, HistoriesInv
<1>4. ASSUME Joins PROVE HistoriesInv'
  BY <1>0, <1>4 DEF Joins, HistoriesInv
<1>5. ASSUME NEW h, Becomes(h) PROVE HistoriesInv'
  BY <1>0, <1>5 DEF Becomes, HistoriesInv
<1>6. ASSUME NEW j, Wakes(j) PROVE HistoriesInv'
  <2>1. Recovered(j) \in Seq(Msg)
    BY <1>0, <1>6, RecoveredType DEF Wakes
  <2> QED
    BY <1>0, <1>6, <2>1 DEF Wakes, HistoriesInv
<1>7. ASSUME Ends PROVE HistoriesInv'
  <2>1. <<>> \in Seq(Msg)
    OBVIOUS
  <2> QED
    BY <1>0, <1>7, <2>1 DEF Ends, HistoriesInv
<1>8. CASE Start
  BY <1>6, <1>8, WakingStep
<1>9. CASE BeginTurn \/ PromptBlocked
  BY <1>2, <1>9, MendingSteps
<1>10. CASE Submit \/ AnswerFinal \/ StopBlocked \/ AppendResult \/ StepDone
  <2>1. Joins \/ Quiet \/ \E m : Says(m)
    BY <1>10, SayingSteps, JoiningStep, QuietSteps
  <2> QED
    BY <1>1, <1>3, <1>4, <2>1
<1>11. CASE AnswerCalls
  <2>1. \E m : Says(m)
    BY <1>11, SayingSteps
  <2> QED
    BY <1>3, <2>1
<1>12. CASE CompactAndRetry \/ CompactNow \/ Clear
  <2>1. \E h : Becomes(h)
    BY <1>12, ReplacingSteps
  <2> QED
    BY <1>5, <2>1
<1>13. CASE Exit \/ Crash \/ CrashSaving
  BY <1>7, <1>13, EndingSteps
<1>14. CASE \/ Resubmit \/ InterruptedEarly \/ ModelAnswers \/ DoubleBudget \/ TurnAborts
            \/ StartTool \/ RefuseTool \/ RunTool \/ EndTool \/ ToolRaises \/ CollectResult
            \/ ReplyStands \/ EndTurn \/ SaveSnapshot
  BY <1>1, <1>14, QuietSteps
<1> QED
  BY <1>8, <1>9, <1>10, <1>11, <1>12, <1>13, <1>14 DEF Next, Turn

LEMMA TypeStep == TypeInv /\ [Next]_vars => TypeInv'
<1> SUFFICES ASSUME TypeInv, [Next]_vars PROVE TypeInv'
  OBVIOUS
<1>1. CASE Next
  BY <1>1, ControlStep, HistoriesStep DEF TypeInv
<1>2. CASE UNCHANGED vars
  BY <1>2 DEF vars, disk, memory, bookkeeping, ghosts, TypeInv, ControlInv, HistoriesInv
<1> QED
  BY <1>1, <1>2

LEMMA MessagesAreHistory ==
    ASSUME NEW h \in Seq(Msg)
    PROVE  IsHistory(h)
<1> SUFFICES ASSUME NEW i \in DOMAIN h
             PROVE  /\ h[i].role \in {"system", "user", "assistant", "tool"}
                    /\ \A k \in DOMAIN h[i].calls : h[i].calls[k] \in Call
                    /\ h[i].id # NoCall <=> h[i].role = "tool"
  BY DEF IsHistory
<1>1. h[i] \in Msg
  BY SeqFacts
<1>2. h[i].calls \in Seq(Call)
  BY <1>1, MsgFacts DEF Call, AnyCall
<1>3. \A k \in DOMAIN h[i].calls : h[i].calls[k] \in Call
  BY <1>2
<1> QED
  BY <1>1, <1>3 DEF Msg

\* Every variable stays in its range: the histories are sequences of messages
\* whatever is repaired, merged, compacted and recovered, and the journal
\* replays to such a history.
THEOREM TypesKept == Spec => []TypeOK
<1>1. TypeInv => TypeOK
  <2> SUFFICES ASSUME TypeInv PROVE TypeOK
    OBVIOUS
  <2>1. ControlInv /\ jr \in Journal /\ snapshot \in Seq(Msg) /\ messages \in Seq(Msg)
    BY DEF TypeInv, HistoriesInv
  <2>2. /\ jr.messages \in Seq(Msg) /\ jr.some \in BOOLEAN /\ jr.open \in Nat
        /\ jr.pending \subseteq Call /\ jr.finished \subseteq Call
    BY <2>1, JournalType
  <2>3. IsHistory(jr.messages) /\ IsHistory(snapshot) /\ IsHistory(messages)
    BY <2>1, <2>2, MessagesAreHistory
  <2>4. {stopped, cut, torn} \subseteq BOOLEAN
    BY <2>1 DEF ControlInv
  <2>5. {retries, mark, calls, turns, compactions, stops} \subseteq Nat
    BY <2>1 DEF ControlInv
  <2> QED
    BY <2>1, <2>2, <2>3, <2>4, <2>5 DEF TypeOK, ControlInv
<1> QED
  BY <1>1, TypeInit, TypeStep, PTL DEF Spec
-----------------------------------------------------------------------------
(* The calls of the histories                                              *)

LEMMA FewerMessages ==
    ASSUME NEW h \in Seq(Msg), NEW q \in Seq(Msg), ToSet(q) \subseteq ToSet(h) \cup {Summary}
    PROVE  CallsOf(q) \subseteq CallsOf(h) /\ CallIds(q) \subseteq CallIds(h)
<1>1. \A i \in DOMAIN q : q[i] = Summary \/ \E j \in DOMAIN h : h[j] = q[i]
  BY DEF ToSet
<1>2. DOMAIN Summary.calls = {}
  BY SummaryMessage
<1>3. CallsOf(q) \subseteq CallsOf(h)
  <2> SUFFICES ASSUME NEW i \in DOMAIN q, NEW k \in DOMAIN q[i].calls
               PROVE  q[i].calls[k] \in CallsOf(h)
    BY DEF CallsOf
  <2>1. PICK j \in DOMAIN h : h[j] = q[i]
    BY <1>1, <1>2
  <2> QED
    BY <2>1 DEF CallsOf
<1>4. CallIds(q) = {c.id : c \in CallsOf(q)} /\ CallIds(h) = {c.id : c \in CallsOf(h)}
  BY CallsType
<1> QED
  BY <1>3, <1>4

\* A note adds what it says and nothing else.
LEMMA NoteKeeps ==
    ASSUME NEW o \in Seq(Msg), NEW kind \in Kinds, NEW noted, noted \subseteq Call,
           NEW q, q = WithNote(o, kind, noted)
    PROVE  /\ q \in Seq(Msg) /\ CallsOf(q) = CallsOf(o) /\ CallIds(q) = CallIds(o)
           /\ AnsweredIds(q) = AnsweredIds(o) /\ Mentions(q) = Mentions(o) \cup Note(kind, noted)
           /\ UniqueIds(o) => UniqueIds(q)
           /\ ToSet(o) \subseteq ToSet(q)
           /\ \A m \in ToSet(q) \ ToSet(o) : m = User(Note(kind, noted))
           /\ FeedsSome(o) => FeedsSome(q)
<1> DEFINE m == User(Note(kind, noted))
<1>1. m \in Msg /\ m.role = "user" /\ m.calls = <<>> /\ m.text = Note(kind, noted)
  BY NoteText, MadeMessages
<1>2. Ids(m) = {} /\ ToSet(m.calls) = {}
  BY <1>1, NoCalls
<1> HIDE DEF m
<1>3. CASE noted = {}
  <2>1. q = o /\ Note(kind, noted) = {}
    BY <1>3 DEF WithNote, Note
  <2> QED
    BY <2>1
<1>4. CASE noted # {}
  <2>1. q = Append(o, m)
    BY <1>4 DEF WithNote, m
  <2>2. /\ CallsOf(q) = CallsOf(o) /\ CallIds(q) = CallIds(o)
        /\ AnsweredIds(q) = AnsweredIds(o) /\ Mentions(q) = Mentions(o) \cup Note(kind, noted)
        /\ ToSet(q) = ToSet(o) \cup {m}
    <3>1. /\ CallsOf(Append(o, m)) = CallsOf(o) \cup ToSet(m.calls)
          /\ CallIds(Append(o, m)) = CallIds(o) \cup Ids(m)
          /\ Mentions(Append(o, m)) = Mentions(o) \cup m.text
          /\ AnsweredIds(Append(o, m))
                 = AnsweredIds(o) \cup IF m.role = "tool" THEN {m.id} ELSE {}
          /\ ToSet(Append(o, m)) = ToSet(o) \cup {m}
      BY <1>1, AppendContents
    <3>2. AnsweredIds(Append(o, m)) = AnsweredIds(o)
      BY <1>1, <3>1
    <3> QED
      BY <1>1, <1>2, <2>1, <3>1, <3>2
  <2>3. UniqueIds(o) => UniqueIds(q)
    BY <1>1, <2>1, AppendAnswer
  <2>4. FeedsSome(o) => FeedsSome(q)
    BY <1>1, <2>1, AwaitsAppend, FeedsAwaits
  <2>5. q \in Seq(Msg)
    BY <1>1, <2>1
  <2>6. \A x \in ToSet(q) \ ToSet(o) : x = User(Note(kind, noted))
    BY <2>2 DEF m
  <2> QED
    BY <2>2, <2>3, <2>4, <2>5, <2>6
<1> QED
  BY <1>3, <1>4

\* The calls of a recovered history are those of the journal or the snapshot.
LEMMA RecoveredCalls ==
    ASSUME NEW j \in Journal, snapshot \in Seq(Msg), NEW o, o = Recovered(j)
    PROVE  /\ FlattenResume => CallsOf(o) = {} /\ UniqueIds(o)
           /\ ~FlattenResume /\ Replayable(j) =>
                 /\ CallsOf(o) = CallsOf(j.messages) /\ CallIds(o) = CallIds(j.messages)
                 /\ UniqueIds(j.messages) => UniqueIds(o)
           /\ ~FlattenResume /\ ~Replayable(j) =>
                 /\ CallsOf(o) \subseteq CallsOf(snapshot) /\ CallIds(o) \subseteq CallIds(snapshot)
                 /\ UniqueIds(snapshot) => UniqueIds(o)
<1>0. /\ FlattenResume \in BOOLEAN /\ j.messages \in Seq(Msg) /\ j.pending \subseteq Call
      /\ KnownCalls(j) \subseteq Call /\ "pending" \in Kinds /\ "known" \in Kinds
  BY ModesAssumption, JournalType, UnreceivedType DEF Kinds
<1> DEFINE r == Replayed(j)
           p == WithNote(r, "pending", j.pending)
           s == Normalise(snapshot, FlattenResume)
<1>1. /\ r \in Seq(Msg) /\ (FlattenResume => Plain(r))
      /\ ~FlattenResume => /\ CallsOf(r) = CallsOf(j.messages) /\ CallIds(r) = CallIds(j.messages)
                           /\ UniqueIds(j.messages) => UniqueIds(r)
  BY <1>0, Normalised DEF Replayed
<1>2. /\ s \in Seq(Msg) /\ (FlattenResume => Plain(s))
      /\ ~FlattenResume => /\ CallsOf(s) = CallsOf(snapshot) /\ CallIds(s) = CallIds(snapshot)
                           /\ UniqueIds(snapshot) => UniqueIds(s)
  BY <1>0, Normalised
<1>3. o = IF Replayable(j) THEN WithNote(p, "known", KnownCalls(j))
          ELSE IF s # <<>> THEN s ELSE <<System>>
  BY RecoveredIs
<1> HIDE DEF r, s
<1>4. /\ p \in Seq(Msg) /\ CallsOf(p) = CallsOf(r) /\ CallIds(p) = CallIds(r)
      /\ UniqueIds(r) => UniqueIds(p)
  BY <1>0, <1>1, NoteKeeps
<1> HIDE DEF p
<1>5. ASSUME Replayable(j)
      PROVE  /\ CallsOf(o) = CallsOf(r) /\ CallIds(o) = CallIds(r)
             /\ UniqueIds(r) => UniqueIds(o)
  <2>1. o = WithNote(p, "known", KnownCalls(j))
    BY <1>3, <1>5
  <2>2. /\ CallsOf(o) = CallsOf(p) /\ CallIds(o) = CallIds(p)
        /\ UniqueIds(p) => UniqueIds(o)
    BY <1>0, <1>4, <2>1, NoteKeeps
  <2> QED
    BY <1>4, <2>2
<1>6. CallsOf(<<System>>) = {} /\ CallIds(<<System>>) = {} /\ UniqueIds(<<System>>)
  <2>1. <<System>> \in Seq(Msg) /\ Plain(<<System>>)
    BY SystemMessage DEF Plain, ToSet
  <2> QED
    BY <2>1, PlainFacts
<1>7. ASSUME ~Replayable(j) PROVE o = s \/ o = <<System>>
  BY <1>3, <1>7
<1>8. FlattenResume => CallsOf(r) = {} /\ UniqueIds(r) /\ CallsOf(s) = {} /\ UniqueIds(s)
  BY <1>1, <1>2, PlainFacts
<1> QED
  BY <1>1, <1>2, <1>5, <1>6, <1>7, <1>8

\* Merging the prompt into the last message changes no call.
LEMMA GrownContents ==
    ASSUME NEW h \in Seq(Msg), NEW x, NEW q, Grown(h, x, q)
    PROVE  /\ q \in Seq(Msg) /\ CallsOf(q) = CallsOf(h) /\ CallIds(q) = CallIds(h)
           /\ AnsweredIds(q) = AnsweredIds(h) /\ (UniqueIds(h) => UniqueIds(q))
           /\ \A open : Owes(h, open) => Owes(q, open)
<1>1. Alike(h, q)
  BY DEF Grown
<1> QED
  BY <1>1, AlikeContents, AlikeOwes DEF Alike
-----------------------------------------------------------------------------
(* Every request is paired                                                 *)

\* No history has an id twice; what the journal has, the live history has (with
\* durable capture), so that a new id is new to both.
IdsInv ==
    /\ UniqueIds(messages) /\ UniqueIds(snapshot)
    /\ ~FlattenResume => UniqueIds(jr.messages)
    /\ Capture /\ ~FlattenResume /\ pc # "down" => CallIds(jr.messages) \subseteq CallIds(messages)
    /\ ReuseIds = FALSE =>
          /\ CallIds(messages) \subseteq 1 .. calls /\ CallIds(snapshot) \subseteq 1 .. calls
          /\ CallIds(jr.messages) \subseteq 1 .. calls

\* Under one of these an id is never given to two calls of one history.
OneCallPerId == Capture \/ FlattenResume \/ ReuseIds = FALSE

\* Only a new answer makes calls, and only a start follows an end.
LEMMA OtherSteps ==
    ASSUME Next
    PROVE  /\ AnswerCalls \/ calls' = calls
           /\ AnswerCalls \/ todo' \in {todo, Tail(todo), <<>>}
           /\ pc = "down" => Start
           /\ pc' = "down" => Exit \/ Crash \/ CrashSaving
<1> USE DEF disk, memory, ghosts, bookkeeping, Goto, InLoop
<1>1. CASE Start \/ CompactNow \/ Clear
  BY <1>1 DEF Start, CompactNow, Clear
<1>2. CASE Exit \/ Crash \/ CrashSaving
  BY <1>2 DEF Exit, Crash, CrashSaving, Stop
<1>3. CASE BeginTurn \/ PromptBlocked \/ Submit \/ Resubmit \/ InterruptedEarly \/ ModelAnswers
  BY <1>3 DEF BeginTurn, PromptBlocked, Submit, Resubmit, InterruptedEarly, ModelAnswers
<1>4. CASE DoubleBudget \/ TurnAborts \/ CompactAndRetry \/ StartTool \/ RefuseTool \/ RunTool
  BY <1>4 DEF DoubleBudget, TurnAborts, CompactAndRetry, StartTool, RefuseTool, RunTool
<1>5. CASE EndTool \/ ToolRaises \/ AppendResult \/ CollectResult \/ StepDone
  BY <1>5 DEF EndTool, ToolRaises, AppendResult, CollectResult, StepDone
<1>6. CASE AnswerFinal \/ StopBlocked \/ ReplyStands \/ EndTurn \/ SaveSnapshot
  BY <1>6 DEF AnswerFinal, StopBlocked, ReplyStands, EndTurn, SaveSnapshot
<1>7. CASE AnswerCalls
  BY <1>7 DEF AnswerCalls
<1> QED
  BY <1>1, <1>2, <1>3, <1>4, <1>5, <1>6, <1>7 DEF Next, Turn

LEMMA IdsQuietly ==
    ASSUME TypeInv, IdsInv, calls' = calls, pc # "down",
           Quiet \/ Mends \/ Joins \/ Ends \/ (\E h \in Compactions(messages, Keep) : Becomes(h))
             \/ Becomes(Kept(messages))
    PROVE  IdsInv'
<1>0. /\ messages \in Seq(Msg) /\ snapshot \in Seq(Msg) /\ jr.messages \in Seq(Msg)
      /\ UniqueIds(<<>>) /\ CallIds(<<>>) = {}
  BY JournalType, EmptyContents DEF TypeInv, HistoriesInv
<1>1. CASE Quiet
  BY <1>1 DEF Quiet, IdsInv
<1>2. CASE Mends
  <2>1. CallIds(Repair(messages)) = CallIds(messages) /\ UniqueIds(Repair(messages))
    BY <1>0, RepairMade DEF MadeFrom, IdsInv
  <2> QED
    BY <1>2, <2>1 DEF Mends, IdsInv
<1>3. CASE Joins
  <2>1. CallIds(messages') = CallIds(messages) /\ UniqueIds(messages')
    BY <1>0, <1>3, GrownContents DEF Joins, IdsInv
  <2> QED
    BY <1>3, <2>1 DEF Joins, IdsInv
<1>4. ASSUME NEW h \in Seq(Msg), CallIds(h) \subseteq CallIds(messages), UniqueIds(h), Becomes(h)
      PROVE  IdsInv'
  BY <1>4 DEF Becomes, IdsInv
<1>5. ASSUME NEW h \in Compactions(messages, Keep)
      PROVE  h \in Seq(Msg) /\ CallIds(h) \subseteq CallIds(messages) /\ UniqueIds(h)
  <2>1. h \in Seq(Msg) /\ ToSet(h) \subseteq ToSet(messages) \cup {Summary} /\ UniqueIds(h)
    BY <1>0, CompactedMessages DEF IdsInv
  <2> QED
    BY <1>0, <2>1, FewerMessages
<1>6. CASE \E h \in Compactions(messages, Keep) : Becomes(h)
  BY <1>4, <1>5, <1>6
<1>7. CASE Ends
  <2>1. CASE jr'.messages = jr.messages
    BY <1>0, <1>7, <2>1 DEF Ends, IdsInv
  <2>2. CASE jr'.messages \in Compactions(messages, Keep)
    <3>1. CallIds(jr'.messages) \subseteq CallIds(messages) /\ UniqueIds(jr'.messages)
      BY <1>5, <2>2
    <3> QED
      BY <1>0, <1>7, <3>1 DEF Ends, IdsInv
  <2> QED
    BY <1>7, <2>1, <2>2 DEF Ends
<1>8. CASE Becomes(Kept(messages))
  <2>1. Kept(messages) \in Seq(Msg) /\ ToSet(Kept(messages)) \subseteq ToSet(messages)
    BY <1>0, KeptMessages
  <2>2. CallIds(Kept(messages)) \subseteq CallIds(messages)
    BY <1>0, <2>1, FewerMessages
  <2>3. UniqueIds(Kept(messages))
    <3>1. CASE \A m \in ToSet(Kept(messages)) : m.role = "system"
      <4>1. \A m \in ToSet(Kept(messages)) : m \in Msg
        BY <1>0, <2>1 DEF ToSet
      <4>2. Plain(Kept(messages))
        BY <3>1, <4>1, MsgFacts DEF Plain
      <4> QED
        BY <2>1, <4>2, PlainFacts
    <3>2. CASE Kept(messages) = <<messages[1]>> /\ messages # <<>>
      <4>1. messages[1] \in Msg /\ 1 \in DOMAIN messages
        BY <1>0, <3>2, SeqFacts
      <4>2. IsInjective(OpenIds(messages[1]))
        BY <1>0, <4>1, UniqueOpenIds DEF IdsInv
      <4>3. <<messages[1]>> = Append(<<>>, messages[1]) /\ <<>> \in Seq(Msg)
        BY <4>1
      <4>4. UniqueIds(Append(<<>>, messages[1]))
        BY <1>0, <4>1, <4>2, <4>3, AppendUnique
      <4> QED
        BY <3>2, <4>3, <4>4
    <3> QED
      BY <1>0, <3>1, <3>2, KeptMessages
  <2> QED
    BY <1>4, <1>8, <2>1, <2>2, <2>3
<1> QED
  BY <1>1, <1>2, <1>3, <1>6, <1>7, <1>8

LEMMA IdsPlainly ==
    ASSUME TypeInv, IdsInv, calls' = calls, pc # "down", NEW m, m.calls = <<>>, Says(m)
    PROVE  IdsInv'
<1>0. messages \in Seq(Msg) /\ jr.messages \in Seq(Msg) /\ m \in Msg
  BY JournalType DEF TypeInv, HistoriesInv, Says
<1>1. /\ CallIds(Append(messages, m)) = CallIds(messages) \cup Ids(m)
      /\ CallIds(Append(jr.messages, m)) = CallIds(jr.messages) \cup Ids(m) /\ Ids(m) = {}
  BY <1>0, AppendContents, NoCalls
<1>2. /\ UniqueIds(messages) => UniqueIds(Append(messages, m))
      /\ UniqueIds(jr.messages) => UniqueIds(Append(jr.messages, m))
  BY <1>0, AppendAnswer
<1> QED
  BY <1>1, <1>2 DEF Says, IdsInv

\* The ids of a new answer are in neither history.
LEMMA NewIdsAreNew ==
    ASSUME OneCallPerId, TypeInv, IdsInv, pc # "down", NEW k \in Nat \ {0}, NEW c \in NewCalls(k)
    PROVE  /\ c \in Seq(Call) /\ IsInjective(Due(c))
           /\ ToSet(Due(c)) \cap CallIds(messages) = {}
           /\ ~FlattenResume => ToSet(Due(c)) \cap CallIds(jr.messages) = {}
           /\ ReuseIds = FALSE => ToSet(Due(c)) \subseteq (calls + 1) .. (calls + k)
<1>0. calls \in Nat
  BY DEF TypeInv, ControlInv
<1>1. /\ c \in Seq(Call) /\ Len(c) = k /\ DOMAIN c = 1 .. k
      /\ IsInjective(Due(c)) /\ ToSet(Due(c)) \cap CallIds(messages) = {}
      /\ ReuseIds = FALSE => \A i \in 1 .. k : c[i].id = calls + i
  BY <1>0, NewCallsFacts, DueFacts
<1>2. ReuseIds = FALSE => ToSet(Due(c)) \subseteq (calls + 1) .. (calls + k)
  <2>1. ToSet(Due(c)) = {c[i].id : i \in 1 .. k}
    BY <1>1, DueFacts
  <2> QED
    BY <1>0, <1>1, <2>1
<1>3. ASSUME ~FlattenResume PROVE ToSet(Due(c)) \cap CallIds(jr.messages) = {}
  <2>1. CASE Capture
    BY <1>1, <1>3, <2>1 DEF IdsInv
  <2>2. CASE ReuseIds = FALSE
    <3>1. CallIds(jr.messages) \subseteq 1 .. calls
      BY <2>2 DEF IdsInv
    <3>2. \A x \in (calls + 1) .. (calls + k) : x \notin 1 .. calls
      BY <1>0
    <3> QED
      BY <1>2, <2>2, <3>1, <3>2
  <2> QED
    BY <1>3, <2>1, <2>2 DEF OneCallPerId
<1> QED
  BY <1>1, <1>2, <1>3

LEMMA IdsAsking ==
    ASSUME OneCallPerId, TypeInv, IdsInv, pc # "down", Structured,
           NEW k \in Nat \ {0}, NEW c \in NewCalls(k), calls' = calls + k, Says(Calling(c))
    PROVE  IdsInv'
<1> DEFINE m == Calling(c)
<1>0. /\ messages \in Seq(Msg) /\ jr.messages \in Seq(Msg) /\ m \in Msg /\ calls \in Nat
      /\ snapshot' = snapshot /\ messages' = Append(messages, m)
      /\ jr'.messages = Append(jr.messages, m)
  BY JournalType DEF TypeInv, HistoriesInv, ControlInv, Says
<1>1. /\ c \in Seq(Call) /\ IsInjective(Due(c))
      /\ ToSet(Due(c)) \cap CallIds(messages) = {}
      /\ ~FlattenResume => ToSet(Due(c)) \cap CallIds(jr.messages) = {}
      /\ ReuseIds = FALSE => ToSet(Due(c)) \subseteq (calls + 1) .. (calls + k)
  BY NewIdsAreNew
<1>2. OpenIds(m) = Due(c) /\ Ids(m) = ToSet(Due(c))
  BY <1>1, DueFacts
<1> HIDE DEF m
<1>3. /\ CallIds(messages') = CallIds(messages) \cup Ids(m)
      /\ CallIds(jr'.messages) = CallIds(jr.messages) \cup Ids(m)
  BY <1>0, AppendContents
<1>4. UniqueIds(messages')
  BY <1>0, <1>1, <1>2, AppendUnique DEF IdsInv
<1>5. ~FlattenResume => UniqueIds(jr'.messages)
  BY <1>0, <1>1, <1>2, AppendUnique DEF IdsInv
<1>6. ReuseIds = FALSE =>
          /\ CallIds(messages') \subseteq 1 .. calls' /\ CallIds(snapshot') \subseteq 1 .. calls'
          /\ CallIds(jr'.messages) \subseteq 1 .. calls'
  <2> SUFFICES ASSUME ReuseIds = FALSE
               PROVE  /\ CallIds(messages') \subseteq 1 .. calls'
                      /\ CallIds(snapshot') \subseteq 1 .. calls'
                      /\ CallIds(jr'.messages) \subseteq 1 .. calls'
    OBVIOUS
  <2>1. 1 .. calls \subseteq 1 .. calls' /\ (calls + 1) .. (calls + k) \subseteq 1 .. calls'
    BY <1>0
  <2> QED
    BY <1>0, <1>1, <1>2, <1>3, <2>1 DEF IdsInv
<1> QED
  BY <1>0, <1>3, <1>4, <1>5, <1>6 DEF IdsInv

LEMMA IdsWaking ==
    ASSUME TypeInv, IdsInv, calls' = calls, NEW j, Wakes(j)
    PROVE  IdsInv'
<1>0. /\ jr \in Journal /\ j \in Journal /\ snapshot \in Seq(Msg) /\ jr.messages \in Seq(Msg)
      /\ j.messages \in Seq(Msg) /\ System \in Msg
  BY JournalType, SystemMessage DEF TypeInv, HistoriesInv, Wakes
<1>1. CallIds(j.messages) = CallIds(jr.messages) /\ (UniqueIds(jr.messages) => UniqueIds(j.messages))
  <2>1. CASE j.messages = jr.messages
    BY <2>1
  <2>2. CASE j.messages = Append(jr.messages, System)
    <3>1. Ids(System) = {} /\ System.calls = <<>>
      BY SystemMessage, NoCalls
    <3>2. CallIds(Append(jr.messages, System)) = CallIds(jr.messages) \cup Ids(System)
      BY <1>0, AppendContents
    <3>3. UniqueIds(jr.messages) => UniqueIds(Append(jr.messages, System))
      BY <1>0, <3>1, AppendAnswer
    <3> QED
      BY <2>2, <3>1, <3>2, <3>3
  <2> QED
    BY <2>1, <2>2 DEF Wakes
<1> DEFINE o == Recovered(j)
<1>2. /\ FlattenResume => CallsOf(o) = {} /\ UniqueIds(o)
      /\ ~FlattenResume /\ Replayable(j) =>
            /\ CallsOf(o) = CallsOf(j.messages) /\ CallIds(o) = CallIds(j.messages)
            /\ UniqueIds(j.messages) => UniqueIds(o)
      /\ ~FlattenResume /\ ~Replayable(j) =>
            /\ CallsOf(o) \subseteq CallsOf(snapshot) /\ CallIds(o) \subseteq CallIds(snapshot)
            /\ UniqueIds(snapshot) => UniqueIds(o)
  BY <1>0, RecoveredCalls
<1>3. o \in Seq(Msg) /\ messages' = o /\ jr' = j /\ snapshot' = snapshot
  BY <1>0, RecoveredType DEF Wakes
<1> HIDE DEF o
<1>4. FlattenResume => CallIds(o) = {}
  BY <1>2, <1>3, CallsType
<1>5. ASSUME Capture, ~Replayable(j) PROVE CallIds(j.messages) = {}
  <2>1. j.messages = Append(jr.messages, System) /\ ~(Len(j.messages) > 1)
    BY <1>5 DEF Wakes, Replayable
  <2>2. Len(j.messages) = Len(jr.messages) + 1 /\ Len(jr.messages) \in Nat
    BY <1>0, <2>1
  <2>3. jr.messages = <<>>
    BY <1>0, <2>1, <2>2
  <2> QED
    BY <1>1, <2>3, EmptyContents
<1>6. UniqueIds(o)
  BY <1>1, <1>2 DEF IdsInv
<1>7. ~FlattenResume => UniqueIds(j.messages)
  BY <1>1 DEF IdsInv
<1>8. Capture /\ ~FlattenResume => CallIds(j.messages) \subseteq CallIds(o)
  BY <1>2, <1>5
<1>9. ReuseIds = FALSE => CallIds(o) \subseteq 1 .. calls
  BY <1>1, <1>2, <1>4 DEF IdsInv
<1> QED
  BY <1>1, <1>3, <1>6, <1>7, <1>8, <1>9 DEF IdsInv

LEMMA IdsStep ==
    ASSUME OneCallPerId, TypeInv, IdsInv, Next
    PROVE  IdsInv'
<1>0. (AnswerCalls \/ calls' = calls) /\ (pc = "down" => Start)
  BY OtherSteps
<1>1. CASE Start
  <2>1. calls' = calls
    BY <1>1 DEF Start, bookkeeping
  <2> QED
    BY <1>1, <2>1, WakingStep, IdsWaking
<1>2. CASE AnswerCalls
  <2>0. pc # "down"
    BY <1>2 DEF AnswerCalls, Goto
  <2>1. PICK k \in Nat \ {0} : \E c \in NewCalls(k) :
            calls' = calls + k /\ todo' = c /\ c \in Seq(Call) /\ Says(Asking(c))
    BY <1>2, SayingSteps
  <2>2. PICK c \in NewCalls(k) : calls' = calls + k /\ c \in Seq(Call) /\ Says(Asking(c))
    BY <2>1
  <2>3. CASE Structured
    BY <2>0, <2>2, <2>3, IdsAsking DEF Asking
  <2>4. CASE ~Structured
    <3>1. Asking(c).calls = <<>>
      BY <2>2, <2>4, SessionMessages
    <3>2. messages' = Append(messages, Asking(c)) /\ jr'.messages = Append(jr.messages, Asking(c))
          /\ snapshot' = snapshot
      BY <2>2 DEF Says
    <3>3. messages \in Seq(Msg) /\ jr.messages \in Seq(Msg) /\ Asking(c) \in Msg /\ calls \in Nat
      BY <2>2, JournalType DEF TypeInv, HistoriesInv, ControlInv, Says
    <3>4. /\ CallIds(messages') = CallIds(messages) \cup Ids(Asking(c))
          /\ CallIds(jr'.messages) = CallIds(jr.messages) \cup Ids(Asking(c))
          /\ Ids(Asking(c)) = {}
      BY <3>1, <3>2, <3>3, AppendContents, NoCalls
    <3>5. /\ UniqueIds(messages) => UniqueIds(messages')
          /\ UniqueIds(jr.messages) => UniqueIds(jr'.messages)
      BY <3>1, <3>2, <3>3, AppendAnswer
    <3>6. 1 .. calls \subseteq 1 .. calls'
      BY <2>2, <3>3
    <3> QED
      BY <2>0, <3>2, <3>4, <3>5, <3>6 DEF IdsInv
  <2> QED
    BY <2>3, <2>4
<1>3. CASE ~Start /\ ~AnswerCalls
  <2>0. calls' = calls /\ pc # "down"
    BY <1>0, <1>3
  <2>1. CASE BeginTurn \/ PromptBlocked
    BY <2>0, <2>1, MendingSteps, IdsQuietly
  <2>2. CASE Submit \/ AnswerFinal \/ StopBlocked \/ AppendResult \/ StepDone
    <3>1. Joins \/ Quiet \/ \E m : m.calls = <<>> /\ Says(m)
      <4>1. CASE Submit
        <5>1. Task \in Msg /\ Task.role = "user"
          BY SessionMessages
        <5>2. Task.calls = <<>>
          BY <5>1, MsgFacts
        <5> QED
          BY <4>1, <5>2, SayingSteps, JoiningStep
      <4>2. CASE AnswerFinal
        <5>1. Reply.calls = <<>>
          BY SessionMessages
        <5> QED
          BY <4>2, <5>1, SayingSteps
      <4>3. CASE StopBlocked
        <5>1. Objection \in Msg /\ Objection.role = "user"
          BY SessionMessages
        <5>2. Objection.calls = <<>>
          BY <5>1, MsgFacts
        <5> QED
          BY <4>3, <5>2, SayingSteps
      <4>4. CASE AppendResult
        <5>1. todo # <<>>
          BY <4>4 DEF AppendResult, Goto, TypeInv, ControlInv
        <5>2. Result.calls = <<>>
          BY <5>1, SessionMessages
        <5> QED
          BY <4>4, <5>2, SayingSteps
      <4>5. CASE StepDone
        <5>1. Results \in Msg /\ Results.role = "user"
          BY SessionMessages
        <5>2. Results.calls = <<>>
          BY <5>1, MsgFacts
        <5> QED
          BY <4>5, <5>2, SayingSteps, QuietSteps
      <4> QED
        BY <2>2, <4>1, <4>2, <4>3, <4>4, <4>5
    <3> QED
      BY <2>0, <3>1, IdsQuietly, IdsPlainly
  <2>3. CASE CompactAndRetry \/ CompactNow \/ Clear
    BY <2>0, <2>3, ReplacingSteps, IdsQuietly
  <2>4. CASE Exit \/ Crash \/ CrashSaving
    BY <2>0, <2>4, EndingSteps, IdsQuietly
  <2>5. CASE \/ Resubmit \/ InterruptedEarly \/ ModelAnswers \/ DoubleBudget \/ TurnAborts
             \/ StartTool \/ RefuseTool \/ RunTool \/ EndTool \/ ToolRaises \/ CollectResult
             \/ ReplyStands \/ EndTurn \/ SaveSnapshot
    BY <2>0, <2>5, QuietSteps, IdsQuietly
  <2> QED
    BY <1>3, <2>1, <2>2, <2>3, <2>4, <2>5 DEF Next, Turn
<1> QED
  BY <1>1, <1>2, <1>3

\* From the repair before a turn on, every call of the live history has its
\* result behind it, but for those being answered.
PairInv ==
    /\ pc \in {"submit", "ask", "answered", "final"} => Owes(messages, <<>>)
    /\ pc \in Dispatching => Owes(messages, IF Structured THEN Due(todo) ELSE <<>>)

\* A message without calls, which no call waits for.
LEMMA OwesPlainly ==
    ASSUME NEW h \in Seq(Msg), Owes(h, <<>>), NEW m \in Msg, m.role # "tool", m.calls = <<>>
    PROVE  Owes(Append(h, m), <<>>)
<1>1. OpenIds(m) = <<>>
  BY NoCalls
<1> QED
  BY <1>1, OwesOther

LEMMA DueNone == Due(<<>>) = <<>>
<1>1. DOMAIN Due(<<>>) = 1 .. 0 /\ Due(<<>>) \in Seq({}) /\ Len(Due(<<>>)) = 0
  BY DEF Due
<1> QED
  BY <1>1

LEMMA DueTail ==
    ASSUME NEW t \in Seq(Call), t # <<>>
    PROVE  /\ Tail(t) \in Seq(Call) /\ Due(t) \in Seq(CallId) /\ Due(Tail(t)) \in Seq(CallId)
           /\ Len(Due(t)) = Len(Due(Tail(t))) + 1 /\ Head(t) \in Call
           /\ ToSet(Due(Tail(t))) \cup {Head(t).id} = ToSet(Due(t))
<1>1. /\ Tail(t) \in Seq(Call) /\ Len(Tail(t)) = Len(t) - 1 /\ Len(t) \in Nat /\ Len(t) > 0
      /\ \A k \in 1 .. (Len(t) - 1) : Tail(t)[k] = t[k + 1]
      /\ Head(t) = t[1] /\ Head(t) \in Call
  OBVIOUS
<1>2. /\ Due(t) \in Seq(CallId) /\ Len(Due(t)) = Len(t)
      /\ ToSet(Due(t)) = {t[k].id : k \in 1 .. Len(t)}
  BY DueFacts, SMTT(30)
<1>3. /\ Due(Tail(t)) \in Seq(CallId) /\ Len(Due(Tail(t))) = Len(Tail(t))
      /\ ToSet(Due(Tail(t))) = {Tail(t)[k].id : k \in 1 .. Len(Tail(t))}
  BY <1>1, DueFacts, ZenonT(60)
<1>4. ToSet(Due(Tail(t))) \cup {Head(t).id} = ToSet(Due(t))
  <2>1. ASSUME NEW k \in 1 .. Len(Tail(t)) PROVE Tail(t)[k].id \in ToSet(Due(t))
    <3>1. k + 1 \in 1 .. Len(t) /\ Tail(t)[k] = t[k + 1]
      BY <1>1
    <3> QED
      BY <1>2, <3>1
  <2>2. Head(t).id \in ToSet(Due(t))
    <3>1. 1 \in 1 .. Len(t)
      BY <1>1
    <3> QED
      BY <1>1, <1>2, <3>1
  <2>3. ASSUME NEW k \in 1 .. Len(t) PROVE t[k].id \in ToSet(Due(Tail(t))) \cup {Head(t).id}
    <3>1. CASE k = 1
      BY <1>1, <3>1
    <3>2. CASE k # 1
      <4>1. k - 1 \in 1 .. Len(Tail(t)) /\ Tail(t)[k - 1] = t[(k - 1) + 1] /\ (k - 1) + 1 = k
        BY <1>1, <3>2
      <4> QED
        BY <1>3, <4>1
    <3> QED
      BY <3>1, <3>2
  <2> QED
    BY <1>2, <1>3, <2>1, <2>2, <2>3
<1>5. Len(Due(t)) = Len(Due(Tail(t))) + 1
  <2>1. Len(Due(t)) = Len(t) /\ Len(Due(Tail(t))) = Len(Tail(t))
    BY <1>2, <1>3
  <2>2. Len(Tail(t)) = Len(t) - 1 /\ Len(t) \in Nat
    BY <1>1
  <2> QED
    BY <2>1, <2>2
<1>6. Tail(t) \in Seq(Call) /\ Head(t) \in Call
  BY <1>1
<1> QED
  BY <1>2, <1>3, <1>4, <1>5, <1>6

LEMMA PairStep ==
    ASSUME TypeInv, PairInv, Next
    PROVE  PairInv'
<1>0. /\ messages \in Seq(Msg) /\ todo \in Seq(Call)
      /\ pc \in Working \cup {"ended"} => todo # <<>>
  BY DEF TypeInv, HistoriesInv, ControlInv
<1>1. ASSUME pc' \in {"down", "idle", "save", "close"} PROVE PairInv'
  BY <1>1 DEF PairInv, Dispatching, Working
<1>2. ASSUME pc' \in {"submit", "ask", "answered", "final"}, Owes(messages', <<>>)
      PROVE  PairInv'
  BY <1>2 DEF PairInv, Dispatching, Working
<1>3. ASSUME pc' \in Dispatching, Owes(messages', IF Structured THEN Due(todo') ELSE <<>>)
      PROVE  PairInv'
  BY <1>3 DEF PairInv, Dispatching, Working
<1>4. CASE \/ Start \/ PromptBlocked \/ SaveSnapshot \/ Clear \/ InterruptedEarly \/ EndTurn
           \/ ToolRaises \/ TurnAborts \/ ReplyStands \/ Exit \/ Crash \/ CrashSaving
  <2>1. pc' \in {"down", "idle", "save", "close"}
    BY <1>4 DEF Start, PromptBlocked, SaveSnapshot, Clear, InterruptedEarly, EndTurn,
       ToolRaises, TurnAborts, ReplyStands, Exit, Crash, CrashSaving, Stop, Goto
  <2> QED
    BY <1>1, <2>1
<1>5. CASE BeginTurn
  <2>1. pc' = "submit" /\ messages' = Repair(messages)
    BY <1>5 DEF BeginTurn, Goto
  <2> QED
    BY <1>0, <1>2, <2>1, RepairPairs
<1>6. CASE Resubmit \/ ModelAnswers \/ DoubleBudget
  <2>1. /\ pc \in {"submit", "ask", "answered"} /\ pc' \in {"ask", "answered"}
        /\ messages' = messages
    BY <1>6 DEF Resubmit, ModelAnswers, DoubleBudget, memory, Goto
  <2> QED
    BY <1>2, <2>1 DEF PairInv
<1>7. CASE Submit
  <2>1. pc = "submit" /\ pc' = "ask"
    BY <1>7 DEF Submit, Goto
  <2>2. Owes(messages, <<>>)
    BY <2>1 DEF PairInv
  <2>3. CASE Joins
    <3>1. Owes(messages', <<>>)
      BY <1>0, <2>2, <2>3, GrownContents DEF Joins
    <3> QED
      BY <1>2, <2>1, <3>1
  <2>4. CASE Says(Task)
    <3>1. Task \in Msg /\ Task.role = "user"
      BY SessionMessages
    <3>2. Task.calls = <<>>
      BY <3>1, MsgFacts
    <3>3. Owes(Append(messages, Task), <<>>)
      BY <1>0, <2>2, <3>1, <3>2, OwesPlainly
    <3> QED
      BY <1>2, <2>1, <2>4, <3>3 DEF Says
  <2> QED
    BY <1>7, <2>3, <2>4, SayingSteps, JoiningStep
<1>8. CASE CompactAndRetry \/ CompactNow
  <2>1. pc \in {"ask", "answered", "final", "idle"} /\ pc' \in {pc, "close"}
    BY <1>8 DEF CompactAndRetry, CompactNow
  <2>2. CASE pc' \in {"idle", "close"}
    BY <1>1, <2>2
  <2>3. CASE pc' \notin {"idle", "close"}
    <3>1. pc' \in {"ask", "answered", "final"} /\ pc' = pc
      BY <2>1, <2>3
    <3>2. PICK h \in Compactions(messages, Keep) : messages' = h
      BY <1>8, ReplacingSteps DEF Becomes
    <3>3. Owes(messages, <<>>)
      BY <3>1 DEF PairInv
    <3>4. Owes(h, <<>>)
      BY <1>0, <3>3, CompactedMessages
    <3> QED
      BY <1>2, <3>1, <3>2, <3>4
  <2> QED
    BY <2>2, <2>3
<1>9. CASE AnswerCalls
  <2>1. pc = "answered" /\ pc' = "dispatch"
    BY <1>9 DEF AnswerCalls, Goto
  <2>2. Owes(messages, <<>>)
    BY <2>1 DEF PairInv
  <2>3. PICK c : todo' = c /\ c \in Seq(Call) /\ Says(Asking(c))
    BY <1>9, SayingSteps
  <2>4. Asking(c) \in Msg /\ Asking(c).role = "assistant" /\ messages' = Append(messages, Asking(c))
    BY <2>3 , SessionMessages DEF Says
  <2>5. Owes(Append(messages, Asking(c)), OpenIds(Asking(c)))
    BY <1>0, <2>2, <2>4, OwesOther
  <2>6. OpenIds(Asking(c)) = IF Structured THEN Due(c) ELSE <<>>
    <3>1. CASE Structured
      BY <2>3, <3>1, DueFacts DEF Asking
    <3>2. CASE ~Structured
      BY <2>3, <3>2, SessionMessages, NoCalls
    <3> QED
      BY <3>1, <3>2
  <2>7. Owes(messages', IF Structured THEN Due(todo') ELSE <<>>)
    BY <2>3, <2>4, <2>5, <2>6
  <2> QED
    BY <1>3, <2>1, <2>7 DEF Dispatching
<1>10. CASE StartTool \/ RefuseTool \/ RunTool \/ EndTool
  <2>1. pc \in Dispatching /\ pc' \in Dispatching /\ messages' = messages /\ todo' = todo
    BY <1>10 DEF StartTool, RefuseTool, RunTool, EndTool, memory, Goto, Dispatching, Working
  <2> QED
    BY <1>3, <2>1 DEF PairInv
<1>11. CASE CollectResult
  <2>1. ~Structured /\ pc \in Dispatching /\ pc' \in Dispatching /\ messages' = messages
    BY <1>11 DEF CollectResult, Goto, Dispatching, Working
  <2> QED
    BY <1>3, <2>1 DEF PairInv
<1>12. CASE AppendResult
  <2>1. /\ Structured /\ pc = "ended" /\ pc' = "dispatch" /\ todo' = Tail(todo)
    BY <1>12 DEF AppendResult, Goto
  <2>2. todo # <<>> /\ Owes(messages, Due(todo))
    BY <1>0, <2>1 DEF PairInv, Dispatching
  <2>3. /\ Result \in Msg /\ Result.role = "tool" /\ Result.id = Head(todo).id
        /\ messages' = Append(messages, Result)
    BY <1>12, <2>2, SessionMessages, SayingSteps DEF Says
  <2>4. /\ Due(todo) \in Seq(CallId) /\ Due(Tail(todo)) \in Seq(CallId)
        /\ Len(Due(todo)) = Len(Due(Tail(todo))) + 1
        /\ ToSet(Due(Tail(todo))) \cup {Head(todo).id} = ToSet(Due(todo))
    BY <1>0, <2>2, DueTail
  <2>5. Owes(Append(messages, Result), Due(Tail(todo)))
    BY <1>0, <2>2, <2>3, <2>4, OwesAnswer
  <2> QED
    BY <1>3, <2>1, <2>3, <2>5 DEF Dispatching
<1>13. CASE StepDone
  <2>1. pc = "dispatch" /\ pc' = "ask" /\ todo = <<>>
    BY <1>13 DEF StepDone, Goto
  <2>2. Owes(messages, <<>>)
    BY <2>1, DueNone DEF PairInv, Dispatching
  <2>3. CASE Structured
    BY <1>2, <1>13, <2>1, <2>2, <2>3 DEF StepDone
  <2>4. CASE ~Structured
    <3>1. Results \in Msg /\ Results.role = "user" /\ messages' = Append(messages, Results)
      BY <1>13, <2>4, SessionMessages, SayingSteps DEF Says
    <3>2. Results.calls = <<>>
      BY <3>1, MsgFacts
    <3>3. Owes(Append(messages, Results), <<>>)
      BY <1>0, <2>2, <3>1, <3>2, OwesPlainly
    <3> QED
      BY <1>2, <2>1, <3>1, <3>3
  <2> QED
    BY <2>3, <2>4
<1>14. CASE AnswerFinal \/ StopBlocked
  <2>1. pc \in {"answered", "final"} /\ pc' \in {"ask", "final"}
    BY <1>14 DEF AnswerFinal, StopBlocked, Goto
  <2>2. Owes(messages, <<>>)
    BY <2>1 DEF PairInv
  <2>3. \E m \in Msg : m.role # "tool" /\ m.calls = <<>> /\ messages' = Append(messages, m)
    <3>1. /\ Reply \in Msg /\ Reply.role = "assistant" /\ Reply.calls = <<>>
          /\ Objection \in Msg /\ Objection.role = "user"
      BY SessionMessages
    <3>2. Objection.calls = <<>>
      BY <3>1, MsgFacts
    <3>3. messages' = Append(messages, Reply) \/ messages' = Append(messages, Objection)
      BY <1>14, SayingSteps DEF Says
    <3> QED
      BY <3>1, <3>2, <3>3
  <2>4. Owes(messages', <<>>)
    BY <1>0, <2>2, <2>3, OwesPlainly
  <2> QED
    BY <1>2, <2>1, <2>4
<1> QED
  BY <1>4, <1>5, <1>6, <1>7, <1>8, <1>9, <1>10, <1>11, <1>12, <1>13, <1>14 DEF Next, Turn

\* The model is only ever asked about a history in which each call has its one
\* result right behind it and no id names two calls: through interruptions at
\* any step, crashes, resumes, compaction, hook continuations and /clear.
THEOREM RequestsArePaired ==
    ASSUME OneCallPerId
    PROVE  Spec => []RequestPaired
<1> DEFINE Inv == TypeInv /\ IdsInv /\ PairInv
<1>1. Init => Inv
  <2> SUFFICES ASSUME Init PROVE Inv
    OBVIOUS
  <2>1. jr.messages = <<>> /\ messages = <<>> /\ snapshot = <<>> /\ pc = "down"
    BY DEF Init, EmptyJournal
  <2>2. IdsInv
    BY <2>1, EmptyContents DEF IdsInv
  <2>3. PairInv
    BY <2>1 DEF PairInv, Dispatching, Working
  <2> QED
    BY <2>2, <2>3, TypeInit
<1>2. Inv /\ [Next]_vars => Inv'
  <2> SUFFICES ASSUME Inv, [Next]_vars PROVE Inv'
    OBVIOUS
  <2>1. TypeInv'
    BY TypeStep
  <2>2. CASE Next
    BY <2>1, <2>2, OneCallPerId, IdsStep, PairStep
  <2>3. CASE UNCHANGED vars
    BY <2>1, <2>3 DEF vars, disk, memory, bookkeeping, ghosts, IdsInv, PairInv
  <2> QED
    BY <2>2, <2>3
<1>3. Inv => RequestPaired
  <2> SUFFICES ASSUME Inv, pc = "ask" PROVE Paired(messages) /\ UniqueIds(messages)
    BY DEF RequestPaired
  <2>1. messages \in Seq(Msg) /\ Owes(messages, <<>>) /\ UniqueIds(messages)
    BY DEF TypeInv, HistoriesInv, PairInv, IdsInv
  <2> QED
    BY <2>1, PairedOwes
<1> QED
  BY <1>1, <1>2, <1>3, PTL DEF Spec
-----------------------------------------------------------------------------
(* The recovery notes of known results                                     *)

\* What normalisation adds: placeholders, and lines for flattened calls.
Losses(h) == {<<"lost", id>> : id \in CallIds(h)}

LEMMA NormaliseSays ==
    ASSUME NEW h \in Seq(Msg), NEW flatten \in BOOLEAN
    PROVE  Mentions(Normalise(h, flatten)) \subseteq Mentions(h) \cup Uses(h) \cup Losses(h)
<1> DEFINE g == MergeUsers(h)
<1>1. MergedFrom(g, h)
  BY MergeUsersMerged
<1>2. /\ g \in Seq(Msg) /\ Mentions(g) = Mentions(h) /\ CallIds(g) = CallIds(h)
      /\ AnsweredIds(g) = AnsweredIds(h)
  BY <1>1 DEF MergedFrom
<1> HIDE DEF g
<1>3. CASE flatten
  <2>1. Flattened(Flatten(g), g)
    BY <1>2, FlattenFlattens
  <2>2. /\ Flatten(g) \in Seq(Msg) /\ Plain(Flatten(g))
        /\ Mentions(Flatten(g)) \subseteq Mentions(g) \cup Uses(g)
    BY <2>1 DEF Flattened
  <2>3. Normalise(h, flatten) = Repair(Flatten(g))
    BY <1>3 DEF Normalise, g
  <2>4. Repair(Flatten(g)) = Flatten(g)
    BY <2>2, PlainFacts
  <2>5. Uses(g) = Uses(h)
    BY <1>2 DEF Uses
  <2> QED
    BY <1>2, <2>2, <2>3, <2>4, <2>5
<1>4. CASE ~flatten
  <2>1. Normalise(h, flatten) = Repair(g)
    BY <1>4 DEF Normalise, g
  <2>2. ToSet(Repair(g)) \subseteq ToSet(g) \cup {Lost(id) : id \in CallIds(g)}
    BY <1>2, RepairMade DEF MadeFrom
  <2>3. ASSUME NEW x \in Mentions(Repair(g)) PROVE x \in Mentions(g) \cup Losses(g)
    <3>1. PICK m \in ToSet(Repair(g)) : x \in m.text
      BY <2>3 DEF Mentions, ToSet
    <3>2. CASE m \in ToSet(g)
      BY <3>1, <3>2 DEF Mentions, ToSet
    <3>3. CASE \E id \in CallIds(g) : m = Lost(id)
      <4>1. PICK id \in CallIds(g) : m = Lost(id)
        BY <3>3
      <4>2. m.text = {<<"lost", id>>}
        BY <4>1 DEF Lost, ToolResult, Message
      <4> QED
        BY <3>1, <4>1, <4>2 DEF Losses
    <3> QED
      BY <2>2, <3>1, <3>2, <3>3
  <2>4. Losses(g) = Losses(h)
    BY <1>2 DEF Losses
  <2> QED
    BY <1>2, <2>1, <2>3, <2>4
<1> QED
  BY <1>3, <1>4

\* A resume can note results as known only for structured calls that it keeps.
Noting == Structured /\ ~FlattenResume

\* The calls minted when there were c of them.
MintedTo(c) == {d \in Call : d.id = d.n /\ d.n <= c}

\* The result that a message says is that of the call it answers.
Owned(m) == \A n \in Nat : <<"res", n>> \in m.text => m.role = "tool" /\ m.id = n

\* What the history h holds when c calls were made and those in t are still to
\* be dispatched: calls of this session; and of each result either the tool
\* message or a note that it is known, never a note of one that is due.
NotesFit(h, c, t) ==
    /\ CallsOf(h) \subseteq MintedTo(c)
    /\ Structured \/ CallsOf(h) = {}
    /\ Noting => \A m \in ToSet(h) : Owned(m)
    /\ \A n \in Nat : <<"known", n>> \in Mentions(h) =>
          /\ Noting /\ <<"res", n>> \notin Mentions(h) /\ n <= c
          /\ \A i \in DOMAIN t : t[i].n # n

NotesInv ==
    NotesFit(messages, calls, todo) /\ NotesFit(snapshot, calls, todo)
        /\ NotesFit(jr.messages, calls, todo)

LEMMA FitsLater ==
    ASSUME NEW h, NEW c \in Nat, NEW t, NotesFit(h, c, t), NEW d \in Nat, c <= d, NEW u,
           \A i \in DOMAIN u : u[i].n > c \/ \E k \in DOMAIN t : t[k].n = u[i].n
    PROVE  NotesFit(h, d, u)
<1>1. MintedTo(c) \subseteq MintedTo(d)
  BY DEF MintedTo, Call
<1>2. CallsOf(h) \subseteq MintedTo(d)
  BY <1>1 DEF NotesFit
<1>3. ASSUME NEW n \in Nat, <<"known", n>> \in Mentions(h)
      PROVE  /\ Noting /\ <<"res", n>> \notin Mentions(h) /\ n <= d
             /\ \A i \in DOMAIN u : u[i].n # n
  <2>1. /\ Noting /\ <<"res", n>> \notin Mentions(h) /\ n <= c
        /\ \A i \in DOMAIN t : t[i].n # n
    BY <1>3 DEF NotesFit
  <2>2. \A i \in DOMAIN u : u[i].n # n
    <3>1. \A i \in DOMAIN u : u[i].n > c => u[i].n # n
      BY <2>1
    <3> QED
      BY <2>1, <3>1
  <2>3. n <= d
    BY <2>1
  <2> QED
    BY <2>1, <2>2, <2>3
<1> QED
  BY <1>2, <1>3 DEF NotesFit

\* A message that makes no calls and says nothing of results.
Silent(m) ==
    m.calls = <<>> /\ \A n \in Nat : <<"res", n>> \notin m.text /\ <<"known", n>> \notin m.text

LEMMA FitsFewer ==
    ASSUME NEW h \in Seq(Msg), NEW q \in Seq(Msg), NEW c, NEW t, NotesFit(h, c, t),
           \A m \in ToSet(q) : m \in ToSet(h) \/ Silent(m)
    PROVE  NotesFit(q, c, t)
<1>1. CallsOf(q) \subseteq CallsOf(h)
  <2> SUFFICES ASSUME NEW i \in DOMAIN q, NEW k \in DOMAIN q[i].calls
               PROVE  q[i].calls[k] \in CallsOf(h)
    BY DEF CallsOf
  <2>1. q[i] \in ToSet(q) /\ q[i].calls # <<>>
    BY DEF ToSet
  <2>2. q[i] \in ToSet(h)
    BY <2>1 DEF Silent
  <2>3. PICK j \in DOMAIN h : h[j] = q[i]
    BY <2>2 DEF ToSet
  <2> QED
    BY <2>3 DEF CallsOf
<1>2. ASSUME NEW kind \in {"res", "known"}, NEW n \in Nat, <<kind, n>> \in Mentions(q)
      PROVE  <<kind, n>> \in Mentions(h)
  <2>1. PICK m \in ToSet(q) : <<kind, n>> \in m.text
    BY <1>2 DEF Mentions, ToSet
  <2>2. m \in ToSet(h)
    BY <2>1 DEF Silent
  <2> QED
    BY <2>1, <2>2 DEF Mentions, ToSet
<1>3. Noting => \A m \in ToSet(q) : Owned(m)
  <2>1. \A m : Silent(m) => Owned(m)
    BY DEF Silent, Owned
  <2> QED
    BY <2>1 DEF NotesFit
<1>4. ASSUME NEW n \in Nat, <<"known", n>> \in Mentions(q)
      PROVE  /\ Noting /\ <<"res", n>> \notin Mentions(q) /\ n <= c
             /\ \A i \in DOMAIN t : t[i].n # n
  BY <1>2, <1>4 DEF NotesFit
<1> QED
  BY <1>1, <1>3, <1>4 DEF NotesFit

LEMMA FitsAppend ==
    ASSUME NEW h \in Seq(Msg), NEW c, NEW t, NotesFit(h, c, t), NEW m \in Msg,
           ToSet(m.calls) \subseteq MintedTo(c), Structured \/ m.calls = <<>>,
           \A n \in Nat : <<"known", n>> \notin m.text,
           Noting => Owned(m),
           Noting => \A n \in Nat : <<"res", n>> \in m.text => <<"known", n>> \notin Mentions(h)
    PROVE  NotesFit(Append(h, m), c, t)
<1>1. /\ CallsOf(Append(h, m)) = CallsOf(h) \cup ToSet(m.calls)
      /\ Mentions(Append(h, m)) = Mentions(h) \cup m.text
      /\ ToSet(Append(h, m)) = ToSet(h) \cup {m}
  BY AppendContents
<1>2. m.calls = <<>> => ToSet(m.calls) = {}
  BY NoCalls
<1>3. Structured \/ CallsOf(Append(h, m)) = {}
  BY <1>1, <1>2 DEF NotesFit
<1>4. CallsOf(Append(h, m)) \subseteq MintedTo(c)
  BY <1>1 DEF NotesFit
<1>5. Noting => \A x \in ToSet(Append(h, m)) : Owned(x)
  BY <1>1 DEF NotesFit
<1>6. ASSUME NEW n \in Nat, <<"known", n>> \in Mentions(Append(h, m))
      PROVE  /\ Noting /\ <<"res", n>> \notin Mentions(Append(h, m)) /\ n <= c
             /\ \A i \in DOMAIN t : t[i].n # n
  <2>1. <<"known", n>> \in Mentions(h)
    BY <1>1, <1>6
  <2>2. /\ Noting /\ <<"res", n>> \notin Mentions(h) /\ n <= c
        /\ \A i \in DOMAIN t : t[i].n # n
    BY <2>1 DEF NotesFit
  <2>3. <<"res", n>> \notin m.text
    BY <2>1, <2>2
  <2> QED
    BY <1>1, <2>2, <2>3
<1> QED
  BY <1>3, <1>4, <1>5, <1>6 DEF NotesFit

\* q is h with more in its user messages, but nothing of results.
LEMMA FitsMerged ==
    ASSUME NEW h \in Seq(Msg), NEW c, NEW t, NotesFit(h, c, t), NEW q \in Seq(Msg), NEW x,
           CallsOf(q) = CallsOf(h), Others(q) \subseteq Others(h),
           Said(q) \subseteq Said(h) \cup x, Mentions(q) \subseteq Mentions(h) \cup x,
           \A n \in Nat : <<"res", n>> \notin x /\ <<"known", n>> \notin x
    PROVE  NotesFit(q, c, t)
<1>1. ASSUME Noting, NEW m \in ToSet(q) PROVE Owned(m)
  <2>1. CASE m.role # "user"
    <3>1. m \in ToSet(h)
      BY <2>1 DEF Others
    <3> QED
      BY <1>1, <3>1 DEF NotesFit
  <2>2. CASE m.role = "user"
    <3> SUFFICES ASSUME NEW n \in Nat, <<"res", n>> \in m.text PROVE FALSE
      BY DEF Owned
    <3>1. <<"res", n>> \in Said(q)
      BY <2>2 DEF Said, ToSet
    <3>2. <<"res", n>> \in Said(h)
      BY <3>1
    <3>3. PICK i \in DOMAIN h : h[i].role = "user" /\ <<"res", n>> \in h[i].text
      BY <3>2 DEF Said
    <3>4. Owned(h[i])
      BY <1>1 DEF NotesFit, ToSet
    <3> QED
      BY <3>3, <3>4 DEF Owned
  <2> QED
    BY <2>1, <2>2
<1>2. ASSUME NEW n \in Nat, <<"known", n>> \in Mentions(q)
      PROVE  /\ Noting /\ <<"res", n>> \notin Mentions(q) /\ n <= c
             /\ \A i \in DOMAIN t : t[i].n # n
  <2>1. <<"known", n>> \in Mentions(h)
    BY <1>2
  <2> QED
    BY <2>1 DEF NotesFit
<1>3. CallsOf(q) \subseteq MintedTo(c) /\ (Structured \/ CallsOf(q) = {})
  BY DEF NotesFit
<1> QED
  BY <1>1, <1>2, <1>3 DEF NotesFit

LEMMA PlaceholdersSilent ==
    ASSUME NEW id
    PROVE  Silent(Lost(id))
  BY DEF Silent, Lost, ToolResult, Message

LEMMA FitsRepaired ==
    ASSUME NEW h \in Seq(Msg), NEW c, NEW t, NotesFit(h, c, t)
    PROVE  NotesFit(Repair(h), c, t)
<1>1. /\ Repair(h) \in Seq(Msg)
      /\ ToSet(Repair(h)) \subseteq ToSet(h) \cup {Lost(id) : id \in CallIds(h)}
  BY RepairMade, RepairPairs DEF MadeFrom
<1>2. \A m \in ToSet(Repair(h)) : m \in ToSet(h) \/ Silent(m)
  BY <1>1, PlaceholdersSilent
<1> QED
  BY <1>1, <1>2, FitsFewer

LEMMA FitsNormalised ==
    ASSUME NEW h \in Seq(Msg), NEW c, NEW t, NotesFit(h, c, t)
    PROVE  NotesFit(Normalise(h, FlattenResume), c, t)
<1> DEFINE o == Normalise(h, FlattenResume)
<1>0. FlattenResume \in BOOLEAN
  BY ModesAssumption
<1>1. CASE FlattenResume
  <2>1. CallsOf(o) = {}
    BY <1>0, <1>1, Normalised, PlainFacts
  <2>2. Mentions(o) \subseteq Mentions(h) \cup Uses(h) \cup Losses(h)
    BY <1>0, NormaliseSays
  <2>3. ASSUME NEW n \in Nat, <<"known", n>> \in Mentions(o) PROVE FALSE
    <3>1. <<"known", n>> \in Mentions(h)
      BY <2>2, <2>3 DEF Uses, Losses
    <3> QED
      BY <1>1, <3>1 DEF NotesFit, Noting
  <2> HIDE DEF o
  <2>4. NotesFit(o, c, t)
    BY <1>1, <2>1, <2>3 DEF NotesFit, Noting
  <2> QED
    BY <2>4 DEF o
<1>2. CASE ~FlattenResume
  <2>1. o = Repair(MergeUsers(h))
    BY <1>2 DEF Normalise
  <2> DEFINE g == MergeUsers(h)
  <2>2. MergedFrom(g, h)
    BY MergeUsersMerged
  <2> HIDE DEF g
  <2>3. NotesFit(g, c, t)
    <3> DEFINE more == {}
    <3>1. /\ g \in Seq(Msg) /\ CallsOf(g) = CallsOf(h) /\ Others(g) \subseteq Others(h)
          /\ Said(g) \subseteq Said(h) \cup more /\ Mentions(g) \subseteq Mentions(h) \cup more
      BY <2>2 DEF MergedFrom
    <3>2. \A n \in Nat : <<"res", n>> \notin more /\ <<"known", n>> \notin more
      OBVIOUS
    <3> HIDE DEF more
    <3> QED
      BY <3>1, <3>2, FitsMerged
  <2>4. g \in Seq(Msg)
    BY <2>2 DEF MergedFrom
  <2>5. NotesFit(Repair(g), c, t)
    BY <2>3, <2>4, FitsRepaired
  <2> QED
    BY <2>1, <2>5 DEF g
<1> QED
  BY <1>1, <1>2

\* What a resume recovers from a journal and a snapshot that fit.
LEMMA FitsRecovered ==
    ASSUME NEW j \in Journal, snapshot \in Seq(Msg), NEW c \in Nat,
           NotesFit(j.messages, c, <<>>), NotesFit(snapshot, c, <<>>),
           j.finished \subseteq MintedTo(c)
    PROVE  NotesFit(Recovered(j), c, <<>>)
<1> DEFINE r == Replayed(j)
           p == WithNote(r, "pending", j.pending)
           s == Normalise(snapshot, FlattenResume)
           k == KnownCalls(j)
<1>0. /\ FlattenResume \in BOOLEAN /\ j.messages \in Seq(Msg) /\ j.pending \subseteq Call
      /\ k \subseteq Call /\ "pending" \in Kinds /\ "known" \in Kinds
  BY ModesAssumption, JournalType, UnreceivedType DEF Kinds
<1>1. Recovered(j) = IF Replayable(j) THEN WithNote(p, "known", k)
                     ELSE IF s # <<>> THEN s ELSE <<System>>
  BY RecoveredIs
<1>2. r \in Seq(Msg) /\ s \in Seq(Msg)
  BY <1>0, Normalised DEF Replayed
<1>3. NotesFit(s, c, <<>>)
  BY FitsNormalised
<1>4. NotesFit(r, c, <<>>)
  BY <1>0, FitsNormalised DEF Replayed
<1>5. Mentions(r) \subseteq Mentions(j.messages) \cup Uses(j.messages) \cup Losses(j.messages)
  BY <1>0, NormaliseSays DEF Replayed
<1>6. FlattenResume => CallIds(r) = {}
  BY <1>0, Normalised, PlainFacts DEF Replayed
<1>7. k = {d \in Unreceived(j) : d.id \in CallIds(r)}
  BY DEF KnownCalls
<1>8. CallIds(r) = {d.id : d \in CallsOf(r)}
  BY <1>2, CallsType
<1> HIDE DEF r, s, k
<1>9. /\ p \in Seq(Msg) /\ CallsOf(p) = CallsOf(r)
      /\ Mentions(p) = Mentions(r) \cup Note("pending", j.pending)
      /\ \A m \in ToSet(p) \ ToSet(r) : m = User(Note("pending", j.pending))
  BY <1>0, <1>2, NoteKeeps
<1>10. Silent(User(Note("pending", j.pending)))
  BY DEF Silent, User, Message, Note
<1> HIDE DEF p
<1>11. NotesFit(p, c, <<>>)
  BY <1>2, <1>4, <1>9, <1>10, FitsFewer
<1>12. ASSUME k # {}, Replayable(j) PROVE NotesFit(Recovered(j), c, <<>>)
  <2>1. Noting
    <3>1. CallIds(r) # {}
      BY <1>7, <1>12
    <3>2. CallsOf(r) # {}
      BY <1>8, <3>1
    <3> QED
      BY <1>4, <1>6, <3>1, <3>2 DEF NotesFit, Noting
  <2> DEFINE o == WithNote(p, "known", k)
  <2>2. /\ o \in Seq(Msg) /\ CallsOf(o) = CallsOf(p)
        /\ Mentions(o) = Mentions(p) \cup Note("known", k)
        /\ \A m \in ToSet(o) \ ToSet(p) : m = User(Note("known", k))
    BY <1>0, <1>9, NoteKeeps
  <2> HIDE DEF o
  <2>3. Owned(User(Note("known", k)))
    BY DEF Owned, User, Message, Note
  <2>4. \A m \in ToSet(o) : Owned(m)
    BY <1>11, <2>1, <2>2, <2>3 DEF NotesFit
  <2>5. ASSUME NEW d \in k
        PROVE  d.n \in Nat /\ d.n <= c /\ <<"res", d.n>> \notin Mentions(p)
    <3>1. d \in MintedTo(c) /\ d.id \notin AnsweredIds(j.messages) /\ d \in Call
      BY <1>0, <1>7 DEF Unreceived
    <3>2. d.id = d.n /\ d.n <= c /\ d.n \in Nat
      BY <3>1 DEF MintedTo, Call
    <3>3. ASSUME <<"res", d.n>> \in Mentions(p) PROVE FALSE
      <4>1. <<"res", d.n>> \in Mentions(r)
        BY <1>9, <3>3 DEF Note
      <4>2. <<"res", d.n>> \in Mentions(j.messages)
        BY <1>5, <4>1 DEF Uses, Losses
      <4>3. PICK i \in DOMAIN j.messages : <<"res", d.n>> \in j.messages[i].text
        BY <4>2 DEF Mentions
      <4>4. Owned(j.messages[i])
        BY <2>1 DEF NotesFit, ToSet
      <4>5. j.messages[i].role = "tool" /\ j.messages[i].id = d.n
        BY <3>2, <4>3, <4>4 DEF Owned
      <4>6. d.n \in AnsweredIds(j.messages)
        BY <4>5 DEF AnsweredIds
      <4> QED
        BY <3>1, <3>2, <4>6
    <3> QED
      BY <3>2, <3>3
  <2>6. ASSUME NEW n \in Nat, <<"known", n>> \in Mentions(o)
        PROVE  Noting /\ <<"res", n>> \notin Mentions(o) /\ n <= c
    <3>1. <<"res", n>> \in Mentions(o) => <<"res", n>> \in Mentions(p)
      BY <2>2 DEF Note
    <3>2. CASE <<"known", n>> \in Mentions(p)
      BY <1>11, <3>1, <3>2 DEF NotesFit
    <3>3. CASE <<"known", n>> \in Note("known", k)
      <4>1. PICK d \in k : n = d.n
        BY <3>3 DEF Note
      <4> QED
        BY <2>1, <2>5, <3>1, <4>1
    <3> QED
      BY <2>2, <2>6, <3>2, <3>3
  <2>7. CallsOf(o) \subseteq MintedTo(c) /\ (Structured \/ CallsOf(o) = {})
    BY <1>11, <2>2 DEF NotesFit
  <2>8. NotesFit(o, c, <<>>)
    BY <2>4, <2>6, <2>7 DEF NotesFit
  <2> QED
    BY <1>1, <1>12, <2>8 DEF o
<1>13. ASSUME k = {}, Replayable(j) PROVE NotesFit(Recovered(j), c, <<>>)
  <2>1. WithNote(p, "known", k) = p
    BY <1>13 DEF WithNote
  <2> QED
    BY <1>1, <1>11, <1>13, <2>1
<1>14. NotesFit(<<System>>, c, <<>>)
  <2>1. <<System>> \in Seq(Msg) /\ ToSet(<<System>>) = {System} /\ Silent(System)
    BY SystemMessage DEF ToSet, Silent
  <2> QED
    BY <1>2, <1>3, <2>1, FitsFewer
<1> QED
  BY <1>1, <1>3, <1>12, <1>13, <1>14

\* What the messages of a session do to a history that fits.
LEMMA FitsSaying ==
    ASSUME TypeInv, NEW h \in Seq(Msg), NEW c, NEW t, NotesFit(h, c, t)
    PROVE  /\ NotesFit(Append(h, Task), c, t) /\ NotesFit(Append(h, Reply), c, t)
           /\ NotesFit(Append(h, Objection), c, t)
           /\ ~Structured => NotesFit(Append(h, Results), c, t)
<1>1. ASSUME NEW m \in Msg, Silent(m) PROVE NotesFit(Append(h, m), c, t)
  <2>1. Append(h, m) \in Seq(Msg) /\ ToSet(Append(h, m)) = ToSet(h) \cup {m}
    BY AppendContents
  <2> QED
    BY <1>1, <2>1, FitsFewer
<1>2. /\ Task \in Msg /\ Reply \in Msg /\ Objection \in Msg
      /\ Task.role = "user" /\ Objection.role = "user" /\ Reply.calls = <<>>
      /\ Task.text = {<<"task", turns>>} /\ Reply.text = {<<"reply", turns>>}
      /\ Objection.text = {<<"stop", turns>>}
  BY SessionMessages
<1>3. Task.calls = <<>> /\ Objection.calls = <<>>
  BY <1>2, MsgFacts
<1>4. Silent(Task) /\ Silent(Reply) /\ Silent(Objection)
  BY <1>2, <1>3 DEF Silent
<1>5. ASSUME ~Structured PROVE NotesFit(Append(h, Results), c, t)
  <2>1. Results \in Msg /\ Results.role = "user"
        /\ Results.text = {<<"res", results[i].n>> : i \in DOMAIN results}
    BY SessionMessages
  <2>2. Results.calls = <<>> /\ ToSet(Results.calls) = {}
    BY <2>1, MsgFacts
  <2>3. \A n \in Nat : <<"known", n>> \notin Results.text
    BY <2>1
  <2> QED
    BY <1>5, <2>1, <2>2, <2>3, FitsAppend DEF Noting
<1> QED
  BY <1>1, <1>2, <1>4, <1>5

LEMMA TailFits ==
    ASSUME NEW h, NEW c \in Nat, NEW t \in Seq(Call), NotesFit(h, c, t),
           NEW u \in {t, Tail(t), <<>>}
    PROVE  NotesFit(h, c, u)
<1>1. \A i \in DOMAIN u : \E k \in DOMAIN t : t[k].n = u[i].n
  <2>1. CASE u = t \/ u = <<>>
    BY <2>1
  <2>2. CASE u = Tail(t) /\ t # <<>>
    <3>1. /\ DOMAIN Tail(t) = 1 .. (Len(t) - 1) /\ Len(t) \in Nat /\ DOMAIN t = 1 .. Len(t)
          /\ \A i \in 1 .. (Len(t) - 1) : Tail(t)[i] = t[i + 1]
      BY <2>2
    <3>2. \A i \in 1 .. (Len(t) - 1) : i + 1 \in 1 .. Len(t)
      BY <3>1
    <3> QED
      BY <2>2, <3>1, <3>2
  <2>3. CASE u = Tail(t) /\ t = <<>>
    <3>1. u = <<>>
      BY <2>3
    <3> QED
      BY <3>1
  <2> QED
    BY <2>1, <2>2, <2>3
<1>2. \A i \in DOMAIN u : u[i].n > c \/ \E k \in DOMAIN t : t[k].n = u[i].n
  BY <1>1
<1>3. c <= c
  OBVIOUS
<1> QED
  BY <1>2, <1>3, FitsLater

LEMMA FitsResult ==
    ASSUME TypeInv, CallInv, todo # <<>>, Structured, NEW h \in Seq(Msg),
           NotesFit(h, calls, todo)
    PROVE  NotesFit(Append(h, Result), calls, Tail(todo))
<1>1. /\ Result \in Msg /\ Result.role = "tool" /\ Result.id = Head(todo).id
      /\ Result.text = {<<"res", Head(todo).n>>} /\ Result.calls = <<>>
  BY SessionMessages
<1>2. Head(todo) = todo[1] /\ 1 \in DOMAIN todo /\ todo \in Seq(Call)
  BY DEF TypeInv, ControlInv
<1>3. Head(todo).id = Head(todo).n
  <2>1. todo \in Seq(Minted)
    BY DEF CallInv, CallsInv
  <2>2. Head(todo) \in Minted
    BY <2>1
  <2> QED
    BY <2>2 DEF Minted
<1>4. Owned(Result) /\ \A n \in Nat : <<"known", n>> \notin Result.text
  BY <1>1, <1>3 DEF Owned
<1>5. \A n \in Nat : <<"res", n>> \in Result.text => <<"known", n>> \notin Mentions(h)
  BY <1>1, <1>2 DEF NotesFit
<1>6. ToSet(Result.calls) = {}
  BY <1>1, NoCalls
<1>7. NotesFit(Append(h, Result), calls, todo)
  BY <1>1, <1>4, <1>5, <1>6, FitsAppend
<1>8. calls \in Nat
  BY DEF TypeInv, ControlInv
<1> QED
  BY <1>2, <1>7, <1>8, TailFits

\* The calls of a new answer are numbered behind all that were made.
LEMMA FitsAsking ==
    ASSUME TypeInv, FreshIds, NEW k \in Nat \ {0}, NEW c \in NewCalls(k),
           NEW h \in Seq(Msg), NotesFit(h, calls, todo)
    PROVE  /\ NotesFit(h, calls + k, c)
           /\ NotesFit(Append(h, Asking(c)), calls + k, c)
<1>0. calls \in Nat
  BY DEF TypeInv, ControlInv
<1>1. /\ c \in Seq(Call) /\ DOMAIN c = 1 .. k
      /\ \A i \in 1 .. k : c[i].n = calls + i /\ c[i].id = calls + i /\ c[i] \in Call
  <2>1. c \in Seq(Call) /\ Len(c) = k
    BY <1>0, NewCallsFacts
  <2>2. \A i \in 1 .. k : c[i].n = calls + i /\ c[i].id = calls + i
    BY <1>0, NewCallsFacts DEF FreshIds
  <2> QED
    BY <2>1, <2>2
<1>2. NotesFit(h, calls + k, c)
  <2>1. \A i \in DOMAIN c : c[i].n > calls
    BY <1>0, <1>1
  <2>2. calls + k \in Nat /\ calls <= calls + k
    BY <1>0
  <2> QED
    BY <1>0, <2>1, <2>2, FitsLater
<1>3. /\ Asking(c) \in Msg
      /\ Structured => Asking(c).calls = c /\ Asking(c).text = {}
      /\ ~Structured => Asking(c).calls = <<>> /\ Asking(c).text = {<<"inline", calls + 1>>}
  BY <1>1, SessionMessages
<1>4. \A n \in Nat : <<"known", n>> \notin Asking(c).text /\ <<"res", n>> \notin Asking(c).text
  BY <1>3
<1>5. ToSet(c) \subseteq MintedTo(calls + k)
  <2>1. \A i \in 1 .. k : c[i] \in MintedTo(calls + k)
    BY <1>0, <1>1 DEF MintedTo
  <2> QED
    BY <1>1, <2>1 DEF ToSet
<1>6. ToSet(Asking(c).calls) \subseteq MintedTo(calls + k) /\ (Structured \/ Asking(c).calls = <<>>)
  <2>1. CASE Structured
    BY <1>3, <1>5, <2>1
  <2>2. CASE ~Structured
    BY <1>3, <2>2, NoCalls
  <2> QED
    BY <2>1, <2>2
<1>7. Owned(Asking(c))
  BY <1>4 DEF Owned
<1>8. NotesFit(Append(h, Asking(c)), calls + k, c)
  BY <1>2, <1>3, <1>4, <1>6, <1>7, FitsAppend
<1> QED
  BY <1>2, <1>8

\* The steps that make no calls, for what they leave to be dispatched.
LEMMA NotesElsewhere ==
    ASSUME TypeInv, CallInv, NotesInv, Next, ~AnswerCalls
    PROVE  NotesInv'
<1>0. /\ messages \in Seq(Msg) /\ snapshot \in Seq(Msg) /\ jr \in Journal /\ jr.messages \in Seq(Msg)
      /\ calls \in Nat /\ todo \in Seq(Call) /\ calls' = calls /\ todo' \in {todo, Tail(todo), <<>>}
  BY JournalType, OtherSteps DEF TypeInv, HistoriesInv, ControlInv
<1> DEFINE Fit(h) == NotesFit(h, calls, todo')
<1>1. Fit(messages) /\ Fit(snapshot) /\ Fit(jr.messages)
  BY <1>0, TailFits DEF NotesInv
<1>2. Fit(<<>>)
  <2>1. <<>> \in Seq(Msg) /\ ToSet(<<>>) = {}
    BY EmptyContents
  <2> QED
    BY <1>0, <1>1, <2>1, FitsFewer
<1>3. \A h \in Seq(Msg) : Fit(h) => Fit(Repair(h))
  BY FitsRepaired
<1>4. ASSUME NEW h \in Compactions(messages, Keep) PROVE Fit(h)
  <2>1. h \in Seq(Msg) /\ ToSet(h) \subseteq ToSet(messages) \cup {Summary}
    BY <1>0, CompactedMessages
  <2>2. Silent(Summary)
    BY SummaryMessage DEF Silent
  <2> QED
    BY <1>0, <1>1, <2>1, <2>2, FitsFewer
<1>5. Fit(Kept(messages))
  <2>1. Kept(messages) \in Seq(Msg) /\ ToSet(Kept(messages)) \subseteq ToSet(messages)
    BY <1>0, KeptMessages
  <2>2. \A m \in ToSet(Kept(messages)) : m \in ToSet(messages) \/ Silent(m)
    BY <2>1
  <2> QED
    BY <1>0, <1>1, <2>1, <2>2, FitsFewer
<1>6. \A h \in Seq(Msg) : Fit(h) =>
          /\ Fit(Append(h, Task)) /\ Fit(Append(h, Reply)) /\ Fit(Append(h, Objection))
          /\ ~Structured => Fit(Append(h, Results))
  BY FitsSaying
<1>7. ASSUME Joins PROVE Fit(messages')
  <2>0. Task \in Msg /\ Task.role = "user" /\ Task.text = {<<"task", turns>>}
    BY SessionMessages
  <2>1. messages' = MergeOne("user", messages, Task) /\ messages' \in Seq(Msg)
    BY <1>7 DEF Joins
  <2>2. Others(messages') \subseteq Others(messages)
    BY <1>0, <2>0, <2>1, MergeUserOthers
  <2>3. Said(messages') = Said(messages) \cup Task.text
    BY <1>0, <2>0, <2>1, MergeUserSaid
  <2>4. Task.calls = <<>>
    BY <2>0, MsgFacts
  <2>5. Added(messages, Task, messages')
    BY <1>0, <2>0, <2>1, <2>4, MergeOneAdds
  <2>6. CallsOf(messages') = CallsOf(messages) /\ Mentions(messages') = Mentions(messages) \cup Task.text
    BY <2>4, <2>5, NoCalls DEF Added
  <2> HIDE DEF Fit
  <2>7. \A n \in Nat : <<"res", n>> \notin Task.text /\ <<"known", n>> \notin Task.text
    BY <2>0
  <2> DEFINE q == messages'
             x == Task.text
  <2>8. /\ q \in Seq(Msg) /\ Others(q) \subseteq Others(messages) /\ Said(q) \subseteq Said(messages) \cup x
        /\ CallsOf(q) = CallsOf(messages) /\ Mentions(q) \subseteq Mentions(messages) \cup x
        /\ \A n \in Nat : <<"res", n>> \notin x /\ <<"known", n>> \notin x
    BY <2>1, <2>2, <2>3, <2>6, <2>7
  <2>9. NotesFit(messages, calls, todo')
    BY <1>1 DEF Fit
  <2> HIDE DEF q, x
  <2>10. NotesFit(q, calls, todo')
    BY <1>0, <2>8, <2>9, FitsMerged
  <2> QED
    BY <2>10 DEF Fit, q
<1>8. NotesInv' <=> Fit(messages') /\ Fit(snapshot') /\ Fit(jr'.messages)
  BY <1>0 DEF NotesInv
<1>9. ASSUME Quiet PROVE NotesInv'
  BY <1>1, <1>8, <1>9 DEF Quiet
<1>10. ASSUME Mends PROVE NotesInv'
  BY <1>0, <1>1, <1>3, <1>8, <1>10 DEF Mends
<1>11. ASSUME NEW m, Says(m), Fit(Append(messages, m)), Fit(Append(jr.messages, m)) PROVE NotesInv'
  BY <1>1, <1>8, <1>11 DEF Says
<1>12. ASSUME Joins PROVE NotesInv'
  BY <1>1, <1>7, <1>8, <1>12 DEF Joins
<1>13. ASSUME NEW h, Becomes(h), Fit(h) PROVE NotesInv'
  BY <1>1, <1>8, <1>13 DEF Becomes
<1>14. ASSUME Ends PROVE NotesInv'
  BY <1>1, <1>2, <1>4, <1>8, <1>14 DEF Ends
<1>15. CASE AppendResult
  <2>1. Says(Result)
    BY <1>15, SayingSteps
  <2>2. todo # <<>> /\ Structured /\ todo' = Tail(todo)
    BY <1>15 DEF AppendResult, Goto, TypeInv, ControlInv
  <2>3. Fit(Append(messages, Result)) /\ Fit(Append(jr.messages, Result))
    BY <1>0, <2>2, FitsResult DEF NotesInv
  <2> QED
    BY <1>11, <2>1, <2>3
<1>16. CASE Start
  <2>1. PICK j : Wakes(j)
    BY <1>16, WakingStep
  <2>2. todo' = <<>>
    BY <1>16 DEF Start
  <2>3. j \in Journal /\ jr' = j /\ messages' = Recovered(j) /\ snapshot' = snapshot
        /\ j.finished = jr.finished
        /\ j.messages \in {jr.messages, Append(jr.messages, System)}
    BY <2>1 DEF Wakes
  <2>4. Fit(j.messages)
    <3>1. Append(jr.messages, System) \in Seq(Msg) /\ Silent(System)
          /\ ToSet(Append(jr.messages, System)) = ToSet(jr.messages) \cup {System}
      BY <1>0, SystemMessage, AppendContents DEF Silent
    <3>2. Fit(Append(jr.messages, System))
      BY <1>0, <1>1, <3>1, FitsFewer, ZenonT(60)
    <3> QED
      BY <1>1, <2>3, <3>2
  <2>5. j.finished \subseteq MintedTo(calls)
    BY <2>3 DEF CallInv, CallsInv, Minted, MintedTo
  <2>6. Fit(Recovered(j))
    BY <1>0, <1>1, <2>2, <2>3, <2>4, <2>5, FitsRecovered
  <2> QED
    BY <1>1, <1>8, <2>3, <2>4, <2>6
<1> HIDE DEF Fit
<1>17. CASE BeginTurn \/ PromptBlocked
  BY <1>10, <1>17, MendingSteps
<1>18. CASE Submit \/ AnswerFinal \/ StopBlocked \/ StepDone
  <2>1. Joins \/ Quiet \/ Says(Task) \/ Says(Reply) \/ Says(Objection) \/ (~Structured /\ Says(Results))
    BY <1>18, SayingSteps, JoiningStep, QuietSteps
  <2> QED
    BY <1>0, <1>1, <1>6, <1>9, <1>11, <1>12, <2>1
<1>19. CASE CompactAndRetry \/ CompactNow \/ Clear
  BY <1>4, <1>5, <1>13, <1>19, ReplacingSteps
<1>20. CASE Exit \/ Crash \/ CrashSaving
  BY <1>14, <1>20, EndingSteps
<1>21. CASE \/ Resubmit \/ InterruptedEarly \/ ModelAnswers \/ DoubleBudget \/ TurnAborts
            \/ StartTool \/ RefuseTool \/ RunTool \/ EndTool \/ ToolRaises \/ CollectResult
            \/ ReplyStands \/ EndTurn \/ SaveSnapshot
  BY <1>9, <1>21, QuietSteps
<1> QED
  BY <1>15, <1>16, <1>17, <1>18, <1>19, <1>20, <1>21 DEF Next, Turn

LEMMA NotesStep ==
    ASSUME FreshIds, TypeInv, CallInv, NotesInv, Next
    PROVE  NotesInv'
<1>1. CASE AnswerCalls
  <2>0. messages \in Seq(Msg) /\ snapshot \in Seq(Msg) /\ jr.messages \in Seq(Msg)
    BY JournalType DEF TypeInv, HistoriesInv
  <2>1. PICK k \in Nat \ {0} : \E c \in NewCalls(k) :
            calls' = calls + k /\ todo' = c /\ c \in Seq(Call) /\ Says(Asking(c))
    BY <1>1, SayingSteps
  <2>2. PICK c \in NewCalls(k) : calls' = calls + k /\ todo' = c /\ Says(Asking(c))
    BY <2>1
  <2>3. /\ NotesFit(Append(messages, Asking(c)), calls + k, c)
        /\ NotesFit(Append(jr.messages, Asking(c)), calls + k, c)
        /\ NotesFit(snapshot, calls + k, c)
    BY <2>0, FitsAsking DEF NotesInv
  <2> QED
    BY <2>2, <2>3 DEF NotesInv, Says
<1> QED
  BY <1>1, NotesElsewhere

\* A result noted as known is the result of the one call of the resumed history
\* with that id, and that history does not have it already - whichever of the
\* journal and the snapshot it is recovered from, and however often the session
\* died and was resumed before.
THEOREM NotesAreTruthful ==
    ASSUME FreshIds
    PROVE  Spec => []NotesTruthful
<1> DEFINE Inv == TypeInv /\ CallInv /\ NotesInv
<1>1. Init => Inv
  <2> SUFFICES ASSUME Init PROVE Inv
    OBVIOUS
  <2>1. jr.messages = <<>> /\ messages = <<>> /\ snapshot = <<>>
    BY DEF Init, EmptyJournal
  <2>2. NotesFit(<<>>, calls, todo)
    BY EmptyContents DEF NotesFit
  <2> QED
    BY <2>1, <2>2, TypeInit, CallInit DEF NotesInv
<1>2. Inv /\ [Next]_vars => Inv'
  <2> SUFFICES ASSUME Inv, [Next]_vars PROVE Inv'
    OBVIOUS
  <2>1. TypeInv' /\ CallInv'
    BY FreshIds, TypeStep, CallStep DEF FreshIds
  <2>2. CASE Next
    BY <2>1, <2>2, FreshIds, NotesStep
  <2>3. CASE UNCHANGED vars
    BY <2>1, <2>3 DEF vars, disk, memory, bookkeeping, ghosts, NotesInv
  <2> QED
    BY <2>2, <2>3
<1>3. Inv => NotesTruthful
  <2> SUFFICES ASSUME Inv PROVE NotesTruthful
    OBVIOUS
  <2>1. /\ jr \in Journal /\ snapshot \in Seq(Msg) /\ messages \in Seq(Msg)
        /\ calls \in Nat /\ todo \in Seq(Call) /\ jr.finished \subseteq MintedTo(calls)
    BY DEF TypeInv, HistoriesInv, ControlInv, CallInv, CallsInv, Minted, MintedTo
  <2>2. NotesFit(jr.messages, calls, <<>>) /\ NotesFit(snapshot, calls, <<>>)
    BY <2>1, TailFits DEF NotesInv
  <2> DEFINE h == Recovered(jr)
  <2>3. NotesFit(h, calls, <<>>)
    BY <2>1, <2>2, FitsRecovered
  <2> HIDE DEF h
  <2>4. ASSUME NEW c \in Unreceived(jr), <<"known", c.n>> \in Mentions(h)
        PROVE  /\ \A d \in CallsOf(h) : d.id = c.id => d = c
               /\ <<"res", c.n>> \notin Mentions(h)
    <3>1. c \in MintedTo(calls)
      BY <2>1 DEF Unreceived
    <3>2. c \in Call /\ c.id = c.n /\ c.n \in Nat
      BY <3>1 DEF MintedTo, Call
    <3>3. ASSUME NEW d \in CallsOf(h), d.id = c.id PROVE d = c
      <4>1. d \in Call /\ d.id = d.n
        BY <2>3 DEF NotesFit, MintedTo
      <4>2. c = [id |-> c.id, n |-> c.n] /\ d = [id |-> d.id, n |-> d.n]
        BY <3>2, <4>1 DEF Call
      <4> QED
        BY <3>2, <3>3, <4>1, <4>2
    <3>4. <<"res", c.n>> \notin Mentions(h)
      BY <2>3, <2>4, <3>2 DEF NotesFit
    <3> QED
      BY <3>3, <3>4
  <2> QED
    BY <2>4 DEF NotesTruthful, h
<1> QED
  BY <1>1, <1>2, <1>3, PTL DEF Spec
-----------------------------------------------------------------------------
(* What a resumed history says of the tools that ran                       *)

\* Every tool message of these histories answers a call that was open there,
\* and while an answer is dispatched exactly its calls that are left are open.
FeedsAll == FeedsSome(messages) /\ FeedsSome(snapshot) /\ FeedsSome(jr.messages)

FeedsInv ==
    ~FlattenResume =>
        /\ FeedsAll
        /\ Structured /\ pc \in Dispatching =>
              Awaits(messages, ToSet(Due(todo))) /\ Awaits(jr.messages, ToSet(Due(todo)))

\* No id names two of the calls that are to be dispatched.
DueInv == pc \in Dispatching => \A a, b \in 1 .. Len(todo) : todo[a].id = todo[b].id => a = b

LEMMA CallsAreDue ==
    ASSUME TypeInv, CallInv
    PROVE  DueInv
<1> SUFFICES ASSUME pc \in Dispatching, NEW a \in 1 .. Len(todo), NEW b \in 1 .. Len(todo),
                    todo[a].id = todo[b].id
             PROVE  a = b
  BY DEF DueInv
<1>1. todo[a] \in Minted /\ todo[b] \in Minted
  BY DEF CallInv, CallsInv
<1>2. todo[a] = todo[b]
  <2>1. /\ todo[a] = [id |-> todo[a].id, n |-> todo[a].n]
        /\ todo[b] = [id |-> todo[b].id, n |-> todo[b].n]
        /\ todo[a].id = todo[a].n /\ todo[b].id = todo[b].n
    BY <1>1 DEF Minted, Call
  <2> QED
    BY <2>1
<1>3. \A i, j \in 1 .. Len(todo) : todo[i] = todo[j] => i = j
  BY DEF CallInv, DispatchInv, Dispatching
<1> QED
  BY <1>2, <1>3

LEMMA FeedsPaired ==
    ASSUME NEW h \in Seq(Msg), Paired(h), UniqueIds(h)
    PROVE  FeedsSome(h)
<1>1. Cut(h)
  BY PairedCut
<1> QED
  BY <1>1, CutFeeds DEF FeedsSome

LEMMA FeedsRepaired ==
    ASSUME NEW h \in Seq(Msg), UniqueIds(h)
    PROVE  FeedsSome(Repair(h))
<1>1. Repair(h) \in Seq(Msg) /\ Paired(Repair(h)) /\ UniqueIds(Repair(h))
  BY RepairPairs, RepairMade DEF MadeFrom
<1> DEFINE q == Repair(h)
<1>2. q \in Seq(Msg) /\ Paired(q) /\ UniqueIds(q)
  BY <1>1
<1> HIDE DEF q
<1>3. FeedsSome(q)
  BY <1>2, FeedsPaired
<1> QED
  BY <1>3 DEF q

LEMMA FeedsNormalised ==
    ASSUME NEW h \in Seq(Msg), UniqueIds(h), ~FlattenResume
    PROVE  FeedsSome(Normalise(h, FlattenResume))
<1> DEFINE q == Normalise(h, FlattenResume)
<1>1. q \in Seq(Msg) /\ Paired(q) /\ UniqueIds(q)
  BY ModesAssumption, Normalised
<1> HIDE DEF q
<1>2. FeedsSome(q)
  BY <1>1, FeedsPaired
<1> QED
  BY <1>2 DEF q

\* A message that is no result leaves its own calls open.
LEMMA FeedsAppend ==
    ASSUME NEW h \in Seq(Msg), FeedsSome(h), NEW m \in Msg, m.role # "tool"
    PROVE  Awaits(Append(h, m), Ids(m)) /\ FeedsSome(Append(h, m))
<1>1. PICK ids : Awaits(h, ids)
  BY FeedsAwaits
<1>2. Awaits(Append(h, m), Ids(m))
  BY <1>1, AwaitsAppend
<1>3. \A o : (\E x : Awaits(o, x)) => FeedsSome(o)
  BY FeedsAwaits
<1> QED
  BY <1>2, <1>3

LEMMA FeedsNone == FeedsSome(<<>>) /\ FeedsSome(<<System>>)
<1>1. \A o : (\E x : Awaits(o, x)) => FeedsSome(o)
  BY FeedsAwaits
<1>2. FeedsSome(<<>>)
  BY <1>1, AwaitsNone
<1>3. <<>> \in Seq(Msg) /\ System \in Msg /\ System.role # "tool"
  BY SystemMessage
<1>4. Append(<<>>, System) = <<System>>
  OBVIOUS
<1>5. FeedsSome(Append(<<>>, System))
  BY <1>2, <1>3, FeedsAppend
<1> QED
  BY <1>2, <1>4, <1>5

LEMMA FeedsRecovered ==
    ASSUME NEW j \in Journal, snapshot \in Seq(Msg), ~FlattenResume,
           UniqueIds(j.messages), UniqueIds(snapshot)
    PROVE  FeedsSome(Recovered(j))
<1> DEFINE r == Replayed(j)
           p == WithNote(r, "pending", j.pending)
           s == Normalise(snapshot, FlattenResume)
           k == KnownCalls(j)
<1>0. /\ FlattenResume \in BOOLEAN /\ j.messages \in Seq(Msg) /\ j.pending \subseteq Call
      /\ k \subseteq Call /\ "pending" \in Kinds /\ "known" \in Kinds
  BY ModesAssumption, JournalType, UnreceivedType DEF Kinds
<1>1. Recovered(j) = IF Replayable(j) THEN WithNote(p, "known", k)
                     ELSE IF s # <<>> THEN s ELSE <<System>>
  BY RecoveredIs
<1>2. r \in Seq(Msg) /\ FeedsSome(r) /\ FeedsSome(s)
  BY <1>0, Normalised, FeedsNormalised DEF Replayed
<1> HIDE DEF r, s, k
<1>3. p \in Seq(Msg) /\ FeedsSome(p)
  BY <1>0, <1>2, NoteKeeps
<1> HIDE DEF p
<1> DEFINE o == WithNote(p, "known", k)
<1>4. FeedsSome(o)
  BY <1>0, <1>3, NoteKeeps
<1> HIDE DEF o
<1>5. Recovered(j) \in {o, s, <<System>>}
  BY <1>1 DEF o
<1> QED
  BY <1>2, <1>4, <1>5, FeedsNone

\* The result of the call at the head is awaited, and those of the others stay so.
LEMMA FeedsResult ==
    ASSUME TypeInv, DueInv, pc = "ended", NEW h \in Seq(Msg), Awaits(h, ToSet(Due(todo)))
    PROVE  Awaits(Append(h, Result), ToSet(Due(Tail(todo))))
<1>1. todo # <<>> /\ todo \in Seq(Call)
  BY DEF TypeInv, ControlInv, Working
<1>2. Result \in Msg /\ Result.role = "tool" /\ Result.id = Head(todo).id
  BY <1>1, SessionMessages
<1>3. ToSet(Due(Tail(todo))) \cup {Head(todo).id} = ToSet(Due(todo))
  BY <1>1, DueTail
<1>4. Head(todo).id \notin ToSet(Due(Tail(todo)))
  <2>1. /\ Tail(todo) \in Seq(Call) /\ Len(Tail(todo)) = Len(todo) - 1 /\ Len(todo) \in Nat
        /\ Head(todo) = todo[1] /\ Len(todo) >= 1
        /\ \A i \in 1 .. (Len(todo) - 1) : Tail(todo)[i] = todo[i + 1]
    BY <1>1
  <2>2. ToSet(Due(Tail(todo))) = {Tail(todo)[i].id : i \in 1 .. Len(Tail(todo))}
    BY <2>1, DueFacts
  <2>3. ASSUME NEW i \in 1 .. (Len(todo) - 1), todo[i + 1].id = todo[1].id PROVE FALSE
    <3>1. i + 1 \in 1 .. Len(todo) /\ 1 \in 1 .. Len(todo) /\ i + 1 # 1
      BY <2>1
    <3>2. todo[i + 1].id = todo[1].id => i + 1 = 1
      BY <3>1 DEF DueInv, Dispatching
    <3> QED
      BY <2>3, <3>1, <3>2
  <2> QED
    BY <2>1, <2>2, <2>3
<1>5. ToSet(Due(todo)) \ {Result.id} = ToSet(Due(Tail(todo))) /\ Result.id \in ToSet(Due(todo))
  BY <1>2, <1>3, <1>4
<1>6. Awaits(Append(h, Result), ToSet(Due(todo)) \ {Result.id})
  <2>1. \A ids : Awaits(h, ids) /\ Result.id \in ids => Awaits(Append(h, Result), ids \ {Result.id})
    BY <1>2, AwaitsAppend
  <2> QED
    BY <1>5, <2>1
<1> QED
  BY <1>5, <1>6

LEMMA FeedsKept ==
    ASSUME NEW h \in Seq(Msg), FeedsSome(h)
    PROVE  FeedsSome(Kept(h)) /\ Tools(Kept(h)) = {}
<1>0. Kept(h) \in Seq(Msg) /\ ToSet(Kept(h)) \subseteq ToSet(h) /\ \A m \in ToSet(h) : m \in Msg
  <2>1. \A m \in ToSet(h) : m \in Msg
    BY DEF ToSet
  <2> QED
    BY <2>1, KeptMessages
<1>1. CASE \A m \in ToSet(Kept(h)) : m.role = "system"
  <2>1. Plain(Kept(h))
    BY <1>0, <1>1, MsgFacts DEF Plain
  <2> DEFINE q == Kept(h)
  <2>2. q \in Seq(Msg) /\ Plain(q)
    BY <1>0, <2>1
  <2> HIDE DEF q
  <2>3. FeedsSome(q)
    BY <2>2, PlainFacts, FeedsPaired
  <2> QED
    BY <1>1, <2>3 DEF Tools, q
<1>2. CASE h # <<>> /\ Kept(h) = <<h[1]>> /\ h[1] \in Msg
  <2>1. PICK w : Feeds(h, w)
    BY DEF FeedsSome
  <2>2. 1 \in 1 .. Len(h)
    BY <1>2
  <2>3. h[1].role # "tool"
    BY <2>1, <2>2 DEF Feeds
  <2> DEFINE m == h[1]
  <2>4. m \in Msg /\ m.role # "tool" /\ <<>> \in Seq(Msg) /\ Kept(h) = <<m>>
    BY <1>2, <2>3
  <2> HIDE DEF m
  <2>5. FeedsSome(Append(<<>>, m)) /\ Append(<<>>, m) = <<m>>
    <3>1. FeedsSome(Append(<<>>, m))
      BY <2>4, FeedsNone, FeedsAppend
    <3>2. Append(<<>>, m) = <<m>>
      OBVIOUS
    <3> QED
      BY <3>1, <3>2
  <2>6. Tools(Kept(h)) = {}
    BY <2>4 DEF Tools, ToSet
  <2> QED
    BY <2>4, <2>5, <2>6
<1> QED
  BY <1>1, <1>2, KeptMessages

LEMMA FeedsMerged ==
    ASSUME TypeInv, Joins, FeedsSome(messages)
    PROVE  FeedsSome(messages')
<1> DEFINE q == messages'
<1>1. messages \in Seq(Msg) /\ Alike(messages, q)
  BY DEF TypeInv, HistoriesInv, Joins, Grown
<1> HIDE DEF q
<1>2. FeedsSome(q)
  BY <1>1, FeedsAwaits, AwaitsAlike
<1> QED
  BY <1>2 DEF q

LEMMA FeedsStep ==
    ASSUME TypeInv, DueInv, IdsInv, FeedsInv, Next, ~FlattenResume
    PROVE  FeedsAll'
<1>0. /\ messages \in Seq(Msg) /\ snapshot \in Seq(Msg) /\ jr \in Journal /\ jr.messages \in Seq(Msg)
      /\ UniqueIds(messages) /\ UniqueIds(snapshot) /\ UniqueIds(jr.messages)
  BY JournalType DEF TypeInv, HistoriesInv, IdsInv
<1>1. FeedsSome(messages) /\ FeedsSome(snapshot) /\ FeedsSome(jr.messages)
  BY DEF FeedsInv, FeedsAll
<1> USE DEF FeedsAll
<1>2. ASSUME Quiet PROVE FeedsAll'
  BY <1>1, <1>2 DEF Quiet
<1>3. ASSUME Mends PROVE FeedsAll'
  <2>1. FeedsSome(Repair(messages))
    BY <1>0, FeedsRepaired
  <2> QED
    BY <1>1, <1>3, <2>1 DEF Mends
<1>4. ASSUME NEW m, Says(m), m.role # "tool" PROVE FeedsAll'
  <2>1. m \in Msg
    BY <1>4 DEF Says
  <2>2. FeedsSome(Append(messages, m)) /\ FeedsSome(Append(jr.messages, m))
    BY <1>0, <1>1, <1>4, <2>1, FeedsAppend
  <2> QED
    BY <1>1, <1>4, <2>2 DEF Says
<1>5. ASSUME Joins PROVE FeedsAll'
  BY <1>1, <1>5, FeedsMerged DEF Joins
<1>6. ASSUME NEW h, Becomes(h), FeedsSome(h) PROVE FeedsAll'
  BY <1>1, <1>6 DEF Becomes
<1>7. ASSUME NEW h \in Compactions(messages, Keep) PROVE FeedsSome(h)
  BY <1>0, <1>1, CompactedMessages
<1>8. FeedsSome(Kept(messages))
  BY <1>0, <1>1, FeedsKept
<1>9. ASSUME Ends PROVE FeedsAll'
  BY <1>1, <1>7, <1>9, FeedsNone DEF Ends
<1>10. CASE Start
  <2>1. PICK j : Wakes(j)
    BY <1>10, WakingStep
  <2>2. /\ j \in Journal /\ jr' = j /\ messages' = Recovered(j) /\ snapshot' = snapshot
        /\ j.messages \in {jr.messages, Append(jr.messages, System)}
    BY <2>1 DEF Wakes
  <2>3. FeedsSome(j.messages) /\ UniqueIds(j.messages)
    <3>1. FeedsSome(Append(jr.messages, System)) /\ UniqueIds(Append(jr.messages, System))
      BY <1>0, <1>1, SystemMessage, FeedsAppend, AppendAnswer
    <3> QED
      BY <1>0, <1>1, <2>2, <3>1
  <2>4. FeedsSome(Recovered(j))
    BY <1>0, <2>2, <2>3, FeedsRecovered
  <2> QED
    BY <1>1, <2>2, <2>3, <2>4
<1>11. CASE AppendResult
  <2>1. pc = "ended" /\ Says(Result) /\ Structured
    BY <1>11, SayingSteps DEF AppendResult, Goto
  <2>2. Awaits(messages, ToSet(Due(todo))) /\ Awaits(jr.messages, ToSet(Due(todo)))
    BY <2>1 DEF FeedsInv, Dispatching
  <2>3. \E x : Awaits(Append(messages, Result), x)
    BY <1>0, <2>1, <2>2, FeedsResult
  <2>4. \E x : Awaits(Append(jr.messages, Result), x)
    BY <1>0, <2>1, <2>2, FeedsResult
  <2>5. \A o : (\E x : Awaits(o, x)) => FeedsSome(o)
    BY FeedsAwaits
  <2> QED
    BY <1>1, <2>1, <2>3, <2>4, <2>5 DEF Says
<1>12. CASE AnswerCalls
  <2>1. PICK c : c \in Seq(Call) /\ Says(Asking(c))
    BY <1>12, SayingSteps
  <2>2. Asking(c).role # "tool"
    <3>1. Asking(c).role = "assistant"
      BY <2>1, SessionMessages
    <3> QED
      BY <3>1
  <2> QED
    BY <1>4, <2>1, <2>2
<1>13. CASE Submit \/ AnswerFinal \/ StopBlocked \/ StepDone
  <2>1. Joins \/ Quiet \/ Says(Task) \/ Says(Reply) \/ Says(Objection) \/ Says(Results)
    BY <1>13, SayingSteps, JoiningStep, QuietSteps
  <2>2. /\ Task.role # "tool" /\ Reply.role # "tool" /\ Objection.role # "tool"
        /\ Results.role # "tool"
    <3>1. /\ Task.role = "user" /\ Reply.role = "assistant" /\ Objection.role = "user"
          /\ Results.role = "user"
      BY SessionMessages
    <3> QED
      BY <3>1
  <2> HIDE DEF FeedsAll
  <2> QED
    BY <1>2, <1>4, <1>5, <2>1, <2>2
<1> HIDE DEF FeedsAll
<1>14. CASE BeginTurn \/ PromptBlocked
  BY <1>3, <1>14, MendingSteps
<1>15. CASE CompactAndRetry \/ CompactNow \/ Clear
  BY <1>6, <1>7, <1>8, <1>15, ReplacingSteps
<1>16. CASE Exit \/ Crash \/ CrashSaving
  BY <1>9, <1>16, EndingSteps
<1>17. CASE \/ Resubmit \/ InterruptedEarly \/ ModelAnswers \/ DoubleBudget \/ TurnAborts
            \/ StartTool \/ RefuseTool \/ RunTool \/ EndTool \/ ToolRaises \/ CollectResult
            \/ ReplyStands \/ EndTurn \/ SaveSnapshot
  BY <1>2, <1>17, QuietSteps
<1> QED
  BY <1>10, <1>11, <1>12, <1>13, <1>14, <1>15, <1>16, <1>17 DEF Next, Turn

\* The steps between which an answer's calls are dispatched.
LEMMA DispatchSteps ==
    ASSUME Next, pc' \in Dispatching
    PROVE  \/ AnswerCalls \/ AppendResult \/ CollectResult
           \/ StartTool \/ RefuseTool \/ RunTool \/ EndTool
<1> USE DEF Dispatching, Working, Goto
<1>1. ~Start /\ ~CompactNow /\ ~Clear
  BY DEF Start, CompactNow, Clear
<1>2. ~Exit /\ ~Crash /\ ~CrashSaving
  BY DEF Exit, Crash, CrashSaving, Stop
<1>3. /\ ~BeginTurn /\ ~PromptBlocked /\ ~Submit /\ ~Resubmit /\ ~InterruptedEarly /\ ~ModelAnswers
      /\ ~DoubleBudget /\ ~TurnAborts
  BY DEF BeginTurn, PromptBlocked, Submit, Resubmit, InterruptedEarly, ModelAnswers, DoubleBudget, TurnAborts
<1>4. ~CompactAndRetry /\ ~ToolRaises /\ ~StepDone /\ ~AnswerFinal
  BY DEF CompactAndRetry, ToolRaises, StepDone, AnswerFinal
<1>5. ~StopBlocked /\ ~ReplyStands /\ ~EndTurn /\ ~SaveSnapshot
  BY DEF StopBlocked, ReplyStands, EndTurn, SaveSnapshot
<1> QED
  BY <1>1, <1>2, <1>3, <1>4, <1>5 DEF Next, Turn

LEMMA AwaitsStep ==
    ASSUME TypeInv, DueInv, FeedsInv, Next, Noting, pc' \in Dispatching
    PROVE  Awaits(messages', ToSet(Due(todo'))) /\ Awaits(jr'.messages, ToSet(Due(todo')))
<1>0. messages \in Seq(Msg) /\ jr.messages \in Seq(Msg) /\ Structured /\ ~FlattenResume
  BY JournalType DEF TypeInv, HistoriesInv, Noting
<1>1. CASE AnswerCalls
  <2>1. PICK c : todo' = c /\ c \in Seq(Call) /\ Says(Asking(c))
    BY <1>1, SayingSteps
  <2> DEFINE m == Asking(c)
  <2>2. m = Calling(c) /\ m \in Msg /\ m.role # "tool" /\ Says(m)
    <3>1. Asking(c).role = "assistant" /\ Asking(c) \in Msg
      BY <2>1, SessionMessages
    <3> QED
      BY <1>0, <2>1, <3>1 DEF Asking
  <2>3. Ids(m) = ToSet(Due(c))
    BY <2>1, <2>2, DueFacts
  <2> HIDE DEF m
  <2>4. FeedsSome(messages) /\ FeedsSome(jr.messages)
    BY <1>0 DEF FeedsInv, FeedsAll
  <2>5. Awaits(Append(messages, m), Ids(m)) /\ Awaits(Append(jr.messages, m), Ids(m))
    BY <1>0, <2>2, <2>4, FeedsAppend
  <2> QED
    BY <2>1, <2>2, <2>3, <2>5 DEF Says
<1>2. CASE AppendResult
  <2>1. pc = "ended" /\ Says(Result) /\ todo' = Tail(todo)
    BY <1>2, SayingSteps DEF AppendResult, Goto
  <2>2. Awaits(messages, ToSet(Due(todo))) /\ Awaits(jr.messages, ToSet(Due(todo)))
    BY <1>0, <2>1 DEF FeedsInv, Dispatching
  <2>3. Awaits(Append(messages, Result), ToSet(Due(Tail(todo))))
    BY <1>0, <2>1, <2>2, FeedsResult
  <2>4. Awaits(Append(jr.messages, Result), ToSet(Due(Tail(todo))))
    BY <1>0, <2>1, <2>2, FeedsResult
  <2> QED
    BY <2>1, <2>3, <2>4 DEF Says
<1>3. CASE StartTool \/ RefuseTool \/ RunTool \/ EndTool
  <2>1. pc \in Dispatching /\ todo' = todo /\ messages' = messages
    BY <1>3 DEF StartTool, RefuseTool, RunTool, EndTool, memory, Goto, Dispatching, Working
  <2>2. jr'.messages = jr.messages
    BY <1>3, QuietSteps DEF Quiet
  <2> QED
    BY <1>0, <2>1, <2>2 DEF FeedsInv
<1>4. ~CollectResult
  BY <1>0 DEF CollectResult
<1> QED
  BY <1>1, <1>2, <1>3, <1>4, DispatchSteps

LEMMA FeedsInvStep ==
    ASSUME TypeInv, DueInv, IdsInv, FeedsInv, Next
    PROVE  FeedsInv'
<1> SUFFICES ASSUME ~FlattenResume PROVE FeedsInv'
  BY DEF FeedsInv
<1>1. FeedsAll'
  BY FeedsStep
<1>2. Structured /\ pc' \in Dispatching =>
          Awaits(messages', ToSet(Due(todo'))) /\ Awaits(jr'.messages, ToSet(Due(todo')))
  BY AwaitsStep DEF Noting
<1> QED
  BY <1>1, <1>2 DEF FeedsInv

\* The tool messages of h answer calls made when there were k of them.
Numbered(h, k) == \A m \in Tools(h) : m.id <= k

NumberedAll ==
    Numbered(messages, calls) /\ Numbered(snapshot, calls) /\ Numbered(jr.messages, calls)

LEMMA ToolsAppend ==
    ASSUME NEW h \in Seq(Msg), NEW m \in Msg
    PROVE  Tools(Append(h, m)) = Tools(h) \cup IF m.role = "tool" THEN {m} ELSE {}
  BY AppendAdds DEF Added

LEMMA ToolsFewer ==
    ASSUME NEW h, NEW q, \A m \in ToSet(q) : m \in ToSet(h) \/ m.role # "tool"
    PROVE  Tools(q) \subseteq Tools(h)
  BY DEF Tools

LEMMA NumberedRepaired ==
    ASSUME NEW h \in Seq(Msg), NEW c \in Nat, Numbered(h, c), CallIds(h) \subseteq 1 .. c
    PROVE  Numbered(Repair(h), c)
<1> SUFFICES ASSUME NEW m \in Tools(Repair(h)) PROVE m.id <= c
  BY DEF Numbered
<1>1. m \in ToSet(h) \/ \E id \in CallIds(h) : m = Lost(id)
  BY RepairMade DEF MadeFrom, Tools
<1>2. CASE m \in ToSet(h)
  BY <1>2 DEF Numbered, Tools
<1>3. CASE \E id \in CallIds(h) : m = Lost(id)
  <2>1. PICK id \in CallIds(h) : m = Lost(id)
    BY <1>3
  <2>2. m.id = id /\ id \in 1 .. c
    BY <2>1 DEF Lost, ToolResult, Message
  <2> QED
    BY <2>2
<1> QED
  BY <1>1, <1>2, <1>3

LEMMA NumberedNormalised ==
    ASSUME NEW h \in Seq(Msg), NEW c \in Nat, Numbered(h, c), CallIds(h) \subseteq 1 .. c,
           ~FlattenResume
    PROVE  Numbered(Normalise(h, FlattenResume), c)
<1> DEFINE g == MergeUsers(h)
<1>1. MergedFrom(g, h)
  BY MergeUsersMerged
<1>2. Normalise(h, FlattenResume) = Repair(g)
  BY DEF Normalise
<1> HIDE DEF g
<1>3. g \in Seq(Msg) /\ Tools(g) = Tools(h) /\ CallIds(g) = CallIds(h)
  BY <1>1 DEF MergedFrom
<1>4. Numbered(g, c) /\ CallIds(g) \subseteq 1 .. c
  BY <1>3 DEF Numbered
<1>5. Numbered(Repair(g), c)
  BY <1>3, <1>4, NumberedRepaired
<1> QED
  BY <1>2, <1>5

\* What a resume adds to the histories are placeholders and notes.
LEMMA NumberedRecovered ==
    ASSUME NEW j \in Journal, snapshot \in Seq(Msg), ~FlattenResume, NEW c \in Nat,
           Numbered(j.messages, c), Numbered(snapshot, c),
           CallIds(j.messages) \subseteq 1 .. c, CallIds(snapshot) \subseteq 1 .. c
    PROVE  Numbered(Recovered(j), c)
<1> DEFINE r == Replayed(j)
           p == WithNote(r, "pending", j.pending)
           s == Normalise(snapshot, FlattenResume)
           k == KnownCalls(j)
<1>0. /\ FlattenResume \in BOOLEAN /\ j.messages \in Seq(Msg) /\ j.pending \subseteq Call
      /\ k \subseteq Call /\ "pending" \in Kinds /\ "known" \in Kinds
  BY ModesAssumption, JournalType, UnreceivedType DEF Kinds
<1>1. Recovered(j) = IF Replayable(j) THEN WithNote(p, "known", k)
                     ELSE IF s # <<>> THEN s ELSE <<System>>
  BY RecoveredIs
<1>2. r \in Seq(Msg) /\ Numbered(r, c) /\ Numbered(s, c)
  BY <1>0, Normalised, NumberedNormalised DEF Replayed
<1> HIDE DEF r, s, k
<1>3. ASSUME NEW q, NEW x, x.role = "user", NEW h, Numbered(h, c),
             \A m \in ToSet(q) \ ToSet(h) : m = x
      PROVE  Numbered(q, c)
  BY <1>3 DEF Numbered, Tools
<1>4. \A x : User(x).role = "user"
  BY DEF User, Message
<1>5. p \in Seq(Msg) /\ Numbered(p, c)
  <2>1. p \in Seq(Msg) /\ \A m \in ToSet(p) \ ToSet(r) : m = User(Note("pending", j.pending))
    BY <1>0, <1>2, NoteKeeps
  <2> HIDE DEF p
  <2> QED
    BY <1>2, <1>3, <1>4, <2>1
<1> HIDE DEF p
<1> DEFINE o == WithNote(p, "known", k)
<1>6. Numbered(o, c)
  <2>1. \A m \in ToSet(o) \ ToSet(p) : m = User(Note("known", k))
    BY <1>0, <1>5, NoteKeeps
  <2> HIDE DEF o
  <2> QED
    BY <1>3, <1>4, <1>5, <2>1
<1>7. Numbered(<<System>>, c)
  <2>1. ToSet(<<System>>) = {System} /\ System.role # "tool"
    BY SystemMessage DEF ToSet
  <2> QED
    BY <2>1 DEF Numbered, Tools
<1>8. Recovered(j) \in {o, s, <<System>>}
  BY <1>1
<1> HIDE DEF o
<1> QED
  BY <1>2, <1>6, <1>7, <1>8

LEMMA JoinedTools ==
    ASSUME TypeInv, Joins
    PROVE  Tools(messages') = Tools(messages)
<1>1. messages \in Seq(Msg) /\ Task \in Msg /\ Task.role = "user"
  BY SessionMessages DEF TypeInv, HistoriesInv
<1>2. messages' = MergeOne("user", messages, Task) /\ Task.calls = <<>>
  BY <1>1, MsgFacts DEF Joins
<1>3. Added(messages, Task, messages')
  BY <1>1, <1>2, MergeOneAdds
<1> QED
  BY <1>1, <1>3 DEF Added

LEMMA CompactedTools ==
    ASSUME NEW h \in Seq(Msg), NEW q \in Compactions(h, Keep)
    PROVE  Tools(q) \subseteq Tools(h)
<1>1. ToSet(q) \subseteq ToSet(h) \cup {Summary} /\ Summary.role # "tool"
  BY CompactedMessages, SummaryMessage
<1> QED
  BY <1>1 DEF Tools

\* The call at the head is one of those made, and its result says so.
LEMMA ResultAnswers ==
    ASSUME TypeInv, CallInv, AppendResult
    PROVE  /\ Result \in Msg /\ Result.role = "tool" /\ Result.id \in Nat /\ Result.id <= calls
           /\ Result.text = {<<"res", Result.id>>} /\ Says(Result)
<1>1. todo # <<>> /\ todo \in Seq(Minted)
  BY DEF AppendResult, Goto, TypeInv, ControlInv, CallInv, CallsInv
<1>2. Head(todo) \in Minted
  BY <1>1
<1>3. Head(todo).id = Head(todo).n /\ Head(todo).n <= calls /\ Head(todo).id \in Nat
  BY <1>2 DEF Minted, Call
<1>4. /\ Result \in Msg /\ Result.role = "tool" /\ Result.id = Head(todo).id
      /\ Result.text = {<<"res", Head(todo).n>>} /\ Result.calls = <<>>
  BY <1>1, SessionMessages
<1>5. Result.text = {<<"res", Result.id>>} /\ Result.id <= calls /\ Result.id \in Nat
  BY <1>3, <1>4
<1> QED
  BY <1>4, <1>5, SayingSteps

LEMMA NumberedStep ==
    ASSUME FreshIds, TypeInv, CallInv, IdsInv, FeedsInv, Noting, NumberedAll, Next
    PROVE  NumberedAll'
<1>0. /\ messages \in Seq(Msg) /\ snapshot \in Seq(Msg) /\ jr \in Journal /\ jr.messages \in Seq(Msg)
      /\ calls \in Nat /\ Structured /\ ~FlattenResume /\ FeedsSome(messages)
      /\ CallIds(messages) \subseteq 1 .. calls /\ CallIds(snapshot) \subseteq 1 .. calls
      /\ CallIds(jr.messages) \subseteq 1 .. calls
  BY FreshIds, JournalType DEF FreshIds, TypeInv, HistoriesInv, ControlInv, IdsInv, Noting, FeedsInv, FeedsAll
<1>1. Numbered(messages, calls) /\ Numbered(snapshot, calls) /\ Numbered(jr.messages, calls)
  BY DEF NumberedAll
<1>2. CASE AnswerCalls
  <2>1. PICK k \in Nat \ {0} : \E c \in NewCalls(k) :
            calls' = calls + k /\ todo' = c /\ c \in Seq(Call) /\ Says(Asking(c))
    BY <1>2, SayingSteps
  <2>2. PICK c : c \in Seq(Call) /\ Says(Asking(c))
    BY <2>1
  <2> DEFINE m == Asking(c)
  <2>3. m \in Msg /\ m.role = "assistant" /\ Says(m)
    BY <2>2, SessionMessages
  <2> HIDE DEF m
  <2>4. calls <= calls' /\ calls' \in Nat
    BY <1>0, <2>1
  <2>5. \A h \in Seq(Msg) : Tools(Append(h, m)) = Tools(h)
    BY <2>3, ToolsAppend
  <2>6. Tools(messages') = Tools(messages) /\ Tools(jr'.messages) = Tools(jr.messages)
        /\ snapshot' = snapshot
    BY <1>0, <2>3, <2>5 DEF Says
  <2>7. ASSUME NEW h \in Seq(Msg), NEW q, Tools(q) = Tools(h), Numbered(h, calls)
        PROVE  Numbered(q, calls')
    <3> SUFFICES ASSUME NEW x \in Tools(h) PROVE x.id <= calls'
      BY <2>7 DEF Numbered
    <3>1. x \in Msg
      BY DEF Tools, ToSet
    <3>2. x.id \in Nat /\ x.id <= calls
      BY <2>7, <3>1, MsgFacts DEF Numbered
    <3> QED
      BY <1>0, <2>4, <3>2
  <2> QED
    BY <1>0, <1>1, <2>6, <2>7 DEF NumberedAll
<1>3. CASE ~AnswerCalls
  <2>0. calls' = calls
    BY <1>3, OtherSteps
  <2> DEFINE Fit(h) == Numbered(h, calls)
  <2>1. NumberedAll' <=> Fit(messages') /\ Fit(snapshot') /\ Fit(jr'.messages)
    BY <2>0 DEF NumberedAll
  <2>2. Fit(messages) /\ Fit(snapshot) /\ Fit(jr.messages)
    BY <1>1
  <2>3. \A h, q : Fit(h) /\ Tools(q) \subseteq Tools(h) => Fit(q)
    BY DEF Numbered
  <2>4. Tools(<<>>) = {}
    BY EmptyContents DEF Tools
  <2>5. ASSUME Quiet PROVE NumberedAll'
    BY <2>1, <2>2, <2>5 DEF Quiet
  <2>6. ASSUME Mends PROVE NumberedAll'
    <3>1. Fit(Repair(messages))
      BY <1>0, <2>2, NumberedRepaired
    <3> QED
      BY <2>1, <2>2, <2>6, <3>1 DEF Mends
  <2>7. ASSUME NEW m, Says(m), m.role = "tool" => m.id <= calls PROVE NumberedAll'
    <3>1. m \in Msg
      BY <2>7 DEF Says
    <3>2. ASSUME NEW h \in Seq(Msg), Fit(h) PROVE Fit(Append(h, m))
      <4>1. Tools(Append(h, m)) = Tools(h) \cup IF m.role = "tool" THEN {m} ELSE {}
        BY <3>1, ToolsAppend
      <4> QED
        BY <2>7, <3>2, <4>1 DEF Numbered
    <3> QED
      BY <1>0, <2>1, <2>2, <2>7, <3>2 DEF Says
  <2>8. ASSUME Joins PROVE NumberedAll'
    <3>1. Tools(messages') \subseteq Tools(messages)
      BY <2>8, JoinedTools
    <3> QED
      BY <2>1, <2>2, <2>3, <2>8, <3>1 DEF Joins
  <2>9. ASSUME NEW h, Becomes(h), Tools(h) \subseteq Tools(messages) PROVE NumberedAll'
    BY <2>1, <2>2, <2>3, <2>9 DEF Becomes
  <2>10. ASSUME Ends PROVE NumberedAll'
    <3>1. Fit(<<>>)
      BY <2>2, <2>3, <2>4
    <3>2. Fit(jr'.messages)
      BY <1>0, <2>2, <2>3, <2>10, CompactedTools DEF Ends
    <3> QED
      BY <2>1, <2>2, <2>10, <3>1, <3>2 DEF Ends
  <2>11. CASE Start
    <3>1. PICK j : Wakes(j)
      BY <2>11, WakingStep
    <3>2. /\ j \in Journal /\ jr' = j /\ messages' = Recovered(j) /\ snapshot' = snapshot
          /\ j.messages \in {jr.messages, Append(jr.messages, System)}
      BY <3>1 DEF Wakes
    <3>3. /\ Tools(Append(jr.messages, System)) = Tools(jr.messages)
          /\ CallIds(Append(jr.messages, System)) = CallIds(jr.messages)
      <4>1. System \in Msg /\ System.role # "tool" /\ System.calls = <<>>
        BY SystemMessage
      <4>2. Ids(System) = {}
        BY <4>1, NoCalls
      <4>3. CallIds(Append(jr.messages, System)) = CallIds(jr.messages) \cup Ids(System)
        BY <1>0, <4>1, AppendContents
      <4> QED
        BY <1>0, <4>1, <4>2, <4>3, ToolsAppend
    <3>4. Fit(j.messages) /\ CallIds(j.messages) \subseteq 1 .. calls
      BY <1>0, <2>2, <2>3, <3>2, <3>3
    <3>5. Fit(Recovered(j))
      BY <1>0, <2>2, <3>2, <3>4, NumberedRecovered
    <3> QED
      BY <2>1, <2>2, <3>2, <3>4, <3>5
  <2> HIDE DEF Fit
  <2>12. CASE AppendResult
    BY <2>7, <2>12, ResultAnswers
  <2>13. CASE Submit \/ AnswerFinal \/ StopBlocked \/ StepDone
    <3>1. Joins \/ Quiet \/ Says(Task) \/ Says(Reply) \/ Says(Objection)
      BY <1>0, <2>13, SayingSteps, JoiningStep, QuietSteps
    <3>2. Task.role # "tool" /\ Reply.role # "tool" /\ Objection.role # "tool"
      <4>1. Task.role = "user" /\ Reply.role = "assistant" /\ Objection.role = "user"
        BY SessionMessages
      <4> QED
        BY <4>1
    <3> QED
      BY <2>5, <2>7, <2>8, <3>1, <3>2
  <2>14. CASE BeginTurn \/ PromptBlocked
    BY <2>6, <2>14, MendingSteps
  <2>15. CASE CompactAndRetry \/ CompactNow \/ Clear
    <3>1. \E h : Becomes(h) /\ Tools(h) \subseteq Tools(messages)
      BY <1>0, <2>15, ReplacingSteps, CompactedTools, FeedsKept
    <3> QED
      BY <2>9, <3>1
  <2>16. CASE Exit \/ Crash \/ CrashSaving
    BY <2>10, <2>16, EndingSteps
  <2>17. CASE \/ Resubmit \/ InterruptedEarly \/ ModelAnswers \/ DoubleBudget \/ TurnAborts
              \/ StartTool \/ RefuseTool \/ RunTool \/ EndTool \/ ToolRaises \/ CollectResult
              \/ ReplyStands \/ EndTurn \/ SaveSnapshot
    BY <2>5, <2>17, QuietSteps
  <2> QED
    BY <1>3, <2>11, <2>12, <2>13, <2>14, <2>15, <2>16, <2>17 DEF Next, Turn
<1> QED
  BY <1>2, <1>3

\* Where the steps are with respect to the latest turn.
LEMMA TurnSteps ==
    ASSUME Next
    PROVE  \/ BeginTurn /\ mark' = calls /\ calls' = calls /\ cut' = FALSE
           \/ mark' = mark /\ cut' = cut
           \/ (Crash \/ CrashSaving) /\ mark' = mark /\ cut' = (cut \/ InTurn)
<1> USE DEF disk, memory, ghosts, bookkeeping
<1>1. CASE Start \/ CompactNow \/ Clear
  BY <1>1 DEF Start, CompactNow, Clear
<1>2. CASE Exit \/ Crash \/ CrashSaving
  BY <1>2 DEF Exit, Crash, CrashSaving, Stop
<1>3. CASE BeginTurn \/ PromptBlocked \/ Submit \/ Resubmit \/ InterruptedEarly \/ ModelAnswers
  BY <1>3 DEF BeginTurn, PromptBlocked, Submit, Resubmit, InterruptedEarly, ModelAnswers
<1>4. CASE DoubleBudget \/ TurnAborts \/ CompactAndRetry \/ StartTool \/ RefuseTool \/ RunTool
  BY <1>4 DEF DoubleBudget, TurnAborts, CompactAndRetry, StartTool, RefuseTool, RunTool
<1>5. CASE EndTool \/ ToolRaises \/ AppendResult \/ CollectResult \/ StepDone
  BY <1>5 DEF EndTool, ToolRaises, AppendResult, CollectResult, StepDone
<1>6. CASE AnswerFinal \/ StopBlocked \/ ReplyStands \/ EndTurn \/ SaveSnapshot
  BY <1>6 DEF AnswerFinal, StopBlocked, ReplyStands, EndTurn, SaveSnapshot
<1>7. CASE AnswerCalls
  BY <1>7 DEF AnswerCalls
<1> QED
  BY <1>1, <1>2, <1>3, <1>4, <1>5, <1>6, <1>7 DEF Next, Turn

LEMMA IdleSteps ==
    ASSUME Next, ~InTurn
    PROVE  \/ Start \/ BeginTurn \/ PromptBlocked \/ SaveSnapshot \/ CompactNow \/ Clear
           \/ Exit \/ Crash \/ CrashSaving
<1> USE DEF InTurn, InLoop, Goto
<1>1. ~Submit /\ ~Resubmit /\ ~InterruptedEarly /\ ~ModelAnswers /\ ~DoubleBudget /\ ~TurnAborts
  BY DEF Submit, Resubmit, InterruptedEarly, ModelAnswers, DoubleBudget, TurnAborts
<1>2. ~CompactAndRetry /\ ~AnswerCalls /\ ~StartTool /\ ~RefuseTool /\ ~RunTool /\ ~EndTool
  BY DEF CompactAndRetry, AnswerCalls, StartTool, RefuseTool, RunTool, EndTool
<1>3. ~ToolRaises /\ ~AppendResult /\ ~CollectResult /\ ~StepDone
  BY DEF ToolRaises, AppendResult, CollectResult, StepDone
<1>4. ~AnswerFinal /\ ~StopBlocked /\ ~ReplyStands /\ ~EndTurn
  BY DEF AnswerFinal, StopBlocked, ReplyStands, EndTurn
<1> QED
  BY <1>1, <1>2, <1>3, <1>4 DEF Next, Turn

\* The steps that stay inside the turn.
LEMMA InsideSteps ==
    ASSUME Next, InTurn', ~BeginTurn
    PROVE  /\ InTurn
           /\ ~(Start \/ PromptBlocked \/ SaveSnapshot \/ Clear \/ Exit \/ Crash \/ CrashSaving)
<1>1. pc' \in InLoop \cup {"submit", "close"}
  BY DEF InTurn
<1>2. ~(Start \/ PromptBlocked \/ SaveSnapshot \/ Clear \/ Exit \/ Crash \/ CrashSaving)
  BY <1>1 DEF InLoop, Start, PromptBlocked, SaveSnapshot, Clear, Exit, Crash, CrashSaving, Stop, Goto
<1>3. CASE CompactNow
  <2>1. pc' = pc
    BY <1>3 DEF CompactNow
  <2> QED
    BY <1>1, <1>2, <2>1 DEF InTurn
<1>4. CASE ~CompactNow
  BY <1>2, <1>4, IdleSteps
<1> QED
  BY <1>2, <1>3, <1>4

LEMMA JournalStays ==
    ASSUME TypeInv, Next
    PROVE  jr.some \/ BeginTurn => jr'.some
<1>1. CASE Start
  <2>1. ~BeginTurn
    BY <1>1 DEF Start, BeginTurn, Goto
  <2> QED
    BY <1>1, <2>1, WakingStep DEF Wakes
<1>2. CASE BeginTurn
  <2>1. jr' = Replay(jr, TurnStart) /\ [id |-> 1, n |-> 1] \in Call /\ jr \in Journal
    BY <1>2 DEF BeginTurn, Write, Call, NoCall, TypeInv, HistoriesInv
  <2>2. jr'.some = TRUE
    BY <2>1, ReplayRecord
  <2> QED
    BY <2>2
<1>3. CASE PromptBlocked
  <2>1. ~BeginTurn
    BY <1>3 DEF PromptBlocked, BeginTurn, Goto
  <2> QED
    BY <1>3, <2>1, MendingSteps DEF Mends
<1>4. ASSUME ~BeginTurn, ~Start, ~PromptBlocked, jr.some PROVE jr'.some
  <2>1. CASE Submit \/ AnswerFinal \/ StopBlocked \/ StepDone \/ AppendResult
    <3>1. \/ Joins \/ Quiet \/ Says(Task) \/ Says(Reply) \/ Says(Objection) \/ Says(Results)
          \/ Says(Result)
      BY <2>1, SayingSteps, JoiningStep, QuietSteps
    <3> QED
      BY <1>4, <3>1 DEF Joins, Quiet, Says
  <2>2. CASE AnswerCalls
    BY <2>2, SayingSteps DEF Says
  <2>3. CASE CompactAndRetry \/ CompactNow \/ Clear
    BY <2>3, ReplacingSteps DEF Becomes
  <2>4. CASE Exit \/ Crash \/ CrashSaving
    BY <1>4, <2>4, EndingSteps DEF Ends
  <2>5. CASE \/ Resubmit \/ InterruptedEarly \/ ModelAnswers \/ DoubleBudget \/ TurnAborts
             \/ StartTool \/ RefuseTool \/ RunTool \/ EndTool \/ ToolRaises \/ CollectResult
             \/ ReplyStands \/ EndTurn \/ SaveSnapshot
    BY <1>4, <2>5, QuietSteps DEF Quiet
  <2> QED
    BY <1>4, <2>1, <2>2, <2>3, <2>4, <2>5 DEF Next, Turn
<1> QED
  BY <1>1, <1>2, <1>3, <1>4

\* The tool messages of h that answer calls numbered after k say the result.
Answered(h, k) == \A m \in Tools(h) : m.id > k => <<"res", m.id>> \in m.text

\* No placeholder stands for a call of the latest turn, in the histories of the
\* process that is in it or in the journal of one that died there.
AnswerInv ==
    /\ mark \in Nat /\ mark <= calls
    /\ InTurn \/ cut => jr.some
    /\ Noting =>
          /\ NumberedAll
          /\ InTurn => Answered(messages, mark) /\ Answered(jr.messages, mark)
          /\ cut /\ MaxCompactions = 0 => Answered(jr.messages, mark)

\* A message that is no placeholder.
LEMMA AnsweredAppend ==
    ASSUME NEW h \in Seq(Msg), NEW k, Answered(h, k), NEW m \in Msg,
           m.role = "tool" => <<"res", m.id>> \in m.text
    PROVE  Answered(Append(h, m), k)
<1>1. Tools(Append(h, m)) = Tools(h) \cup IF m.role = "tool" THEN {m} ELSE {}
  BY ToolsAppend
<1> QED
  BY <1>1 DEF Answered

LEMMA AnsweredStep ==
    ASSUME TypeInv, TypeInv', CallInv, AnswerInv, Noting, NumberedAll', Next, InTurn'
    PROVE  Answered(messages', mark') /\ Answered(jr'.messages, mark')
<1>0. /\ messages \in Seq(Msg) /\ jr.messages \in Seq(Msg) /\ calls \in Nat /\ Structured
  BY JournalType DEF TypeInv, HistoriesInv, ControlInv, Noting
<1>1. CASE BeginTurn
  <2>1. mark' = calls' /\ calls' \in Nat
    BY <1>0, <1>1 DEF BeginTurn
  <2>2. ASSUME NEW h \in Seq(Msg), Numbered(h, calls') PROVE Answered(h, mark')
    <3> SUFFICES ASSUME NEW m \in Tools(h), m.id > mark' PROVE FALSE
      BY DEF Answered
    <3>1. m \in Msg /\ m.id <= calls'
      BY <2>2 DEF Tools, ToSet, Numbered
    <3>2. m.id \in Nat
      BY <3>1, MsgFacts
    <3> QED
      BY <2>1, <3>1, <3>2
  <2>3. messages' \in Seq(Msg) /\ jr'.messages \in Seq(Msg)
    <3>1. jr' \in Journal /\ messages' \in Seq(Msg)
      BY DEF TypeInv, HistoriesInv
    <3> QED
      BY <3>1 DEF Journal
  <2> QED
    BY <2>2, <2>3 DEF NumberedAll
<1>2. CASE ~BeginTurn
  <2>0. /\ mark' = mark /\ InTurn
        /\ ~(Start \/ PromptBlocked \/ SaveSnapshot \/ Clear \/ Exit \/ Crash \/ CrashSaving)
    BY <1>2, TurnSteps, InsideSteps
  <2> DEFINE Fit(h) == Answered(h, mark)
  <2>1. Fit(messages) /\ Fit(jr.messages)
    BY <2>0 DEF AnswerInv
  <2>2. \A h, q : Fit(h) /\ Tools(q) \subseteq Tools(h) => Fit(q)
    BY DEF Answered
  <2>3. ASSUME Quiet PROVE Fit(messages') /\ Fit(jr'.messages)
    BY <2>1, <2>3 DEF Quiet
  <2>4. ASSUME NEW m, Says(m), m.role = "tool" => <<"res", m.id>> \in m.text
        PROVE  Fit(messages') /\ Fit(jr'.messages)
    BY <1>0, <2>1, <2>4, AnsweredAppend DEF Says
  <2>5. ASSUME Joins PROVE Fit(messages') /\ Fit(jr'.messages)
    <3>1. Tools(messages') \subseteq Tools(messages)
      BY <2>5, JoinedTools
    <3> QED
      BY <2>1, <2>2, <2>5, <3>1 DEF Joins
  <2>6. ASSUME NEW h, Becomes(h), Tools(h) \subseteq Tools(messages)
        PROVE  Fit(messages') /\ Fit(jr'.messages)
    BY <2>1, <2>2, <2>6 DEF Becomes
  <2> HIDE DEF Fit
  <2>7. Fit(messages') /\ Fit(jr'.messages)
    <3>1. CASE AppendResult
      <4>1. Says(Result) /\ <<"res", Result.id>> \in Result.text
        BY <3>1, ResultAnswers
      <4> QED
        BY <2>4, <4>1
    <3>2. CASE AnswerCalls
      <4>1. PICK c : c \in Seq(Call) /\ Says(Asking(c))
        BY <3>2, SayingSteps
      <4>2. Asking(c).role = "assistant"
        BY <4>1, SessionMessages
      <4> QED
        BY <2>4, <4>1, <4>2
    <3>3. CASE Submit \/ AnswerFinal \/ StopBlocked \/ StepDone
      <4>1. Joins \/ Quiet \/ Says(Task) \/ Says(Reply) \/ Says(Objection)
        BY <1>0, <3>3, SayingSteps, JoiningStep, QuietSteps
      <4>2. Task.role # "tool" /\ Reply.role # "tool" /\ Objection.role # "tool"
        <5>1. Task.role = "user" /\ Reply.role = "assistant" /\ Objection.role = "user"
          BY SessionMessages
        <5> QED
          BY <5>1
      <4> QED
        BY <2>3, <2>4, <2>5, <4>1, <4>2
    <3>4. CASE CompactAndRetry \/ CompactNow
      <4>1. \E h : Becomes(h) /\ Tools(h) \subseteq Tools(messages)
        BY <1>0, <3>4, ReplacingSteps, CompactedTools
      <4> QED
        BY <2>6, <4>1
    <3>5. CASE \/ Resubmit \/ InterruptedEarly \/ ModelAnswers \/ DoubleBudget \/ TurnAborts
               \/ StartTool \/ RefuseTool \/ RunTool \/ EndTool \/ ToolRaises \/ CollectResult
               \/ ReplyStands \/ EndTurn
      BY <2>3, <3>5, QuietSteps
    <3> QED
      BY <1>2, <2>0, <3>1, <3>2, <3>3, <3>4, <3>5 DEF Next, Turn
  <2> QED
    BY <2>0, <2>7 DEF Fit
<1> QED
  BY <1>1, <1>2

LEMMA CutStep ==
    ASSUME TypeInv, OpenInv, FeedsInv, AnswerInv, Noting, Next, cut', MaxCompactions = 0
    PROVE  Answered(jr'.messages, mark')
<1>0. messages \in Seq(Msg) /\ FeedsSome(messages) /\ jr.messages \in Seq(Msg)
  BY JournalType DEF TypeInv, HistoriesInv, FeedsInv, FeedsAll, Noting
<1>1. mark' = mark /\ ~BeginTurn
  BY TurnSteps DEF BeginTurn
<1>2. Answered(jr.messages, mark)
  BY TurnSteps DEF AnswerInv
<1>3. CASE Exit \/ Crash \/ CrashSaving
  BY <1>1, <1>2, <1>3, EndingSteps DEF Ends
<1>4. CASE ~(Exit \/ Crash \/ CrashSaving)
  <2>1. cut /\ ~InTurn
    BY <1>1, <1>4, TurnSteps DEF OpenInv
  <2>2. CASE Start
    <3>1. \E j : Wakes(j)
      BY <2>2, WakingStep
    <3>2. jr'.messages \in {jr.messages, Append(jr.messages, System)}
      BY <3>1 DEF Wakes
    <3>3. Answered(Append(jr.messages, System), mark)
      BY <1>0, <1>2, AnsweredAppend, SystemMessage
    <3> QED
      BY <1>1, <1>2, <3>2, <3>3
  <2>3. CASE PromptBlocked
    BY <1>1, <1>2, <2>3, MendingSteps DEF Mends
  <2>4. CASE SaveSnapshot
    BY <1>1, <1>2, <2>4, QuietSteps DEF Quiet
  <2>5. ~CompactNow
    BY ReplacingSteps
  <2>6. CASE Clear
    <3>1. jr'.messages = Kept(messages)
      BY <2>6, ReplacingSteps DEF Becomes
    <3>2. Tools(jr'.messages) = {}
      BY <1>0, <3>1, FeedsKept
    <3> QED
      BY <3>2 DEF Answered
  <2> QED
    BY <1>1, <1>4, <2>1, <2>2, <2>3, <2>4, <2>5, <2>6, IdleSteps
<1> QED
  BY <1>3, <1>4

LEMMA AnswerStep ==
    ASSUME FreshIds, TypeInv, TypeInv', CallInv, OpenInv, IdsInv, FeedsInv, AnswerInv, Next
    PROVE  AnswerInv'
<1>1. mark' \in Nat /\ mark' <= calls'
  <2>0. calls \in Nat /\ mark \in Nat /\ mark <= calls
    BY DEF TypeInv, ControlInv, AnswerInv
  <2>1. calls' \in Nat /\ calls <= calls'
    <3>1. CASE AnswerCalls
      <4>1. \E k \in Nat \ {0} : calls' = calls + k
        BY <3>1, SayingSteps
      <4> QED
        BY <2>0, <4>1
    <3>2. CASE ~AnswerCalls
      BY <2>0, <3>2, OtherSteps
    <3> QED
      BY <3>1, <3>2
  <2>2. mark' \in {mark, calls}
    BY TurnSteps
  <2> QED
    BY <2>0, <2>1, <2>2
<1>2. InTurn' \/ cut' => jr'.some
  <2>1. InTurn' \/ cut' => BeginTurn \/ InTurn \/ cut
    BY TurnSteps, InsideSteps
  <2> QED
    BY <2>1, JournalStays DEF AnswerInv
<1>3. ASSUME Noting
      PROVE  /\ NumberedAll'
             /\ InTurn' => Answered(messages', mark') /\ Answered(jr'.messages, mark')
             /\ cut' /\ MaxCompactions = 0 => Answered(jr'.messages, mark')
  <2>1. NumberedAll'
    BY <1>3, NumberedStep DEF AnswerInv
  <2> QED
    BY <1>3, <2>1, AnsweredStep, CutStep
<1> QED
  BY <1>1, <1>2, <1>3 DEF AnswerInv, Noting

\* When a process died in a turn or is in it, the journal accounts for every
\* tool of the turn that ran.
LEMMA ToolsAccounted ==
    ASSUME TypeInv, CallInv, OpenInv, FeedsInv, AnswerInv, Noting,
           InTurn \/ (cut /\ MaxCompactions = 0)
    PROVE  EffectsRecovered
<1>0. /\ jr \in Journal /\ jr.messages \in Seq(Msg) /\ FeedsSome(jr.messages) /\ mark \in Nat
      /\ jr.pending \subseteq Call /\ "pending" \in Kinds /\ "known" \in Kinds
      /\ KnownCalls(jr) \subseteq Call /\ FlattenResume = FALSE /\ Structured
  BY JournalType, UnreceivedType, ModesAssumption
     DEF TypeInv, HistoriesInv, FeedsInv, FeedsAll, AnswerInv, Kinds, Noting
<1>1. Replayable(jr)
  BY DEF AnswerInv, Replayable, OpenInv, MidTurnSeen
<1>2. Answered(jr.messages, mark)
  BY DEF AnswerInv
<1> DEFINE r == Replayed(jr)
           p == WithNote(r, "pending", jr.pending)
           o == WithNote(p, "known", KnownCalls(jr))
<1>3. Recovered(jr) = o
  BY <1>0, <1>1, RecoveredIs
<1>4. /\ r \in Seq(Msg) /\ CallIds(r) = CallIds(jr.messages)
      /\ Mentions(jr.messages) \subseteq Mentions(r)
  BY <1>0, NormaliseKeeps DEF Replayed
<1>5. KnownCalls(jr) = {c \in Unreceived(jr) : c.id \in CallIds(r)}
  BY DEF KnownCalls
<1> HIDE DEF r
<1>6. p \in Seq(Msg) /\ Mentions(p) = Mentions(r) \cup Note("pending", jr.pending)
  BY <1>0, <1>4, NoteKeeps
<1> HIDE DEF p
<1>7. Mentions(o) = Mentions(p) \cup Note("known", KnownCalls(jr))
  BY <1>0, <1>6, NoteKeeps
<1> HIDE DEF o
<1>8. ASSUME NEW c \in ran, c.n > mark, c \in CallsOf(jr.messages)
      PROVE  Accounts(c) \cap Mentions(o) # {}
  <2>1. c \in jr.pending \cup jr.finished /\ c \in Call /\ c.id = c.n
    BY DEF CallInv, CallsInv, WriteAhead, EffectsJournalled, Minted
  <2>2. CASE c \in jr.pending
    <3>1. <<"pending", c.n>> \in Mentions(o)
      BY <1>6, <1>7, <2>2 DEF Note
    <3> QED
      BY <3>1 DEF Accounts
  <2>3. CASE c \in jr.finished /\ c.id \in AnsweredIds(jr.messages)
    <3>1. PICK i \in DOMAIN jr.messages : jr.messages[i].role = "tool" /\ jr.messages[i].id = c.id
      BY <2>3 DEF AnsweredIds
    <3>2. jr.messages[i] \in Tools(jr.messages)
      BY <3>1 DEF Tools, ToSet
    <3>3. <<"res", c.n>> \in jr.messages[i].text
      BY <1>2, <1>8, <2>1, <3>1, <3>2 DEF Answered
    <3>4. <<"res", c.n>> \in Mentions(jr.messages)
      BY <3>3 DEF Mentions
    <3>5. <<"res", c.n>> \in Mentions(o)
      BY <1>4, <1>6, <1>7, <3>4
    <3> QED
      BY <3>5 DEF Accounts
  <2>4. CASE c \in jr.finished /\ c.id \notin AnsweredIds(jr.messages)
    <3>1. c \in Unreceived(jr)
      BY <2>4 DEF Unreceived
    <3>2. c.id \in CallIds(r)
      BY <1>0, <1>4, <1>8, CallsType
    <3>3. c \in KnownCalls(jr)
      BY <1>5, <3>1, <3>2
    <3>4. <<"known", c.n>> \in Mentions(o)
      BY <1>7, <3>3 DEF Note
    <3> QED
      BY <3>4 DEF Accounts
  <2> QED
    BY <2>1, <2>2, <2>3, <2>4
<1> QED
  BY <1>0, <1>3, <1>8 DEF EffectsRecovered

\* At every moment of a turn, and after a process died in one, a resume says of
\* each tool of the turn that ran what came of it or that it was in flight -
\* whatever ran between, as long as no history was compacted after the crash.
THEOREM EffectsAreRecovered ==
    ASSUME FreshIds, Noting
    PROVE  Spec => [](InTurn \/ MaxCompactions = 0 => EffectsRecovered)
<1> DEFINE Inv == TypeInv /\ CallInv /\ OpenInv /\ IdsInv /\ FeedsInv /\ AnswerInv
<1>1. Init => Inv
  <2> SUFFICES ASSUME Init PROVE Inv
    OBVIOUS
  <2>1. /\ jr.messages = <<>> /\ messages = <<>> /\ snapshot = <<>> /\ pc = "down"
        /\ mark = 0 /\ calls = 0 /\ cut = FALSE
    BY DEF Init, EmptyJournal
  <2>2. IdsInv
    BY <2>1, EmptyContents DEF IdsInv
  <2>3. FeedsInv
    BY <2>1, FeedsNone DEF FeedsInv, FeedsAll, Dispatching, Working
  <2>4. NumberedAll
    BY <2>1, EmptyContents DEF NumberedAll, Numbered, Tools
  <2>5. ~InTurn
    BY <2>1 DEF InTurn, InLoop
  <2>6. AnswerInv
    BY <2>1, <2>4, <2>5 DEF AnswerInv
  <2> QED
    BY <2>2, <2>3, <2>6, TypeInit, CallInit, OpenInit
<1>2. Inv /\ [Next]_vars => Inv'
  <2> SUFFICES ASSUME Inv, [Next]_vars PROVE Inv'
    OBVIOUS
  <2>1. TypeInv' /\ CallInv' /\ OpenInv'
    BY FreshIds, TypeStep, CallStep, OpenStep DEF FreshIds
  <2>2. CASE Next
    <3>1. IdsInv'
      BY <2>2, FreshIds, IdsStep DEF OneCallPerId, FreshIds
    <3>2. FeedsInv'
      BY <2>2, CallsAreDue, FeedsInvStep
    <3>3. AnswerInv'
      BY <2>1, <2>2, FreshIds, AnswerStep
    <3> QED
      BY <2>1, <3>1, <3>2, <3>3
  <2>3. CASE UNCHANGED vars
    BY <2>1, <2>3 DEF vars, disk, memory, bookkeeping, ghosts, IdsInv, FeedsInv, FeedsAll,
       AnswerInv, NumberedAll, InTurn
  <2> QED
    BY <2>2, <2>3
<1>3. Inv => (InTurn \/ MaxCompactions = 0 => EffectsRecovered)
  <2>1. ASSUME Inv, ~InTurn, ~cut PROVE EffectsRecovered
    BY <2>1 DEF EffectsRecovered
  <2>2. ASSUME Inv, InTurn \/ (cut /\ MaxCompactions = 0) PROVE EffectsRecovered
    BY <2>2, Noting, ToolsAccounted
  <2> QED
    BY <2>1, <2>2
<1> QED
  BY <1>1, <1>2, <1>3, PTL DEF Spec
-----------------------------------------------------------------------------
(* What /clear removed                                                     *)

\* What is made anew, and the lines that repair and flattening make of an id.
Passing == {"pending", "known", "summary"} \X Nat
Traces(ids) == {"use", "lost"} \X ids

\* All that a history says, and what repair and flattening may make it say.
SpokenBy(m) == m.text \cup Traces(Ids(m) \cup IF m.role = "tool" THEN {m.id} ELSE {})
Spoken(h) == Mentions(h) \cup Traces(CallIds(h) \cup AnsweredIds(h))

LEMMA SpokenAppend ==
    ASSUME NEW h \in Seq(Msg), NEW m \in Msg
    PROVE  Spoken(Append(h, m)) = Spoken(h) \cup SpokenBy(m)
<1> DEFINE q == Append(h, m)
           T == IF m.role = "tool" THEN {m.id} ELSE {}
<1>1. /\ CallIds(q) = CallIds(h) \cup Ids(m) /\ Mentions(q) = Mentions(h) \cup m.text
      /\ AnsweredIds(q) = AnsweredIds(h) \cup T
  BY AppendContents
<1> HIDE DEF q, T
<1>2. \A u, v : Traces(u \cup v) = Traces(u) \cup Traces(v)
  BY DEF Traces
<1>3. CallIds(q) \cup AnsweredIds(q) = (CallIds(h) \cup AnsweredIds(h)) \cup (Ids(m) \cup T)
  BY <1>1
<1>4. Traces(CallIds(q) \cup AnsweredIds(q))
          = Traces(CallIds(h) \cup AnsweredIds(h)) \cup Traces(Ids(m) \cup T)
  BY <1>2, <1>3
<1>5. Spoken(q) = Spoken(h) \cup (m.text \cup Traces(Ids(m) \cup T))
  BY <1>1, <1>4 DEF Spoken
<1> QED
  BY <1>5 DEF SpokenBy, q, T

\* A message that says no call or result.
LEMMA SpokenPlainly ==
    ASSUME NEW m \in Msg, m.role # "tool", m.calls = <<>>
    PROVE  SpokenBy(m) = m.text
<1>1. Ids(m) = {}
  BY NoCalls
<1> QED
  BY <1>1 DEF SpokenBy, Traces

\* A history is what its messages say.
LEMMA SpokenUnion ==
    ASSUME NEW h \in Seq(Msg)
    PROVE  Spoken(h) = UNION {SpokenBy(m) : m \in ToSet(h)}
<1>1. DOMAIN h = 1 .. Len(h) /\ \A i \in DOMAIN h : h[i] \in Msg
  BY SeqFacts
<1>2. \A x : x \in Mentions(h) <=> \E m \in ToSet(h) : x \in m.text
  BY DEF Mentions, ToSet
<1>3. \A x : x \in AnsweredIds(h) <=> \E m \in ToSet(h) : m.role = "tool" /\ x = m.id
  BY DEF AnsweredIds, ToSet
<1>4. CallIds(h) = UNION {Ids(h[i]) : i \in DOMAIN h}
  BY DEF CallIds, Ids
<1>5. \A x : x \in CallIds(h) <=> \E m \in ToSet(h) : x \in Ids(m)
  BY <1>4 DEF ToSet
<1>6. ASSUME NEW x
      PROVE  x \in Spoken(h) <=> \E m \in ToSet(h) : x \in SpokenBy(m)
  <2>1. x \in Traces(CallIds(h) \cup AnsweredIds(h))
            <=> \E m \in ToSet(h) : x \in Traces(Ids(m) \cup IF m.role = "tool" THEN {m.id} ELSE {})
    <3>1. \A ids : x \in Traces(ids) <=> \E k \in {"use", "lost"}, id \in ids : x = <<k, id>>
      BY DEF Traces
    <3>2. \A id : id \in CallIds(h) \cup AnsweredIds(h)
              <=> \E m \in ToSet(h) : id \in Ids(m) \cup IF m.role = "tool" THEN {m.id} ELSE {}
      BY <1>3, <1>5
    <3>3. ASSUME NEW k \in {"use", "lost"}, NEW id \in CallIds(h) \cup AnsweredIds(h), x = <<k, id>>
          PROVE  \E m \in ToSet(h) : x \in Traces(Ids(m) \cup IF m.role = "tool" THEN {m.id} ELSE {})
      <4>1. PICK m \in ToSet(h) : id \in Ids(m) \cup IF m.role = "tool" THEN {m.id} ELSE {}
        BY <3>2
      <4> QED
        BY <3>1, <3>3, <4>1
    <3>4. ASSUME NEW m \in ToSet(h), x \in Traces(Ids(m) \cup IF m.role = "tool" THEN {m.id} ELSE {})
          PROVE  x \in Traces(CallIds(h) \cup AnsweredIds(h))
      <4>1. PICK k \in {"use", "lost"}, id \in Ids(m) \cup IF m.role = "tool" THEN {m.id} ELSE {} :
                x = <<k, id>>
        BY <3>1, <3>4
      <4>2. id \in CallIds(h) \cup AnsweredIds(h)
        BY <3>2, <4>1
      <4> QED
        BY <3>1, <4>1, <4>2
    <3> QED
      BY <3>1, <3>3, <3>4
  <2> QED
    BY <1>2, <2>1 DEF Spoken, SpokenBy
<1> QED
  BY <1>6

\* Fewer messages, perhaps with a summary, say no more.
LEMMA SpokenFewer ==
    ASSUME NEW h \in Seq(Msg), NEW q \in Seq(Msg), ToSet(q) \subseteq ToSet(h) \cup {Summary}
    PROVE  Spoken(q) \subseteq Spoken(h) \cup Passing
<1>1. SpokenBy(Summary) \subseteq Passing
  <2>1. SpokenBy(Summary) = {<<"summary", 0>>}
    BY SummaryMessage, SpokenPlainly
  <2> QED
    BY <2>1 DEF Passing
<1>2. /\ Spoken(q) = UNION {SpokenBy(m) : m \in ToSet(q)}
      /\ Spoken(h) = UNION {SpokenBy(m) : m \in ToSet(h)}
  BY SpokenUnion
<1> QED
  BY <1>1, <1>2

LEMMA SpokenRepaired ==
    ASSUME NEW h \in Seq(Msg)
    PROVE  Repair(h) \in Seq(Msg) /\ Spoken(Repair(h)) \subseteq Spoken(h)
<1> DEFINE q == Repair(h)
<1>1. q \in Seq(Msg) /\ ToSet(q) \subseteq ToSet(h) \cup {Lost(id) : id \in CallIds(h)}
  BY RepairMade, RepairPairs DEF MadeFrom
<1> HIDE DEF q
<1>2. /\ Spoken(q) = UNION {SpokenBy(m) : m \in ToSet(q)}
      /\ Spoken(h) = UNION {SpokenBy(m) : m \in ToSet(h)}
  BY <1>1, SpokenUnion
<1>3. ASSUME NEW id \in CallIds(h) PROVE SpokenBy(Lost(id)) \subseteq Spoken(h)
  <2>1. /\ Lost(id).text = {<<"lost", id>>} /\ Lost(id).role = "tool" /\ Lost(id).id = id
        /\ Lost(id).calls = <<>>
    BY DEF Lost, ToolResult, Message
  <2>2. Ids(Lost(id)) = {}
    BY <2>1, NoCalls
  <2>3. SpokenBy(Lost(id)) = {<<"lost", id>>} \cup Traces({id})
    BY <2>1, <2>2 DEF SpokenBy
  <2> QED
    BY <1>3, <2>3 DEF Spoken, Traces
<1>4. Spoken(q) \subseteq Spoken(h)
  <2> SUFFICES ASSUME NEW m \in ToSet(q) PROVE SpokenBy(m) \subseteq Spoken(h)
    BY <1>2
  <2>1. CASE m \in ToSet(h)
    BY <1>2, <2>1
  <2>2. CASE \E id \in CallIds(h) : m = Lost(id)
    BY <1>3, <2>2
  <2> QED
    BY <1>1, <2>1, <2>2
<1> QED
  BY <1>1, <1>4 DEF q

LEMMA SpokenNormalised ==
    ASSUME NEW h \in Seq(Msg), NEW flatten \in BOOLEAN
    PROVE  Spoken(Normalise(h, flatten)) \subseteq Spoken(h)
<1> DEFINE g == MergeUsers(h)
<1>1. MergedFrom(g, h)
  BY MergeUsersMerged
<1>2. g \in Seq(Msg) /\ Spoken(g) = Spoken(h)
  BY <1>1 DEF MergedFrom, Spoken
<1> HIDE DEF g
<1>3. CASE flatten
  <2> DEFINE o == Flatten(g)
  <2>1. Flattened(o, g)
    BY <1>2, FlattenFlattens
  <2>2. o \in Seq(Msg) /\ Plain(o) /\ Mentions(o) \subseteq Mentions(g) \cup Uses(g)
    BY <2>1 DEF Flattened
  <2>3. Normalise(h, flatten) = Repair(o)
    BY <1>3 DEF Normalise, g
  <2> HIDE DEF o
  <2>4. Repair(o) = o /\ CallIds(o) = {} /\ AnsweredIds(o) = {}
    BY <2>2, PlainFacts
  <2>5. Spoken(o) = Mentions(o)
    BY <2>4 DEF Spoken, Traces
  <2>6. Uses(g) \subseteq Traces(CallIds(g) \cup AnsweredIds(g))
    BY DEF Uses, Traces
  <2> QED
    BY <1>2, <2>2, <2>3, <2>4, <2>5, <2>6 DEF Spoken
<1>4. CASE ~flatten
  <2>1. Normalise(h, flatten) = Repair(g)
    BY <1>4 DEF Normalise, g
  <2> QED
    BY <1>2, <2>1, SpokenRepaired
<1> QED
  BY <1>3, <1>4

LEMMA SpokenNote ==
    ASSUME NEW o \in Seq(Msg), NEW kind \in {"pending", "known"}, NEW noted, noted \subseteq Call,
           NEW q, q = WithNote(o, kind, noted)
    PROVE  q \in Seq(Msg) /\ Spoken(q) \subseteq Spoken(o) \cup Passing
<1>1. kind \in Kinds
  BY DEF Kinds
<1>2. /\ q \in Seq(Msg) /\ CallIds(q) = CallIds(o) /\ AnsweredIds(q) = AnsweredIds(o)
      /\ Mentions(q) = Mentions(o) \cup Note(kind, noted)
  BY <1>1, NoteKeeps
<1>3. Note(kind, noted) \subseteq Passing
  <2>1. \A c \in noted : c.n \in Nat
    BY DEF Call
  <2> QED
    BY <2>1 DEF Note, Passing
<1> QED
  BY <1>2, <1>3 DEF Spoken

\* The system prompt survives whatever is done to a history.
LEMMA SystemKept ==
    ASSUME NEW h \in Seq(Msg), HasSystem(h)
    PROVE  /\ HasSystem(Repair(h))
           /\ \A flatten \in BOOLEAN : HasSystem(Normalise(h, flatten))
           /\ \A q \in Compactions(h, Keep) : HasSystem(q)
           /\ HasSystem(Kept(h)) /\ \A m \in ToSet(Kept(h)) : m.role = "system"
<1>1. \A q \in Seq(Msg) :
          HasSystem(q) <=> \E m : m \in ToSet(OfRoles(q, {"system"}))
  BY RolesFacts DEF HasSystem
<1>2. ASSUME NEW q \in Seq(Msg), HasSystem(q) PROVE HasSystem(Repair(q))
  <2>1. Repair(q) \in Seq(Msg) /\ OfRoles(Repair(q), {"system"}) = OfRoles(q, {"system"})
    BY RepairPairs, RepairTouchesTools
  <2> QED
    BY <1>1, <1>2, <2>1
<1>3. ASSUME NEW flatten \in BOOLEAN PROVE HasSystem(Normalise(h, flatten))
  <2> DEFINE g == MergeUsers(h)
  <2>1. MergedFrom(g, h)
    BY MergeUsersMerged
  <2>2. g \in Seq(Msg) /\ HasSystem(g)
    BY <2>1 DEF MergedFrom
  <2> HIDE DEF g
  <2> DEFINE o == Flatten(g)
  <2>3. Flattened(o, g)
    BY <2>2, FlattenFlattens
  <2>4. o \in Seq(Msg) /\ HasSystem(o)
    BY <2>2, <2>3 DEF Flattened
  <2>5. Normalise(h, flatten) = IF flatten THEN Repair(o) ELSE Repair(g)
    BY DEF Normalise, g
  <2> HIDE DEF o
  <2>6. HasSystem(Repair(o)) /\ HasSystem(Repair(g))
    BY <1>2, <2>2, <2>4
  <2> QED
    BY <2>5, <2>6
<1>4. ASSUME NEW q \in Compactions(h, Keep) PROVE HasSystem(q)
  <2>1. q \in Seq(Msg) /\ OfRoles(q, {"system"}) = OfRoles(h, {"system"})
    BY CompactedMessages
  <2> QED
    BY <1>1, <2>1
<1>5. HasSystem(Kept(h)) /\ \A m \in ToSet(Kept(h)) : m.role = "system"
  <2>1. /\ OfRoles(h, {"system"}) \in Seq(Msg)
        /\ ToSet(OfRoles(h, {"system"})) = {m \in ToSet(h) : m.role \in {"system"}}
    BY RolesFacts
  <2>2. OfRoles(h, {"system"}) # <<>>
    BY <1>1, EmptyContents
  <2>3. Kept(h) = OfRoles(h, {"system"})
    BY <2>2 DEF Kept
  <2> QED
    BY <2>1, <2>3 DEF HasSystem
<1> QED
  BY <1>2, <1>3, <1>4, <1>5

LEMMA NormaliseEmpty ==
    ASSUME NEW flatten \in BOOLEAN
    PROVE  Normalise(<<>>, flatten) = <<>>
<1>1. 0 \in Nat /\ DOMAIN <<>> = 1 .. 0 /\ <<>> \in Seq(Msg)
  OBVIOUS
<1>2. MergeUsers(<<>>) = <<>>
  <2>1. PICK r : IsRun(r, "merge", "user", <<>>, <<>>, 0) /\ r[0] = MergeUsers(<<>>)
    BY <1>1, MergeUsersRun
  <2> QED
    BY <2>1 DEF IsRun
<1>3. MergeAssistants(<<>>) = <<>>
  <2>1. PICK r : IsRun(r, "merge", "assistant", <<>>, <<>>, 0) /\ r[0] = MergeAssistants(<<>>)
    BY <1>1, MergeAssistantsRun
  <2> QED
    BY <2>1 DEF IsRun
<1>4. Flatten(<<>>) = <<>>
  <2>1. PICK r : IsRun(r, "flatten", 0, FlattenBase, <<>>, 0)
                 /\ r[0] = FoldLeft(FlattenOne, FlattenBase, <<>>)
    BY <1>1, FlattenRun
  <2>2. FoldLeft(FlattenOne, FlattenBase, <<>>) = FlattenBase
    BY <2>1 DEF IsRun
  <2>3. Flatten(<<>>) = LET x == FoldLeft(FlattenOne, FlattenBase, <<>>)
                        IN  MergeAssistants(IF x.open = {} THEN x.out
                                ELSE Append(x.out, Assistant({<<"use", id>> : id \in x.open})))
    BY DEF Flatten, FlattenBase
  <2>4. FlattenBase.out = <<>> /\ FlattenBase.open = {}
    BY DEF FlattenBase
  <2> QED
    BY <1>3, <2>2, <2>3, <2>4
<1>5. Repair(<<>>) = <<>>
  <2>1. Plain(<<>>)
    BY EmptyContents DEF Plain
  <2> QED
    BY <1>1, <2>1, PlainFacts
<1>6. Normalise(<<>>, flatten) = Repair(IF flatten THEN Flatten(MergeUsers(<<>>)) ELSE MergeUsers(<<>>))
  BY DEF Normalise
<1> QED
  BY <1>2, <1>4, <1>5, <1>6

\* A resume from the journal recovers its system prompt and says nothing that
\* the journal does not say, the notes aside.
LEMMA RecoveredSpoken ==
    ASSUME NEW j \in Journal, snapshot \in Seq(Msg), HasSystem(j.messages),
           Replayable(j) \/ snapshot = <<>>
    PROVE  HasSystem(Recovered(j)) /\ Spoken(Recovered(j)) \subseteq Spoken(j.messages) \cup Passing
<1>0. /\ FlattenResume \in BOOLEAN /\ j.messages \in Seq(Msg) /\ j.pending \subseteq Call
      /\ KnownCalls(j) \subseteq Call /\ "pending" \in Kinds /\ "known" \in Kinds
  BY ModesAssumption, JournalType, UnreceivedType DEF Kinds
<1> DEFINE r == Replayed(j)
           p == WithNote(r, "pending", j.pending)
           o == WithNote(p, "known", KnownCalls(j))
           s == Normalise(snapshot, FlattenResume)
<1>1. Recovered(j) = IF Replayable(j) THEN o ELSE IF s # <<>> THEN s ELSE <<System>>
  BY RecoveredIs
<1>2. r \in Seq(Msg) /\ HasSystem(r) /\ Spoken(r) \subseteq Spoken(j.messages)
  BY <1>0, Normalised, SystemKept, SpokenNormalised DEF Replayed
<1>3. snapshot = <<>> => s = <<>>
  BY <1>0, NormaliseEmpty
<1> HIDE DEF r, s
<1>4. p \in Seq(Msg) /\ ToSet(r) \subseteq ToSet(p) /\ Spoken(p) \subseteq Spoken(r) \cup Passing
  BY <1>0, <1>2, NoteKeeps, SpokenNote
<1> HIDE DEF p
<1>5. o \in Seq(Msg) /\ ToSet(p) \subseteq ToSet(o) /\ Spoken(o) \subseteq Spoken(p) \cup Passing
  BY <1>0, <1>4, NoteKeeps, SpokenNote
<1> HIDE DEF o
<1>6. HasSystem(o)
  BY <1>2, <1>4, <1>5 DEF HasSystem
<1>7. Spoken(o) \subseteq Spoken(j.messages) \cup Passing
  BY <1>2, <1>4, <1>5
<1>8. HasSystem(<<System>>) /\ Spoken(<<System>>) = {}
  <2>1. <<System>> = Append(<<>>, System) /\ <<>> \in Seq(Msg)
    OBVIOUS
  <2>2. SpokenBy(System) = {} /\ System \in Msg /\ System.role = "system"
    BY SystemMessage, SpokenPlainly
  <2>3. Spoken(<<>>) = {}
    BY EmptyContents DEF Spoken, Traces
  <2> QED
    BY <2>1, <2>2, <2>3, SpokenAppend, AppendSystem
<1> QED
  BY <1>1, <1>3, <1>6, <1>7, <1>8

\* What is said of turns and calls with these numbers.
OfTurns(S) == {"task", "reply", "stop"} \X S
OfCalls(S) == {"inline", "res", "lost", "use"} \X S

\* What may be said up to turn t and call c, and what turn t may be the first to
\* say: of itself, and of the calls after the first m.
Old(t, c) == OfTurns(0 .. t) \cup OfCalls(0 .. c) \cup Passing
Recent(t, m, c) == OfTurns({t}) \cup OfCalls((m + 1) .. c)

LEMMA OldGrows ==
    ASSUME NEW t \in Int, NEW c \in Nat, NEW u \in Int, NEW d \in Nat, t <= u, c <= d
    PROVE  Old(t, c) \subseteq Old(u, d)
<1>1. 0 .. t \subseteq 0 .. u /\ 0 .. c \subseteq 0 .. d
  OBVIOUS
<1>2. \A S, T : S \subseteq T => OfTurns(S) \subseteq OfTurns(T) /\ OfCalls(S) \subseteq OfCalls(T)
  BY DEF OfTurns, OfCalls
<1>3. OfTurns(0 .. t) \subseteq OfTurns(0 .. u) /\ OfCalls(0 .. c) \subseteq OfCalls(0 .. d)
  BY <1>1, <1>2
<1> QED
  BY <1>3 DEF Old

LEMMA RecentIsNew ==
    ASSUME NEW t \in Nat, NEW m \in Nat, NEW c \in Nat, m <= c
    PROVE  Recent(t, m, c) \cap Old(t - 1, m) = {} /\ Recent(t, m, c) \subseteq Old(t, c)
<1>1. t \notin 0 .. (t - 1) /\ (m + 1) .. c \cap 0 .. m = {}
      /\ {t} \subseteq 0 .. t /\ (m + 1) .. c \subseteq 0 .. c
  OBVIOUS
<1>2. \A S, T : S \subseteq T => OfTurns(S) \subseteq OfTurns(T) /\ OfCalls(S) \subseteq OfCalls(T)
  BY DEF OfTurns, OfCalls
<1>3. OfTurns({t}) \subseteq OfTurns(0 .. t) /\ OfCalls((m + 1) .. c) \subseteq OfCalls(0 .. c)
  BY <1>1, <1>2
<1>4. \A S, T, x : x \in OfTurns(S) /\ x \in OfTurns(T) => \E n : n \in S /\ n \in T
  BY DEF OfTurns
<1>5. \A S, T, x : x \in OfCalls(S) /\ x \in OfCalls(T) => \E n : n \in S /\ n \in T
  BY DEF OfCalls
<1>6. \A S, T, x : x \in OfTurns(S) => x \notin OfCalls(T) /\ x \notin Passing
  BY DEF OfTurns, OfCalls, Passing
<1>7. \A S, x : x \in OfCalls(S) => x \notin Passing
  BY DEF OfCalls, Passing
<1>8. ASSUME NEW x \in OfTurns({t}) PROVE x \notin Old(t - 1, m)
  BY <1>1, <1>4, <1>6 DEF Old
<1>9. ASSUME NEW x \in OfCalls((m + 1) .. c) PROVE x \notin Old(t - 1, m)
  BY <1>1, <1>5, <1>6, <1>7 DEF Old
<1> QED
  BY <1>3, <1>8, <1>9 DEF Recent, Old

\* The calls of the answer being dispatched were made in the latest turn.
NumbersInv ==
    /\ mark \in Nat /\ mark <= calls
    /\ pc \in Dispatching =>
          /\ \A i \in DOMAIN todo : todo[i].n > mark
          /\ \A i \in DOMAIN results : results[i].n > mark /\ results[i].n <= calls

LEMMA NumbersStep ==
    ASSUME TypeInv, CallInv, NumbersInv, Next
    PROVE  NumbersInv'
<1>0. /\ todo \in Seq(Call) /\ results \in Seq(Call) /\ calls \in Nat /\ mark \in Nat /\ mark <= calls
      /\ todo \in Seq(Minted) /\ (pc \in Working \cup {"ended"} => todo # <<>>)
  BY DEF TypeInv, ControlInv, CallInv, CallsInv, NumbersInv
<1>1. mark' \in Nat /\ mark' <= calls' /\ calls <= calls' /\ (pc' \in Dispatching => mark' = mark)
  <2>1. calls' \in Nat /\ calls <= calls'
    <3>1. CASE AnswerCalls
      <4>1. PICK k \in Nat \ {0} : calls' = calls + k
        BY <3>1, SayingSteps
      <4> QED
        BY <1>0, <4>1
    <3> QED
      BY <1>0, <3>1, OtherSteps
  <2>2. mark' = mark \/ mark' = calls
    BY TurnSteps
  <2>3. pc' \in Dispatching => mark' = mark
    <3>1. BeginTurn => pc' \notin Dispatching
      BY DEF BeginTurn, Goto, Dispatching, Working
    <3> QED
      BY <3>1, TurnSteps
  <2> QED
    BY <1>0, <2>1, <2>2, <2>3
<1> SUFFICES ASSUME pc' \in Dispatching
             PROVE  /\ \A i \in DOMAIN todo' : todo'[i].n > mark
                    /\ \A i \in DOMAIN results' : results'[i].n > mark /\ results'[i].n <= calls'
  BY <1>1 DEF NumbersInv
<1>2. CASE AnswerCalls
  <2>1. PICK k \in Nat \ {0} : \E c \in NewCalls(k) : todo' = c /\ calls' = calls + k
    BY <1>2, SayingSteps
  <2>2. PICK c \in NewCalls(k) : todo' = c
    BY <2>1
  <2>3. c \in Seq(Call) /\ Len(c) = k /\ \A i \in 1 .. k : c[i].n = calls + i
    BY <1>0, NewCallsFacts
  <2>4. results' = <<>> /\ DOMAIN c = 1 .. k
    BY <1>2, <2>3 DEF AnswerCalls
  <2>5. \A i \in 1 .. k : calls + i > mark
    BY <1>0
  <2> QED
    BY <2>2, <2>3, <2>4, <2>5
<1>3. CASE ~AnswerCalls
  <2>1. calls' = calls /\ pc \in Dispatching
        /\ \/ todo' = todo /\ results' = results
           \/ pc = "ended" /\ todo' = Tail(todo) /\ results' \in {results, Append(results, Head(todo))}
    <3>1. calls' = calls
      BY <1>3, OtherSteps
    <3>2. \/ AppendResult \/ CollectResult
          \/ StartTool \/ RefuseTool \/ RunTool \/ EndTool
      BY <1>3, DispatchSteps
    <3>3. CASE AppendResult \/ CollectResult
      BY <3>1, <3>3 DEF AppendResult, CollectResult, Goto, Dispatching
    <3>4. CASE StartTool \/ RefuseTool \/ RunTool \/ EndTool
      BY <3>1, <3>4 DEF StartTool, RefuseTool, RunTool, EndTool, Goto, Dispatching, Working, memory
    <3> QED
      BY <3>1, <3>2, <3>3, <3>4
  <2>2. /\ \A i \in DOMAIN todo : todo[i].n > mark
        /\ \A i \in DOMAIN results : results[i].n > mark /\ results[i].n <= calls
    BY <2>1 DEF NumbersInv
  <2>3. CASE todo' = todo /\ results' = results
    BY <2>1, <2>2, <2>3
  <2>4. CASE pc = "ended" /\ todo' = Tail(todo) /\ results' \in {results, Append(results, Head(todo))}
    <3>1. todo # <<>> /\ Head(todo) = todo[1] /\ 1 \in DOMAIN todo /\ todo[1] \in Minted
      BY <1>0, <2>4
    <3>2. \A i \in DOMAIN Tail(todo) : i + 1 \in DOMAIN todo /\ Tail(todo)[i] = todo[i + 1]
      BY <1>0, <3>1
    <3>3. Head(todo) \in Call /\ Head(todo).n > mark /\ Head(todo).n <= calls
      BY <2>2, <3>1 DEF Minted
    <3>4. \A i \in DOMAIN Append(results, Head(todo)) :
              Append(results, Head(todo))[i] = Head(todo)
                  \/ (i \in DOMAIN results /\ Append(results, Head(todo))[i] = results[i])
      BY <1>0, <3>3
    <3> QED
      BY <2>1, <2>2, <2>4, <3>2, <3>3, <3>4
  <2> QED
    BY <2>1, <2>3, <2>4
<1> QED
  BY <1>2, <1>3

\* With durable capture the journal and the live history always have the system
\* prompt, and nothing else is there to resume from before the journal has it.
SystemInv ==
    /\ pc # "down" => HasSystem(messages)
    /\ \/ HasSystem(jr.messages)
       \/ pc = "down" /\ jr.messages = <<>> /\ snapshot = <<>>

\* A start recovers from a journal that has the prompt.
LEMMA WakesWithSystem ==
    ASSUME Capture, TypeInv, SystemInv, NEW j, Wakes(j)
    PROVE  /\ HasSystem(j.messages) /\ HasSystem(Recovered(j))
           /\ Spoken(j.messages) = Spoken(jr.messages)
           /\ Spoken(Recovered(j)) \subseteq Spoken(jr.messages) \cup Passing
<1>0. /\ j \in Journal /\ jr.messages \in Seq(Msg) /\ snapshot \in Seq(Msg)
      /\ j.messages = Append(jr.messages, System) /\ j.some
  BY JournalType DEF TypeInv, HistoriesInv, Wakes
<1>1. System \in Msg /\ System.role = "system" /\ SpokenBy(System) = {}
  BY SystemMessage, SpokenPlainly
<1>2. HasSystem(j.messages) /\ Spoken(j.messages) = Spoken(jr.messages)
  <2>1. HasSystem(Append(jr.messages, System))
    BY <1>0, <1>1, AppendSystem
  <2>2. Spoken(Append(jr.messages, System)) = Spoken(jr.messages) \cup SpokenBy(System)
    BY <1>0, <1>1, SpokenAppend
  <2>3. Spoken(Append(jr.messages, System)) = Spoken(jr.messages)
    BY <1>1, <2>2
  <2> QED
    BY <1>0, <2>1, <2>3
<1>3. Replayable(j) \/ snapshot = <<>>
  <2>1. CASE jr.messages = <<>>
    BY <2>1, EmptyContents DEF SystemInv, HasSystem
  <2>2. CASE jr.messages # <<>>
    <3>1. Len(jr.messages) \in Nat /\ Len(jr.messages) # 0 /\ Len(j.messages) = Len(jr.messages) + 1
      BY <1>0, <1>1, <2>2
    <3>2. Len(j.messages) > 1
      BY <3>1
    <3> QED
      BY <1>0, <3>2 DEF Replayable
  <2> QED
    BY <2>1, <2>2
<1>4. HasSystem(Recovered(j)) /\ Spoken(Recovered(j)) \subseteq Spoken(j.messages) \cup Passing
  BY <1>0, <1>2, <1>3, RecoveredSpoken
<1> QED
  BY <1>2, <1>4

LEMMA SystemStep ==
    ASSUME Capture, TypeInv, SystemInv, Next
    PROVE  SystemInv'
<1>0. messages \in Seq(Msg) /\ jr.messages \in Seq(Msg)
  BY JournalType DEF TypeInv, HistoriesInv
<1>1. CASE Start
  <2>1. PICK j : Wakes(j)
    BY <1>1, WakingStep
  <2>2. HasSystem(j.messages) /\ HasSystem(Recovered(j))
    BY <2>1, WakesWithSystem
  <2> QED
    BY <2>1, <2>2 DEF Wakes, SystemInv
<1>2. CASE ~Start
  <2>0. /\ HasSystem(messages) /\ HasSystem(jr.messages)
        /\ pc' = "down" => Exit \/ Crash \/ CrashSaving
    BY <1>2, OtherSteps DEF SystemInv
  <2>1. ASSUME Quiet PROVE SystemInv'
    BY <2>0, <2>1 DEF Quiet, SystemInv
  <2>2. ASSUME Mends PROVE SystemInv'
    <3>1. HasSystem(Repair(messages))
      BY <1>0, <2>0, SystemKept
    <3> QED
      BY <2>0, <2>2, <3>1 DEF Mends, SystemInv
  <2>3. ASSUME NEW m, Says(m) PROVE SystemInv'
    <3>1. HasSystem(Append(messages, m)) /\ HasSystem(Append(jr.messages, m))
      BY <1>0, <2>0, <2>3, AppendSystem DEF Says
    <3> QED
      BY <2>3, <3>1 DEF Says, SystemInv
  <2>4. ASSUME Joins PROVE SystemInv'
    <3>1. HasSystem(messages')
      BY <1>0, <2>0, <2>4, AlikeSystem DEF Joins, Grown
    <3> QED
      BY <2>4, <3>1 DEF Joins, SystemInv
  <2>5. ASSUME NEW h, HasSystem(h), Becomes(h) PROVE SystemInv'
    BY <2>5 DEF Becomes, SystemInv
  <2>6. ASSUME Ends PROVE SystemInv'
    <3>1. HasSystem(jr'.messages)
      BY <1>0, <2>0, <2>6, SystemKept DEF Ends
    <3> QED
      BY <2>6, <3>1 DEF Ends, SystemInv
  <2>7. CASE BeginTurn \/ PromptBlocked
    BY <2>2, <2>7, MendingSteps
  <2>8. CASE Submit \/ AnswerFinal \/ StopBlocked \/ AppendResult \/ StepDone
    <3>1. Joins \/ Quiet \/ \E m : Says(m)
      BY <2>8, SayingSteps, JoiningStep, QuietSteps
    <3> QED
      BY <2>1, <2>3, <2>4, <3>1
  <2>9. CASE AnswerCalls
    <3>1. \E m : Says(m)
      BY <2>9, SayingSteps
    <3> QED
      BY <2>3, <3>1
  <2>10. CASE CompactAndRetry \/ CompactNow \/ Clear
    <3>1. \E h : Becomes(h) /\ HasSystem(h)
      BY <1>0, <2>0, <2>10, ReplacingSteps, SystemKept
    <3> QED
      BY <2>5, <3>1
  <2>11. CASE Exit \/ Crash \/ CrashSaving
    BY <2>6, <2>11, EndingSteps
  <2>12. CASE \/ Resubmit \/ InterruptedEarly \/ ModelAnswers \/ DoubleBudget \/ TurnAborts
              \/ StartTool \/ RefuseTool \/ RunTool \/ EndTool \/ ToolRaises \/ CollectResult
              \/ ReplyStands \/ EndTurn \/ SaveSnapshot
    BY <2>1, <2>12, QuietSteps
  <2> QED
    BY <1>2, <2>7, <2>8, <2>9, <2>10, <2>11, <2>12 DEF Next, Turn
<1> QED
  BY <1>1, <1>2

\* After a start the history has its system prompt, whatever compactions, /clear,
\* crashes and recoveries came before.
THEOREM PromptIsKept ==
    ASSUME Capture
    PROVE  Spec => []SystemPromptKept
<1>1. Init => TypeInv /\ SystemInv
  BY TypeInit DEF Init, SystemInv, EmptyJournal
<1>2. TypeInv /\ SystemInv /\ [Next]_vars => (TypeInv /\ SystemInv)'
  <2>1. ASSUME TypeInv, SystemInv, [Next]_vars PROVE SystemInv'
    <3>1. CASE Next
      BY <2>1, <3>1, SystemStep
    <3>2. CASE UNCHANGED vars
      BY <2>1, <3>2 DEF vars, disk, memory, SystemInv
    <3> QED
      BY <2>1, <3>1, <3>2
  <2> QED
    BY <2>1, TypeStep
<1>3. SystemInv => SystemPromptKept
  BY DEF SystemInv, SystemPromptKept, HasSystem, ToSet
<1> QED
  BY <1>1, <1>2, <1>3, PTL DEF Spec

\* All that is said in the session, and what a step may add to it.
SpokenHere == Spoken(messages) \cup Spoken(jr.messages)
News == IF InTurn THEN Recent(turns, mark, calls') ELSE {}

\* The messages of the latest turn say what is new.
LEMMA NewsSaid ==
    ASSUME FreshIds, TypeInv, CallInv, NumbersInv
    PROVE  /\ SpokenBy(Task) \cup SpokenBy(Reply) \cup SpokenBy(Objection)
                  \subseteq Recent(turns, mark, calls)
           /\ pc \in Dispatching => SpokenBy(Results) \subseteq Recent(turns, mark, calls)
           /\ pc \in Dispatching /\ todo # <<>> => SpokenBy(Result) \subseteq Recent(turns, mark, calls)
           /\ \A k \in Nat \ {0} : \A c \in NewCalls(k) :
                 SpokenBy(Asking(c)) \subseteq Recent(turns, mark, calls + k)
<1>0. /\ calls \in Nat /\ mark \in Nat /\ mark <= calls /\ turns \in Nat
      /\ todo \in Seq(Minted) /\ results \in Seq(Call)
  BY DEF TypeInv, ControlInv, CallInv, CallsInv, NumbersInv
<1>1. SpokenBy(Task) \cup SpokenBy(Reply) \cup SpokenBy(Objection) \subseteq Recent(turns, mark, calls)
  <2>1. /\ Task \in Msg /\ Task.role = "user" /\ Task.text = {<<"task", turns>>}
        /\ Reply \in Msg /\ Reply.role = "assistant" /\ Reply.calls = <<>>
        /\ Reply.text = {<<"reply", turns>>}
        /\ Objection \in Msg /\ Objection.role = "user" /\ Objection.text = {<<"stop", turns>>}
    BY SessionMessages
  <2>2. Task.calls = <<>> /\ Objection.calls = <<>>
    BY <2>1, MsgFacts
  <2>3. /\ SpokenBy(Task) = {<<"task", turns>>} /\ SpokenBy(Reply) = {<<"reply", turns>>}
        /\ SpokenBy(Objection) = {<<"stop", turns>>}
    BY <2>1, <2>2, SpokenPlainly
  <2> QED
    BY <2>3 DEF Recent, OfTurns
<1>2. ASSUME pc \in Dispatching PROVE SpokenBy(Results) \subseteq Recent(turns, mark, calls)
  <2>1. /\ Results \in Msg /\ Results.role = "user"
        /\ Results.text = {<<"res", results[i].n>> : i \in DOMAIN results}
    BY SessionMessages
  <2>2. Results.calls = <<>>
    BY <2>1, MsgFacts
  <2>3. SpokenBy(Results) = {<<"res", results[i].n>> : i \in DOMAIN results}
    BY <2>1, <2>2, SpokenPlainly
  <2>4. \A i \in DOMAIN results : results[i].n \in (mark + 1) .. calls
    <3>1. \A i \in DOMAIN results : results[i] \in Call
      BY <1>0
    <3>2. \A i \in DOMAIN results : results[i].n \in Nat
      BY <3>1 DEF Call
    <3>3. \A i \in DOMAIN results : results[i].n > mark /\ results[i].n <= calls
      BY <1>2 DEF NumbersInv
    <3> QED
      BY <1>0, <3>2, <3>3
  <2> QED
    BY <2>3, <2>4 DEF Recent, OfCalls
<1>3. ASSUME pc \in Dispatching, todo # <<>>
      PROVE  SpokenBy(Result) \subseteq Recent(turns, mark, calls)
  <2> DEFINE n == Head(todo).n
  <2>1. Head(todo) \in Minted /\ Head(todo) = todo[1] /\ 1 \in DOMAIN todo
    BY <1>0, <1>3
  <2>2. Head(todo).id = n /\ n \in (mark + 1) .. calls
    <3>1. n > mark
      BY <1>3, <2>1 DEF NumbersInv
    <3>2. n \in Nat /\ n <= calls /\ Head(todo).id = n
      BY <2>1 DEF Minted, Call
    <3> QED
      BY <1>0, <3>1, <3>2
  <2>3. /\ Result \in Msg /\ Result.role = "tool" /\ Result.id = Head(todo).id
        /\ Result.text = {<<"res", n>>} /\ Result.calls = <<>>
    BY <1>3, SessionMessages
  <2> HIDE DEF n
  <2>4. Ids(Result) = {}
    BY <2>3, NoCalls
  <2>5. SpokenBy(Result) = {<<"res", n>>} \cup Traces({n})
    BY <2>2, <2>3, <2>4 DEF SpokenBy
  <2> QED
    BY <2>2, <2>5 DEF Traces, Recent, OfCalls
<1>4. ASSUME NEW k \in Nat \ {0}, NEW c \in NewCalls(k)
      PROVE  SpokenBy(Asking(c)) \subseteq Recent(turns, mark, calls + k)
  <2>1. c \in Seq(Call) /\ Len(c) = k /\ \A i \in 1 .. k : c[i].id = calls + i
    BY <1>0, NewCallsFacts DEF FreshIds
  <2>2. /\ Asking(c) \in Msg /\ Asking(c).role = "assistant"
        /\ Structured => Asking(c).calls = c /\ Asking(c).text = {}
        /\ ~Structured => Asking(c).calls = <<>> /\ Asking(c).text = {<<"inline", calls + 1>>}
    BY <2>1, SessionMessages
  <2>3. CASE Structured
    <3>1. Ids(Asking(c)) = {c[i].id : i \in DOMAIN c} /\ DOMAIN c = 1 .. k
      BY <2>1, <2>2, <2>3 DEF Ids
    <3>2. Ids(Asking(c)) \subseteq (mark + 1) .. (calls + k)
      <4>1. \A i \in 1 .. k : calls + i \in (mark + 1) .. (calls + k)
        BY <1>0
      <4> QED
        BY <2>1, <3>1, <4>1
    <3>3. SpokenBy(Asking(c)) = Traces(Ids(Asking(c)))
      <4>1. Ids(Asking(c)) \cup {} = Ids(Asking(c))
        OBVIOUS
      <4>2. Asking(c).role # "tool"
        BY <2>2
      <4> QED
        BY <2>2, <2>3, <4>1, <4>2 DEF SpokenBy
    <3> QED
      BY <3>2, <3>3 DEF Traces, Recent, OfCalls
  <2>4. CASE ~Structured
    <3>1. SpokenBy(Asking(c)) = {<<"inline", calls + 1>>}
      <4>1. Asking(c).role # "tool"
        BY <2>2
      <4> QED
        BY <2>2, <2>4, <4>1, SpokenPlainly
    <3>2. calls + 1 \in (mark + 1) .. (calls + k)
      BY <1>0
    <3> QED
      BY <3>1, <3>2 DEF Recent, OfCalls
  <2> QED
    BY <2>3, <2>4
<1> QED
  BY <1>1, <1>2, <1>3, <1>4

\* A step says what was said before, what is made anew, and what the latest turn
\* has to say.
LEMMA NewsStep ==
    ASSUME FreshIds, Capture, TypeInv, CallInv, NumbersInv, SystemInv, Next
    PROVE  SpokenHere' \subseteq SpokenHere \cup Passing \cup News
<1>0. /\ messages \in Seq(Msg) /\ jr.messages \in Seq(Msg)
      /\ Spoken(messages) \subseteq SpokenHere /\ Spoken(jr.messages) \subseteq SpokenHere
      /\ Spoken(<<>>) = {}
  BY JournalType, EmptyContents DEF TypeInv, HistoriesInv, SpokenHere, Spoken, Traces
<1> DEFINE Goal == SpokenHere' \subseteq SpokenHere \cup Passing \cup News
<1>1. ASSUME Spoken(messages') \subseteq SpokenHere \cup Passing \cup News,
             Spoken(jr'.messages) \subseteq SpokenHere \cup Passing \cup News
      PROVE  Goal
  BY <1>1 DEF SpokenHere
<1> SUFFICES Goal
  BY DEF Goal
<1> HIDE DEF Goal
<1>2. ASSUME Quiet PROVE Goal
  BY <1>0, <1>1, <1>2 DEF Quiet
<1>3. ASSUME Mends PROVE Goal
  <2>1. Spoken(Repair(messages)) \subseteq Spoken(messages)
    BY <1>0, SpokenRepaired
  <2> QED
    BY <1>0, <1>1, <1>3, <2>1 DEF Mends
<1>4. ASSUME NEW m, Says(m), SpokenBy(m) \subseteq News PROVE Goal
  <2>1. /\ Spoken(Append(messages, m)) = Spoken(messages) \cup SpokenBy(m)
        /\ Spoken(Append(jr.messages, m)) = Spoken(jr.messages) \cup SpokenBy(m)
    BY <1>0, <1>4, SpokenAppend DEF Says
  <2> QED
    BY <1>0, <1>1, <1>4, <2>1 DEF Says
<1>5. ASSUME Joins, SpokenBy(Task) \subseteq News PROVE Goal
  <2>1. messages' = MergeOne("user", messages, Task) /\ jr'.messages = messages'
    BY <1>5 DEF Joins
  <2>2. Task \in Msg /\ Task.role = "user"
    BY SessionMessages
  <2>3. Task.calls = <<>> /\ Ids(Task) = {}
    BY <2>2, MsgFacts
  <2>4. Added(messages, Task, messages')
    BY <1>0, <2>1, <2>2, <2>3, MergeOneAdds
  <2>5. Spoken(messages') = Spoken(messages) \cup Task.text
    BY <2>2, <2>3, <2>4 DEF Added, Spoken
  <2>6. Task.text \subseteq SpokenBy(Task)
    BY DEF SpokenBy
  <2> QED
    BY <1>0, <1>1, <1>5, <2>1, <2>5, <2>6
<1>6. ASSUME NEW h \in Seq(Msg), ToSet(h) \subseteq ToSet(messages) \cup {Summary}, Becomes(h) PROVE Goal
  <2>1. Spoken(h) \subseteq Spoken(messages) \cup Passing
    BY <1>0, <1>6, SpokenFewer
  <2> QED
    BY <1>0, <1>1, <1>6, <2>1 DEF Becomes
<1>7. ASSUME NEW h \in Compactions(messages, Keep)
      PROVE  h \in Seq(Msg) /\ ToSet(h) \subseteq ToSet(messages) \cup {Summary}
  BY <1>0, CompactedMessages
<1>8. ASSUME Ends PROVE Goal
  <2>1. Spoken(jr'.messages) \subseteq SpokenHere \cup Passing
    <3>1. CASE jr'.messages = jr.messages
      BY <1>0, <3>1
    <3>2. CASE jr'.messages \in Compactions(messages, Keep)
      <4>1. Spoken(jr'.messages) \subseteq Spoken(messages) \cup Passing
        BY <1>0, <1>7, <3>2, SpokenFewer
      <4> QED
        BY <1>0, <4>1
    <3> QED
      BY <1>8, <3>1, <3>2 DEF Ends
  <2> QED
    BY <1>0, <1>1, <1>8, <2>1 DEF Ends
<1>9. CASE Start
  <2>1. PICK j : Wakes(j)
    BY <1>9, WakingStep
  <2>2. /\ Spoken(j.messages) = Spoken(jr.messages)
        /\ Spoken(Recovered(j)) \subseteq Spoken(jr.messages) \cup Passing
    BY <2>1, WakesWithSystem
  <2> QED
    BY <1>0, <1>1, <2>1, <2>2 DEF Wakes
<1>10. CASE BeginTurn \/ PromptBlocked
  BY <1>3, <1>10, MendingSteps
<1>11. CASE Submit \/ AnswerFinal \/ StopBlocked
  <2>1. InTurn /\ calls' = calls
    BY <1>11 DEF Submit, AnswerFinal, StopBlocked, Goto, InTurn, InLoop, bookkeeping
  <2>2. SpokenBy(Task) \subseteq News /\ SpokenBy(Reply) \subseteq News
        /\ SpokenBy(Objection) \subseteq News
    BY <2>1, NewsSaid DEF News
  <2>3. Joins \/ Says(Task) \/ Says(Reply) \/ Says(Objection)
    BY <1>11, SayingSteps, JoiningStep
  <2> QED
    BY <1>4, <1>5, <2>2, <2>3
<1>12. CASE AppendResult \/ StepDone
  <2>1. InTurn /\ calls' = calls /\ pc \in Dispatching
    BY <1>12 DEF AppendResult, StepDone, Goto, InTurn, InLoop, Dispatching, bookkeeping
  <2>2. AppendResult => todo # <<>>
    BY DEF AppendResult, Goto, TypeInv, ControlInv
  <2>3. /\ SpokenBy(Results) \subseteq News
        /\ todo # <<>> => SpokenBy(Result) \subseteq News
    BY <2>1, NewsSaid DEF News
  <2>4. \/ Quiet \/ Says(Results)
        \/ AppendResult /\ Says(Result)
    BY <1>12, SayingSteps, QuietSteps
  <2> QED
    BY <1>2, <1>4, <2>2, <2>3, <2>4
<1>13. CASE AnswerCalls
  <2>1. PICK k \in Nat \ {0} : \E c \in NewCalls(k) :
            calls' = calls + k /\ todo' = c /\ c \in Seq(Call) /\ Says(Asking(c))
    BY <1>13, SayingSteps
  <2>2. PICK c \in NewCalls(k) : calls' = calls + k /\ Says(Asking(c))
    BY <2>1
  <2>3. InTurn
    BY <1>13 DEF AnswerCalls, Goto, InTurn, InLoop
  <2>4. SpokenBy(Asking(c)) \subseteq News
    BY <2>2, <2>3, NewsSaid DEF News
  <2> QED
    BY <1>4, <2>2, <2>4
<1>14. CASE CompactAndRetry \/ CompactNow
  BY <1>6, <1>7, <1>14, ReplacingSteps
<1>15. CASE Clear
  BY <1>0, <1>6, <1>15, ReplacingSteps, KeptMessages
<1>16. CASE Exit \/ Crash \/ CrashSaving
  BY <1>8, <1>16, EndingSteps
<1>17. CASE \/ Resubmit \/ InterruptedEarly \/ ModelAnswers \/ DoubleBudget \/ TurnAborts
            \/ StartTool \/ RefuseTool \/ RunTool \/ EndTool \/ ToolRaises \/ CollectResult
            \/ ReplyStands \/ EndTurn \/ SaveSnapshot
  BY <1>2, <1>17, QuietSteps
<1> QED
  BY <1>9, <1>10, <1>11, <1>12, <1>13, <1>14, <1>15, <1>16, <1>17 DEF Next, Turn

\* Who counts the turns and what is cleared.
LEMMA ClearedSteps ==
    ASSUME Next
    PROVE  \/ BeginTurn /\ turns' = turns + 1 /\ mark' = calls /\ calls' = calls /\ cleared' = cleared
           \/ Clear /\ turns' = turns /\ mark' = mark /\ calls' = calls
                /\ cleared' = cleared \cup (Mentions(messages) \ Mentions(messages'))
           \/ ~Clear /\ ~BeginTurn /\ turns' = turns /\ mark' = mark /\ cleared' = cleared
<1> USE DEF disk, memory, ghosts, bookkeeping
<1>0. ~(Clear /\ BeginTurn)
  BY DEF Clear, BeginTurn, Goto
<1>1. CASE Clear
  BY <1>1 DEF Clear
<1>2. CASE BeginTurn
  BY <1>2 DEF BeginTurn
<1>3. ASSUME ~Clear, ~BeginTurn PROVE turns' = turns /\ mark' = mark /\ cleared' = cleared
  <2>1. CASE Start \/ CompactNow
    BY <2>1 DEF Start, CompactNow
  <2>2. CASE Exit \/ Crash \/ CrashSaving
    BY <2>2 DEF Exit, Crash, CrashSaving, Stop
  <2>3. CASE PromptBlocked \/ Submit \/ Resubmit \/ InterruptedEarly \/ ModelAnswers
    BY <2>3 DEF PromptBlocked, Submit, Resubmit, InterruptedEarly, ModelAnswers
  <2>4. CASE DoubleBudget \/ TurnAborts \/ CompactAndRetry \/ StartTool \/ RefuseTool \/ RunTool
    BY <2>4 DEF DoubleBudget, TurnAborts, CompactAndRetry, StartTool, RefuseTool, RunTool
  <2>5. CASE EndTool \/ ToolRaises \/ AppendResult \/ CollectResult \/ StepDone
    BY <2>5 DEF EndTool, ToolRaises, AppendResult, CollectResult, StepDone
  <2>6. CASE AnswerFinal \/ StopBlocked \/ ReplyStands \/ EndTurn \/ SaveSnapshot
    BY <2>6 DEF AnswerFinal, StopBlocked, ReplyStands, EndTurn, SaveSnapshot
  <2>7. CASE AnswerCalls
    BY <2>7 DEF AnswerCalls
  <2> QED
    BY <1>3, <2>1, <2>2, <2>3, <2>4, <2>5, <2>6, <2>7 DEF Next, Turn
<1> QED
  BY <1>0, <1>1, <1>2, <1>3

\* Nothing that was cleared is said anywhere; what was cleared is older than
\* the turn that the session is in, so that turn cannot say it again.
ClearInv ==
    /\ SpokenHere \subseteq Old(turns, calls)
    /\ SpokenHere \cap cleared \subseteq Passing
    /\ cleared \subseteq IF InTurn THEN Old(turns - 1, mark) ELSE Old(turns, calls)

LEMMA ClearStep ==
    ASSUME FreshIds, Capture, TypeInv, CallInv, NumbersInv, NumbersInv', SystemInv, ClearInv, Next
    PROVE  ClearInv'
<1>0. /\ calls \in Nat /\ mark \in Nat /\ mark <= calls /\ turns \in Nat
      /\ messages \in Seq(Msg) /\ jr.messages \in Seq(Msg)
      /\ calls' \in Nat /\ calls <= calls' /\ mark' <= calls'
  <2>1. AnswerCalls => calls' \in Nat /\ calls <= calls'
    <3>1. ASSUME NEW k \in Nat \ {0}, calls' = calls + k PROVE calls' \in Nat /\ calls <= calls'
      BY <3>1 DEF TypeInv, ControlInv
    <3> QED
      BY <3>1, SayingSteps
  <2>2. calls \in Nat
    BY DEF TypeInv, ControlInv
  <2>3. calls' \in Nat /\ calls <= calls'
    BY <2>1, <2>2, OtherSteps
  <2> QED
    BY <2>3, JournalType DEF TypeInv, HistoriesInv, ControlInv, NumbersInv
<1>1. SpokenHere' \subseteq SpokenHere \cup Passing \cup News
  BY NewsStep
<1>2. CASE Clear
  <2>1. /\ Becomes(Kept(messages)) /\ turns' = turns /\ mark' = mark /\ calls' = calls
        /\ cleared' = cleared \cup (Mentions(messages) \ Mentions(messages'))
    BY <1>2, ClearedSteps, ReplacingSteps DEF Clear, BeginTurn, Goto
  <2>2. ~InTurn /\ ~InTurn' /\ pc # "down"
    BY <1>2 DEF Clear, Goto, InTurn, InLoop
  <2>3. /\ Kept(messages) \in Seq(Msg) /\ ToSet(Kept(messages)) \subseteq ToSet(messages)
        /\ \A m \in ToSet(Kept(messages)) : m.role = "system"
    BY <1>0, <2>2, SystemKept, KeptMessages DEF SystemInv
  <2>4. SpokenHere' = Spoken(Kept(messages)) /\ messages' = Kept(messages)
    BY <2>1 DEF SpokenHere, Becomes
  <2>5. /\ Spoken(Kept(messages)) = UNION {SpokenBy(m) : m \in ToSet(Kept(messages))}
        /\ Spoken(messages) = UNION {SpokenBy(m) : m \in ToSet(messages)}
    BY <1>0, <2>3, SpokenUnion
  <2>6. SpokenHere' \subseteq Spoken(messages)
    BY <2>3, <2>4, <2>5
  <2>7. Spoken(Kept(messages)) \subseteq Mentions(Kept(messages))
    <3>1. ASSUME NEW m \in ToSet(Kept(messages)) PROVE SpokenBy(m) \subseteq Mentions(Kept(messages))
      <4>1. m \in Msg
        BY <2>3 DEF ToSet
      <4>2. SpokenBy(m) = m.text
        BY <2>3, <4>1, MsgFacts, SpokenPlainly
      <4> QED
        BY <4>2 DEF Mentions, ToSet
    <3> QED
      BY <2>5, <3>1
  <2>8. Spoken(messages) \subseteq SpokenHere /\ Mentions(messages) \subseteq SpokenHere
    BY DEF SpokenHere, Spoken
  <2>9. /\ SpokenHere \subseteq Old(turns, calls) /\ SpokenHere \cap cleared \subseteq Passing
        /\ cleared \subseteq Old(turns, calls)
    BY <2>2 DEF ClearInv
  <2>10. SpokenHere' \subseteq Old(turns', calls')
    BY <2>1, <2>6, <2>8, <2>9
  <2>11. SpokenHere' \cap cleared' \subseteq Passing
    <3>1. SpokenHere' \cap (Mentions(messages) \ Mentions(messages')) = {}
      BY <2>4, <2>7
    <3> QED
      BY <2>1, <2>6, <2>8, <2>9, <3>1
  <2>12. cleared' \subseteq Old(turns', calls')
    BY <2>1, <2>8, <2>9
  <2> QED
    BY <2>2, <2>10, <2>11, <2>12 DEF ClearInv
<1>3. CASE BeginTurn
  <2>1. turns' = turns + 1 /\ mark' = calls /\ calls' = calls /\ cleared' = cleared
    BY <1>3, ClearedSteps DEF Clear, BeginTurn, Goto
  <2>2. ~InTurn /\ InTurn'
    BY <1>3 DEF BeginTurn, Goto, InTurn, InLoop
  <2>3. SpokenHere' \subseteq SpokenHere \cup Passing
    BY <1>1, <2>2 DEF News
  <2>4. /\ SpokenHere \subseteq Old(turns, calls) /\ SpokenHere \cap cleared \subseteq Passing
        /\ cleared \subseteq Old(turns, calls)
    BY <2>2 DEF ClearInv
  <2>5. Old(turns, calls) \subseteq Old(turns', calls') /\ Old(turns' - 1, mark') = Old(turns, calls)
    <3>1. turns' \in Int /\ turns <= turns' /\ turns' - 1 = turns /\ turns \in Int /\ calls <= calls'
      BY <1>0, <2>1
    <3>2. Old(turns, calls) \subseteq Old(turns', calls')
      BY <1>0, <3>1, OldGrows
    <3> QED
      BY <2>1, <3>1, <3>2
  <2>6. SpokenHere' \subseteq Old(turns', calls')
    BY <2>3, <2>4, <2>5 DEF Old
  <2>7. SpokenHere' \cap cleared' \subseteq Passing
    BY <2>1, <2>3, <2>4
  <2> QED
    BY <2>1, <2>2, <2>4, <2>5, <2>6, <2>7 DEF ClearInv
<1>4. CASE ~Clear /\ ~BeginTurn
  <2>1. turns' = turns /\ mark' = mark /\ cleared' = cleared
    BY <1>4, ClearedSteps
  <2>2. InTurn' => InTurn
    BY <1>4, InsideSteps
  <2>3. /\ SpokenHere \subseteq Old(turns, calls) /\ SpokenHere \cap cleared \subseteq Passing
        /\ cleared \subseteq IF InTurn THEN Old(turns - 1, mark) ELSE Old(turns, calls)
    BY DEF ClearInv
  <2>4. /\ Recent(turns, mark, calls') \cap Old(turns - 1, mark) = {}
        /\ Recent(turns, mark, calls') \subseteq Old(turns, calls')
    <3>1. mark <= calls'
      BY <1>0
    <3> QED
      BY <1>0, <3>1, RecentIsNew
  <2>5. /\ Old(turns, calls) \subseteq Old(turns, calls')
        /\ Old(turns - 1, mark) \subseteq Old(turns, calls')
    <3>1. turns \in Int /\ turns - 1 \in Int /\ turns <= turns /\ turns - 1 <= turns /\ mark <= calls'
      BY <1>0
    <3> QED
      BY <1>0, <3>1, OldGrows
  <2>6. News \subseteq Old(turns, calls') /\ News \cap cleared = {}
    BY <2>3, <2>4 DEF News
  <2>7. SpokenHere' \subseteq Old(turns', calls')
    BY <1>1, <2>1, <2>3, <2>5, <2>6 DEF Old
  <2>8. SpokenHere' \cap cleared' \subseteq Passing
    BY <1>1, <2>1, <2>3, <2>6
  <2>9. cleared' \subseteq IF InTurn' THEN Old(turns' - 1, mark') ELSE Old(turns', calls')
    BY <2>1, <2>2, <2>3, <2>5
  <2> QED
    BY <2>7, <2>8, <2>9 DEF ClearInv
<1> QED
  BY <1>2, <1>3, <1>4

\* What /clear removed from the history never comes back, neither from the
\* journal nor from the snapshot, whatever compactions, crashes and resumes follow.
THEOREM ClearIsFinal ==
    ASSUME Capture, FreshIds
    PROVE  Spec => []ClearedStaysCleared
<1> DEFINE Inv == TypeInv /\ CallInv /\ NumbersInv /\ SystemInv /\ ClearInv
<1>1. Init => Inv
  <2> SUFFICES ASSUME Init PROVE Inv
    OBVIOUS
  <2>1. TypeInv /\ CallInv
    BY TypeInit, CallInit
  <2>2. NumbersInv /\ SystemInv
    BY DEF Init, NumbersInv, SystemInv, EmptyJournal, Dispatching, Working
  <2>3. SpokenHere = {}
    BY EmptyContents DEF Init, EmptyJournal, SpokenHere, Spoken, Traces
  <2>4. ClearInv
    BY <2>3 DEF Init, ClearInv
  <2> QED
    BY <2>1, <2>2, <2>4
<1>2. Inv /\ [Next]_vars => Inv'
  <2> SUFFICES ASSUME Inv, [Next]_vars PROVE Inv'
    OBVIOUS
  <2>1. TypeInv' /\ CallInv'
    BY TypeStep, CallStep DEF FreshIds
  <2>2. CASE Next
    <3>1. NumbersInv' /\ SystemInv'
      BY <2>2, NumbersStep, SystemStep
    <3>2. ClearInv'
      BY <2>2, <3>1, ClearStep
    <3> QED
      BY <2>1, <3>1, <3>2
  <2>3. CASE UNCHANGED vars
    <3>1. NumbersInv' /\ SystemInv'
      BY <2>3 DEF vars, disk, memory, bookkeeping, ghosts, NumbersInv, SystemInv
    <3>2. ClearInv'
      BY <2>3 DEF vars, disk, memory, bookkeeping, ghosts, ClearInv, SpokenHere, InTurn
    <3> QED
      BY <2>1, <3>1, <3>2
  <2> QED
    BY <2>2, <2>3
<1>3. Inv => ClearedStaysCleared
  <2> SUFFICES ASSUME Inv, NEW x \in Told(messages), x \in cleared PROVE FALSE
    BY DEF ClearedStaysCleared
  <2>1. x \in SpokenHere /\ x[1] \notin {"pending", "known", "summary"}
    BY DEF Told, SpokenHere, Spoken
  <2>2. x \in Passing
    BY <2>1 DEF ClearInv
  <2>3. x[1] \in {"pending", "known", "summary"}
    BY <2>2 DEF Passing
  <2> QED
    BY <2>1, <2>3
<1> QED
  BY <1>1, <1>2, <1>3, PTL DEF Spec
-----------------------------------------------------------------------------
(* The journal and the live history say the same                           *)

LEMMA DueStep ==
    ASSUME TypeInv, DueInv, Next
    PROVE  DueInv'
<1> SUFFICES ASSUME pc' \in Dispatching
             PROVE  \A a, b \in 1 .. Len(todo') : todo'[a].id = todo'[b].id => a = b
  BY DEF DueInv
<1>0. todo \in Seq(Call)
  BY DEF TypeInv, ControlInv
<1>1. CASE AnswerCalls
  <2>1. PICK k \in Nat \ {0} : \E c \in NewCalls(k) : todo' = c
    BY <1>1, SayingSteps
  <2>2. PICK c \in NewCalls(k) : todo' = c
    BY <2>1
  <2>3. calls \in Nat /\ k \in Nat
    BY DEF TypeInv, ControlInv
  <2>4. c \in Seq(Call) /\ IsInjective(Due(c))
    BY <2>3, NewCallsFacts
  <2>5. DOMAIN Due(c) = 1 .. Len(c) /\ \A i \in 1 .. Len(c) : Due(c)[i] = c[i].id
    BY <2>4, DueFacts DEF Due
  <2>6. \A a, b \in 1 .. Len(c) : c[a].id = c[b].id => a = b
    BY <2>4, <2>5 DEF IsInjective
  <2> QED
    BY <2>2, <2>6
<1>2. CASE AppendResult \/ CollectResult
  <2>1. pc = "ended" /\ todo' = Tail(todo) /\ todo # <<>>
    BY <1>2 DEF AppendResult, CollectResult, Goto, TypeInv, ControlInv
  <2>2. \A a, b \in 1 .. Len(todo) : todo[a].id = todo[b].id => a = b
    BY <2>1 DEF DueInv, Dispatching
  <2>3. /\ Len(todo) \in Nat /\ Len(Tail(todo)) = Len(todo) - 1
        /\ \A i \in 1 .. (Len(todo) - 1) : Tail(todo)[i] = todo[i + 1]
    BY <1>0, <2>1
  <2> SUFFICES ASSUME NEW a \in 1 .. (Len(todo) - 1), NEW b \in 1 .. (Len(todo) - 1),
                      todo[a + 1].id = todo[b + 1].id
               PROVE  a = b
    BY <2>1, <2>3
  <2>4. a + 1 \in 1 .. Len(todo) /\ b + 1 \in 1 .. Len(todo)
    BY <2>3
  <2>5. a + 1 = b + 1
    BY <2>2, <2>4
  <2> QED
    BY <2>5
<1>3. CASE StartTool \/ RefuseTool \/ RunTool \/ EndTool
  <2>1. pc \in Dispatching /\ todo' = todo
    BY <1>3 DEF StartTool, RefuseTool, RunTool, EndTool, memory, Goto, Dispatching, Working
  <2> QED
    BY <2>1 DEF DueInv
<1> QED
  BY <1>1, <1>2, <1>3, DispatchSteps

\* A note leaves the conversation as it is.
LEMMA NoteAside ==
    ASSUME NEW h \in Seq(Msg), NEW kind \in {"pending", "known"}, NEW noted, noted \subseteq Call
    PROVE  /\ WithNote(h, kind, noted) \in Seq(Msg)
           /\ Conversation(WithNote(h, kind, noted)) = Conversation(h)
<1>0. kind \in Kinds
  BY DEF Kinds
<1>1. WithNote(h, kind, noted) \in Seq(Msg)
  BY <1>0, NoteKeeps
<1>2. CASE noted = {}
  BY <1>1, <1>2 DEF WithNote
<1>3. CASE noted # {}
  <2> DEFINE x == Note(kind, noted)
             m == User(x)
  <2>1. m \in Msg /\ m.role = "user" /\ m.text = x
    BY <1>0, NoteText, MadeMessages
  <2>2. \A y \in x : y[1] \in {"pending", "known"}
    BY DEF Note
  <2> HIDE DEF x, m
  <2>3. Unnoted(m).role = "user" /\ Unnoted(m).text = {}
    BY <2>1, <2>2, UnnotedFacts
  <2>4. Aside(Unnoted(m))
    BY <2>3 DEF Aside
  <2>5. Conversation(Append(h, m)) = Conversation(h)
    BY <2>1, <2>4, StandingStays
  <2> QED
    BY <1>1, <1>3, <2>5 DEF WithNote, m, x
<1> QED
  BY <1>2, <1>3

\* The journal replays to what the live history says, and while an answer's
\* calls are dispatched the same of them are open in both.
SameInv ==
    pc # "down" =>
        /\ Conversation(messages) = Conversation(jr.messages)
        /\ Structured /\ pc \in Dispatching => Standing(messages) = Standing(jr.messages)

\* A resume says what the journal says.
LEMMA SameStart ==
    ASSUME Capture, ~FlattenResume, TypeInv, SystemInv, FeedsInv, NEW j, Wakes(j)
    PROVE  Conversation(Recovered(j)) = Conversation(j.messages)
<1>0. /\ j \in Journal /\ jr.messages \in Seq(Msg) /\ j.messages \in Seq(Msg)
      /\ snapshot \in Seq(Msg) /\ j.messages = Append(jr.messages, System) /\ j.some
      /\ System \in Msg /\ System.role = "system" /\ FlattenResume = FALSE
  BY JournalType, SystemMessage, ModesAssumption DEF TypeInv, HistoriesInv, Wakes
<1>1. FeedsSome(j.messages)
  BY <1>0, FeedsAppend DEF FeedsInv, FeedsAll
<1>2. CASE Replayable(j)
  <2> DEFINE r == Replayed(j)
             p == WithNote(r, "pending", j.pending)
             o == WithNote(p, "known", KnownCalls(j))
  <2>1. r \in Seq(Msg) /\ Conversation(r) = Conversation(j.messages)
    BY <1>0, <1>1, Normalised, NormaliseTalk DEF Replayed
  <2>2. Recovered(j) = o
    BY <1>0, <1>2, RecoveredIs
  <2>3. j.pending \subseteq Call /\ KnownCalls(j) \subseteq Call
    BY <1>0, JournalType, UnreceivedType
  <2> HIDE DEF r
  <2>4. p \in Seq(Msg) /\ Conversation(p) = Conversation(r)
    BY <2>1, <2>3, NoteAside
  <2> HIDE DEF p
  <2>5. Conversation(o) = Conversation(p)
    BY <2>3, <2>4, NoteAside
  <2> QED
    BY <2>1, <2>2, <2>4, <2>5
<1>3. CASE ~Replayable(j)
  <2>1. jr.messages = <<>>
    <3>1. ~(Len(j.messages) > 1)
      BY <1>0, <1>3 DEF Replayable
    <3>2. Len(j.messages) = Len(jr.messages) + 1 /\ Len(jr.messages) \in Nat
      BY <1>0
    <3> QED
      BY <1>0, <3>1, <3>2
  <2>2. snapshot = <<>>
    BY <2>1, EmptyContents DEF SystemInv, HasSystem
  <2>3. Normalise(snapshot, FlattenResume) = <<>>
    BY <1>0, <2>2, NormaliseEmpty
  <2>4. Recovered(j) = <<System>>
    BY <1>0, <1>3, <2>3, RecoveredIs
  <2>5. j.messages = <<System>>
    BY <1>0, <2>1
  <2> QED
    BY <2>4, <2>5
<1> QED
  BY <1>2, <1>3

\* A step that leaves the session running leaves the two with the same to say.
LEMMA SpeaksStep ==
    ASSUME Capture, ~FlattenResume, TypeInv, SystemInv, FeedsInv, SameInv, Next, pc' # "down"
    PROVE  Conversation(messages') = Conversation(jr'.messages)
<1>0. /\ messages \in Seq(Msg) /\ jr.messages \in Seq(Msg)
      /\ FeedsSome(messages) /\ FeedsSome(jr.messages)
  BY JournalType DEF TypeInv, HistoriesInv, FeedsInv, FeedsAll
<1>1. CASE Start
  <2>1. PICK j : Wakes(j)
    BY <1>1, WakingStep
  <2>2. Conversation(Recovered(j)) = Conversation(j.messages)
    BY <2>1, SameStart
  <2> QED
    BY <2>1, <2>2 DEF Wakes
<1>2. CASE ~Start
  <2>0. /\ pc # "down" /\ Conversation(messages) = Conversation(jr.messages)
        /\ ~(Exit \/ Crash \/ CrashSaving)
    BY <1>2, OtherSteps, EndingSteps DEF SameInv, Ends
  <2> DEFINE Same == Conversation(messages') = Conversation(jr'.messages)
  <2>1. Quiet => Same
    BY <2>0 DEF Quiet
  <2>2. Mends => Same
    BY <1>0, <2>0, RepairTalk DEF Mends
  <2>3. ASSUME NEW m, Says(m), m.role # "tool" PROVE Same
    <3>1. Conversation(Append(messages, m)) = Conversation(Append(jr.messages, m))
      BY <1>0, <2>0, <2>3, BothHear DEF Says
    <3> QED
      BY <2>3, <3>1 DEF Says
  <2>4. Joins => Same
    BY DEF Joins
  <2>5. ASSUME NEW h, Becomes(h) PROVE Same
    BY <2>5 DEF Becomes
  <2> SUFFICES Same
    OBVIOUS
  <2> HIDE DEF Same
  <2>6. CASE BeginTurn \/ PromptBlocked
    BY <2>2, <2>6, MendingSteps
  <2>7. CASE Submit \/ AnswerFinal \/ StopBlocked \/ StepDone
    <3>1. Joins \/ Quiet \/ Says(Task) \/ Says(Reply) \/ Says(Objection) \/ Says(Results)
      BY <2>7, SayingSteps, JoiningStep, QuietSteps
    <3>2. /\ Task.role = "user" /\ Reply.role = "assistant" /\ Objection.role = "user"
          /\ Results.role = "user"
      BY SessionMessages
    <3>3. /\ Task.role # "tool" /\ Reply.role # "tool" /\ Objection.role # "tool"
          /\ Results.role # "tool"
      BY <3>2
    <3> QED
      BY <2>1, <2>3, <2>4, <3>1, <3>3
  <2>8. CASE AppendResult
    <3>1. pc = "ended" /\ Says(Result) /\ Structured /\ Result.role = "tool"
      BY <2>8, SayingSteps, SessionMessages DEF AppendResult, Goto, TypeInv, ControlInv
    <3>2. Standing(messages) = Standing(jr.messages)
      BY <3>1 DEF SameInv, Dispatching
    <3>3. Conversation(Append(messages, Result)) = Conversation(Append(jr.messages, Result))
      BY <1>0, <3>1, <3>2, BothAnswered DEF Says
    <3> QED
      BY <3>1, <3>3 DEF Says, Same
  <2>9. CASE AnswerCalls
    <3>1. PICK c : c \in Seq(Call) /\ Says(Asking(c))
      BY <2>9, SayingSteps
    <3>2. Asking(c).role = "assistant"
      BY <3>1, SessionMessages
    <3>3. Asking(c).role # "tool"
      BY <3>2
    <3> QED
      BY <2>3, <3>1, <3>3
  <2>10. CASE CompactAndRetry \/ CompactNow \/ Clear
    <3>1. \E h : Becomes(h)
      BY <2>10, ReplacingSteps
    <3> QED
      BY <2>5, <3>1
  <2>11. CASE \/ Resubmit \/ InterruptedEarly \/ ModelAnswers \/ DoubleBudget \/ TurnAborts
              \/ StartTool \/ RefuseTool \/ RunTool \/ EndTool \/ ToolRaises \/ CollectResult
              \/ ReplyStands \/ EndTurn \/ SaveSnapshot
    BY <2>1, <2>11, QuietSteps
  <2> QED
    BY <1>2, <2>0, <2>6, <2>7, <2>8, <2>9, <2>10, <2>11 DEF Next, Turn
<1> QED
  BY <1>1, <1>2

\* While calls are dispatched, the same of them stay open in both.
LEMMA StandsStep ==
    ASSUME ~FlattenResume, Structured, TypeInv, FeedsInv, SameInv, Next, pc' \in Dispatching
    PROVE  Standing(messages') = Standing(jr'.messages)
<1>0. /\ messages \in Seq(Msg) /\ jr.messages \in Seq(Msg)
      /\ FeedsSome(messages) /\ FeedsSome(jr.messages)
  BY JournalType DEF TypeInv, HistoriesInv, FeedsInv, FeedsAll
<1>1. CASE AnswerCalls
  <2>1. pc = "answered"
    BY <1>1 DEF AnswerCalls, Goto
  <2>2. Conversation(messages) = Conversation(jr.messages)
    BY <2>1 DEF SameInv
  <2>3. PICK c : c \in Seq(Call) /\ Says(Asking(c))
    BY <1>1, SayingSteps
  <2> DEFINE m == Asking(c)
  <2>4. m \in Msg /\ m.role = "assistant" /\ Says(m)
    BY <2>3, SessionMessages
  <2> HIDE DEF m
  <2>5. Standing(Append(messages, m)) = Standing(Append(jr.messages, m))
    BY <1>0, <2>2, <2>4, BothHear
  <2> QED
    BY <2>4, <2>5 DEF Says
<1>2. CASE AppendResult
  <2>1. pc = "ended" /\ Says(Result) /\ Result.role = "tool"
    BY <1>2, SayingSteps, SessionMessages DEF AppendResult, Goto, TypeInv, ControlInv
  <2>2. Standing(messages) = Standing(jr.messages)
    BY <2>1 DEF SameInv, Dispatching
  <2>3. Standing(Append(messages, Result)) = Standing(Append(jr.messages, Result))
    BY <1>0, <2>1, <2>2, BothAnswered DEF Says
  <2> QED
    BY <2>1, <2>3 DEF Says
<1>3. CASE StartTool \/ RefuseTool \/ RunTool \/ EndTool
  <2>1. pc \in Dispatching /\ messages' = messages
    BY <1>3 DEF StartTool, RefuseTool, RunTool, EndTool, memory, Goto, Dispatching, Working
  <2>2. jr'.messages = jr.messages
    BY <1>3, QuietSteps DEF Quiet
  <2>3. pc # "down"
    BY <2>1 DEF Dispatching, Working
  <2> QED
    BY <2>1, <2>2, <2>3 DEF SameInv
<1>4. ~CollectResult
  BY DEF CollectResult
<1> QED
  BY <1>1, <1>2, <1>3, <1>4, DispatchSteps

\* With durable capture on, the journal replays at every moment to what the live
\* history says: repairs, merges, interruptions, compactions, /clear, Stop
\* hooks, crashes and earlier recoveries included, and whatever ids the provider
\* gives its calls.
THEOREM JournalAlwaysHistory ==
    ASSUME Capture, ~FlattenResume
    PROVE  Spec => []JournalIsHistory
<1> DEFINE Inv == TypeInv /\ IdsInv /\ SystemInv /\ DueInv /\ FeedsInv /\ SameInv
<1>1. Init => Inv
  <2> SUFFICES ASSUME Init PROVE Inv
    OBVIOUS
  <2>1. jr.messages = <<>> /\ messages = <<>> /\ snapshot = <<>> /\ pc = "down" /\ calls = 0
    BY DEF Init, EmptyJournal
  <2>2. IdsInv
    BY <2>1, EmptyContents DEF IdsInv
  <2>3. SystemInv /\ DueInv /\ SameInv
    BY <2>1 DEF SystemInv, DueInv, SameInv, Dispatching, Working
  <2>4. FeedsInv
    BY <2>1, FeedsNone DEF FeedsInv, FeedsAll, Dispatching, Working
  <2> QED
    BY <2>2, <2>3, <2>4, TypeInit
<1>2. Inv /\ [Next]_vars => Inv'
  <2> SUFFICES ASSUME Inv, [Next]_vars PROVE Inv'
    OBVIOUS
  <2>1. TypeInv'
    BY TypeStep
  <2>2. CASE Next
    <3>1. IdsInv' /\ SystemInv'
      BY <2>2, IdsStep, SystemStep DEF OneCallPerId
    <3>2. DueInv' /\ FeedsInv'
      BY <2>2, DueStep, FeedsInvStep
    <3>3. SameInv'
      BY <2>2, SpeaksStep, StandsStep DEF SameInv
    <3> QED
      BY <2>1, <3>1, <3>2, <3>3
  <2>3. CASE UNCHANGED vars
    <3>1. IdsInv' /\ SystemInv' /\ DueInv'
      BY <2>3 DEF vars, disk, memory, bookkeeping, ghosts, IdsInv, SystemInv, DueInv
    <3>2. FeedsInv' /\ SameInv'
      BY <2>3 DEF vars, disk, memory, bookkeeping, ghosts, FeedsInv, FeedsAll, SameInv
    <3> QED
      BY <2>1, <3>1, <3>2
  <2> QED
    BY <2>2, <2>3
<1>3. Inv => JournalIsHistory
  BY DEF SameInv, JournalIsHistory
<1> QED
  BY <1>1, <1>2, <1>3, PTL DEF Spec
=============================================================================
