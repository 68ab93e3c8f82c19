--------------------------- MODULE ToolBatchProofs ---------------------------
(***************************************************************************)
(* Proofs about ToolBatch, for any number of calls, workers and answers:   *)
(* that results are complete and in order, that contexts and times go      *)
(* where they belong, and that a cancellation stops the command and what   *)
(* would follow it.                                                        *)
(***************************************************************************)
EXTENDS ToolBatch, FiniteSetTheorems, TLAPS

-----------------------------------------------------------------------------
(* Types                                                                   *)

Flags ==
    /\ parallel \in BOOLEAN /\ aborted \in BOOLEAN /\ cancelled \in BOOLEAN
    /\ lost \in BOOLEAN

Answers ==
    /\ turn \in {"idle", "asking", "calling", "appending", "unwinding"}
    /\ batch \in 0 .. MaxBatches
    /\ kind \in [Calls -> Kinds] /\ pc \in [Calls -> Places]
    /\ messages \in Seq(Calls) /\ footer \in [Calls -> Calls \cup {None}]

Shared ==
    /\ active \in Calls \cup {None} /\ span \in Calls \cup {None}
    /\ alive \subseteq Calls /\ signalled \subseteq Calls /\ late \subseteq Calls
    /\ strays \subseteq Places
    /\ contexts \subseteq Threads /\ hold \in [Threads -> BOOLEAN]
    /\ hook \in {"none", "fetched", "over"}
    /\ unshown \subseteq Calls /\ extra \subseteq unshown

LEMMA TypeParts == TypeOK <=> Flags /\ Answers /\ Shared
  BY Zenon DEF TypeOK, Flags, Answers, Shared

LEMMA SomeKind == [c \in Calls |-> CHOOSE k \in Kinds : TRUE] \in [Calls -> Kinds]
  BY BatchAssumption

\* The answer's calls are cut short, with or without a signal.
Cut == Abort(signalled) \/ Abort(Terminated)

LEMMA ForgetTypes ==
    ASSUME NEW sent, Forget(sent)
    PROVE  /\ kind' \in [Calls -> Kinds] /\ pc' \in [Calls -> Places]
           /\ footer' \in [Calls -> Calls \cup {None}]
           /\ alive' \subseteq Calls /\ signalled' \subseteq Calls /\ late' \subseteq Calls
           /\ pc \in [Calls -> Places] /\ alive \subseteq Calls /\ strays \subseteq Places
              => strays' \subseteq Places
<1>1. pc \in [Calls -> Places] /\ alive \subseteq Calls /\ strays \subseteq Places
         => strays' \subseteq Places
  BY DEF Forget
<1> QED
  BY <1>1, SomeKind DEF Forget, Places

LEMMA FlagsStep == Flags /\ [Next]_vars => Flags'
<1> SUFFICES ASSUME Flags, [Next]_vars PROVE Flags'
  OBVIOUS
<1>1. ASSUME \/ BeginTurn \/ Answer \/ EndTurn \/ Cancel \/ Interrupt \/ Results
             \/ HookEnds \/ UNCHANGED vars
      PROVE  Flags'
  BY <1>1, Zenon
     DEF Flags, BeginTurn, Answer, EndTurn, Cancel, Interrupt, Results, HookEnds, vars,
         LeavePool, SeeCancelled, StepDone, Take, Abort, context, stopping, main
<1>2. CASE HookQueues
  BY <1>2, Zenon DEF Flags, HookQueues, Queue, main, stopping
<1>3. ASSUME NEW c \in Calls, Call(c) PROVE Flags'
  BY <1>3, Zenon
     DEF Flags, Call, Pass, Start, Register, ToolReturns, ToolRaises, PostHooks,
         QueueContext, WriteFailure, Stamp, Deliver, Queue, Abort, main, context, stopping
<1> QED
  BY <1>1, <1>2, <1>3 DEF Next

LEMMA AnswersStep == Answers /\ Shared /\ [Next]_vars => Answers'
<1> SUFFICES ASSUME Answers, Shared, [Next]_vars PROVE Answers'
  OBVIOUS
<1> USE BatchAssumption
<1>1. CASE BeginTurn
  BY <1>1 DEF BeginTurn, Answers, timing
<1>2. CASE Answer
  BY <1>2 DEF Answer, Answers, timing, Places
<1>3. CASE EndTurn
  BY <1>3, ForgetTypes DEF EndTurn, Answers
<1>4. CASE Cancel
  BY <1>4 DEF Cancel, Answers, main, timing
<1>5. CASE Cut
  <2>1. ASSUME NEW sent, Abort(sent) PROVE Answers'
    <3>1. Forget(sent) /\ turn' = "idle" /\ batch' = batch /\ messages' = <<>>
      BY <2>1 DEF Abort
    <3> QED
      BY <3>1, ForgetTypes DEF Answers
  <2> QED
    BY <1>5, <2>1 DEF Cut
<1>6. CASE Interrupt \/ LeavePool \/ SeeCancelled
  BY <1>5, <1>6 DEF Cut, Interrupt, LeavePool, SeeCancelled, Answers
<1>7. CASE StepDone
  BY <1>7, ForgetTypes DEF StepDone, Answers
<1>8. ASSUME NEW c \in Calls, Take(c) PROVE Answers'
  BY <1>8 DEF Take, Answers, timing
<1>9. CASE HookEnds \/ HookQueues \/ UNCHANGED vars
  BY <1>9 DEF HookEnds, HookQueues, vars, Answers, main, timing
<1>10. ASSUME NEW c \in Calls, Call(c) PROVE Answers'
  <2>1. ASSUME NEW place \in Places, Go(c, place), UNCHANGED <<main, footer>>
        PROVE  Answers'
    BY <2>1 DEF Answers, Go, main
  <2>2. CASE Stamp(c)
    <3>1. footer' \in [Calls -> Calls \cup {None}]
      BY <2>2 DEF Stamp, Answers, Shared
    <3> QED
      BY <2>2, <3>1 DEF Stamp, Answers, Go, main, Places
  <2> QED
    BY <1>5, <1>10, <2>1, <2>2
       DEF Cut, Call, Pass, Start, Register, ToolReturns, ToolRaises, PostHooks,
           QueueContext, WriteFailure, Deliver, Places, timing
<1> QED
  BY <1>1, <1>2, <1>3, <1>4, <1>6, <1>7, <1>8, <1>9, <1>10 DEF Next, Results

LEMMA SharedStep == Answers /\ Shared /\ [Next]_vars => Shared'
<1> SUFFICES ASSUME Answers, Shared, [Next]_vars PROVE Shared'
  OBVIOUS
<1>0. pc \in [Calls -> Places]
  BY DEF Answers
<1>1. CASE UNCHANGED <<process, span, context, late, reveal>>
  BY <1>1 DEF Shared, process, context, reveal
<1>2. ASSUME BeginTurn \/ Answer \/ UNCHANGED vars \/ \E c \in Calls : Take(c)
      PROVE  UNCHANGED <<process, span, context, late, reveal>>
  BY <1>2 DEF BeginTurn, Answer, Take, vars, process, timing, context, stopping, reveal
<1>3. CASE EndTurn
  BY <1>0, <1>3, ForgetTypes DEF EndTurn, Shared, context, reveal
<1>4. CASE Cancel
  BY <1>4 DEF Cancel, Terminated, Shared, timing, context, reveal
<1>5. ASSUME Cut, active' \in {active, None}, UNCHANGED <<span, contexts, hook, unshown>>,
             hold' \in [Threads -> BOOLEAN]
      PROVE  Shared'
  BY <1>0, <1>5, ForgetTypes DEF Cut, Abort, Shared
<1>6. CASE LeavePool \/ SeeCancelled
  BY <1>5, <1>6 DEF Cut, LeavePool, SeeCancelled, context, Shared
<1>7. CASE Interrupt
  <2>1. CASE parallel
    BY <1>7, <2>1 DEF Interrupt, Terminated, Shared, stopping
  <2>2. CASE ~parallel
    <3>1. hold' \in [Threads -> BOOLEAN]
      BY <1>7, <2>2, Zenon DEF Interrupt, Shared
    <3> QED
      BY <1>5, <1>7, <2>2, <3>1 DEF Cut, Interrupt
  <2> QED
    BY <2>1, <2>2
<1>8. CASE StepDone
  BY <1>0, <1>8, ForgetTypes DEF StepDone, Shared, context
<1>9. CASE HookEnds
  BY <1>9 DEF HookEnds, Shared, process, timing, stopping, reveal, Threads
<1>10. ASSUME NEW t \in Threads, Queue(t), hook' \in {hook, "over"},
              UNCHANGED <<process, span, late, reveal>>
       PROVE  Shared'
  BY <1>10 DEF Queue, Shared, process, reveal
<1>11. CASE HookQueues
  BY <1>10, <1>11 DEF HookQueues, timing, stopping, Threads
<1>12. ASSUME NEW c \in Calls, Call(c) PROVE Shared'
  <2>0. c \in Threads
    BY DEF Threads
  <2>1. CASE Pass(c) \/ WriteFailure(c)
    BY <1>1, <2>1 DEF Pass, WriteFailure, timing, stopping
  <2>2. CASE Start(c)
    BY <2>2 DEF Start, Shared, timing, context, reveal
  <2>3. CASE Register(c)
    BY <2>3 DEF Register, Shared, timing, context, stopping, reveal
  <2>4. CASE ToolReturns(c)
    BY <2>4 DEF ToolReturns, Shared, context, stopping, reveal
  <2>5. CASE ToolRaises(c)
    <3>1. CASE parallel
      BY <2>5, <3>1 DEF ToolRaises, Shared, context, stopping
    <3>2. CASE ~parallel
      BY <1>5, <2>5, <3>2 DEF Cut, ToolRaises, context, Shared
    <3> QED
      BY <3>1, <3>2
  <2>6. CASE PostHooks(c)
    BY <2>0, <2>6 DEF PostHooks, Shared, process, timing, stopping, reveal
  <2>7. CASE QueueContext(c)
    BY <1>10, <2>0, <2>7 DEF QueueContext, timing, stopping
  <2>8. CASE Stamp(c)
    BY <2>8 DEF Stamp, Shared, process, context, stopping, reveal
  <2>9. CASE Deliver(c)
    BY <2>9 DEF Deliver, Shared, process, timing, stopping, reveal
  <2> QED
    BY <1>12, <2>1, <2>2, <2>3, <2>4, <2>5, <2>6, <2>7, <2>8, <2>9 DEF Call
<1> QED
  BY <1>1, <1>2, <1>3, <1>4, <1>6, <1>7, <1>8, <1>9, <1>11, <1>12 DEF Next, Results

LEMMA TypeInit == Init => TypeOK
<1>1. Init => Flags
  BY Zenon DEF Init, Flags
<1>2. Init => Answers
  BY SomeKind, BatchAssumption DEF Init, Answers, Places
<1>3. Init => Shared
  BY DEF Init, Shared
<1> QED
  BY <1>1, <1>2, <1>3, TypeParts

LEMMA TypeStep == TypeOK /\ [Next]_vars => TypeOK'
<1>1. TypeOK /\ [Next]_vars => Flags' /\ Answers' /\ Shared'
  BY TypeParts, FlagsStep, AnswersStep, SharedStep
<1>2. Flags' /\ Answers' /\ Shared' => TypeOK'
  BY Zenon DEF TypeOK, Flags, Answers, Shared
<1> QED
  BY <1>1, <1>2

-----------------------------------------------------------------------------
(* The invariant                                                           *)

\* The results taken so far are those of the first calls, which are over; out of
\* an answer no call is under way, and only commands have a process.
ResultsInv ==
    /\ \A i \in DOMAIN messages : messages[i] = i /\ pc[i] = "done"
    /\ turn = "idle" => messages = <<>>
    /\ turn = "asking" => Len(messages) \in {0, N}
    /\ turn \in {"idle", "asking"} => \A c \in Calls : pc[c] = "done"
    /\ \A c \in alive : kind[c] = "shell" /\ pc[c] \in {"spawned", "running"}

\* While no turn was cut short: what was revealed is waiting to be shown, and a
\* queued context belongs to a call whose result takes it along.
UncutInv ==
    ~aborted =>
        /\ unshown = extra
        /\ turn \in {"idle", "asking"} => unshown = {}
        /\ \A c \in Calls : c \in contexts => pc[c] \in {"result", "stamped"}

\* On one thread only the call whose message is due is under way: the command
\* that runs is the one a cancellation reaches, its hooks write to the session's
\* list, the span is its own, and after a cancellation it is the last.
OneThreadInv ==
    ~parallel =>
        /\ turn # "unwinding" /\ ~lost
        /\ \A c \in Calls : pc[c] \notin {"queued", "done"} => c = Due
        /\ \A c \in Calls : pc[c] = "running" /\ kind[c] = "shell" => active = c
        /\ \A c \in Calls : pc[c] = "hooked" => hold[c]
        /\ ~aborted => /\ span # None => /\ span = Due
                                         /\ pc[span] \in {"ended", "hooked", "result"}
                       /\ \A c \in Calls : footer[c] \in {c, None}
        /\ late # {} => cancelled /\ \A c \in Calls : pc[c] # "passed"
        /\ \E c \in Calls : late \subseteq {c}

\* Steps of one call that is under way change only its own place.
LEMMA CallMoves ==
    ASSUME TypeOK, NEW c \in Calls, Call(c), ~Cut
    PROVE  /\ pc[c] # "done"
           /\ \E place \in Places : pc' = [pc EXCEPT ![c] = place]
           /\ UNCHANGED main
  BY DEF Call, Pass, Start, MayStart, Register, ToolReturns, ToolRaises, PostHooks,
         QueueContext, WriteFailure, Stamp, Deliver, Go, Places, main, Cut

LEMMA AllTaken ==
    ASSUME TypeOK, ResultsInv, Due > N
    PROVE  \A c \in Calls : pc[c] = "done"
<1> SUFFICES ASSUME NEW c \in Calls PROVE pc[c] = "done"
  OBVIOUS
<1>1. c \in DOMAIN messages
  BY BatchAssumption DEF Due, TypeOK, Calls
<1> QED
  BY <1>1 DEF ResultsInv

LEMMA ResultsStep == TypeOK /\ ResultsInv /\ [Next]_vars => ResultsInv'
<1> SUFFICES ASSUME TypeOK, ResultsInv, [Next]_vars PROVE ResultsInv'
  OBVIOUS
<1>0. /\ messages \in Seq(Calls) /\ pc \in [Calls -> Places] /\ Len(messages) \in Nat
      /\ DOMAIN messages = 1 .. Len(messages) /\ alive \subseteq Calls
  BY DEF TypeOK
<1>1. CASE Cut
  BY <1>1 DEF Cut, Abort, Forget, ResultsInv
<1>2. ASSUME UNCHANGED <<turn, messages, kind, pc, alive>> PROVE ResultsInv'
  BY <1>2 DEF ResultsInv
<1>3. CASE BeginTurn
  BY <1>3 DEF BeginTurn, ResultsInv, process
<1>4. CASE Answer
  <2>1. alive = {}
    BY <1>0, <1>4 DEF Answer, ResultsInv
  <2> QED
    BY <1>4, <2>1 DEF Answer, ResultsInv, process
<1>5. CASE EndTurn
  BY <1>5 DEF EndTurn, Forget, ResultsInv
<1>6. CASE Cancel \/ HookEnds \/ HookQueues \/ UNCHANGED vars
  BY <1>2, <1>6 DEF Cancel, HookEnds, HookQueues, vars, main, process
<1>7. CASE Interrupt
  <2>1. CASE parallel
    BY <1>7, <2>1 DEF Interrupt, ResultsInv
  <2> QED
    BY <1>1, <1>7, <2>1 DEF Cut, Interrupt
<1>8. CASE StepDone
  <2>1. Len(messages) <= N
    <3>1. CASE Len(messages) = 0
      BY <1>0, <3>1, BatchAssumption
    <3>2. CASE Len(messages) > 0
      <4>1. messages[Len(messages)] \in Calls /\ messages[Len(messages)] = Len(messages)
        BY <1>0, <3>2 DEF ResultsInv
      <4> QED
        BY <4>1, BatchAssumption DEF Calls
    <3> QED
      BY <1>0, <3>1, <3>2
  <2>2. Len(messages) = N
    <3>1. N \in Nat /\ Len(messages) \in Nat /\ Len(messages) + 1 > N
      BY <1>0, <1>8, BatchAssumption DEF StepDone, Due
    <3> QED
      BY <2>1, <3>1
  <2> QED
    BY <1>0, <1>8, <2>2 DEF StepDone, Forget, ResultsInv
<1>9. ASSUME NEW c \in Calls, Take(c) PROVE ResultsInv'
  <2>1. /\ messages' = Append(messages, c) /\ c = Len(messages) + 1 /\ pc[c] = "done"
        /\ turn = "calling" /\ UNCHANGED <<turn, pc, kind, alive>>
    BY <1>9 DEF Take, MayTake, Due, process
  <2>2. \A i \in DOMAIN messages' : messages'[i] = i /\ pc'[i] = "done"
    BY <1>0, <2>1 DEF ResultsInv
  <2> QED
    BY <2>1, <2>2 DEF ResultsInv
<1>10. ASSUME NEW c \in Calls, Call(c), ~Cut PROVE ResultsInv'
  <2>1. /\ pc[c] # "done" /\ UNCHANGED main
        /\ \E place \in Places : pc' = [pc EXCEPT ![c] = place]
    BY <1>10, CallMoves
  <2>2. \A i \in DOMAIN messages : messages[i] = i /\ pc'[i] = "done"
    BY <1>0, <2>1 DEF ResultsInv
  <2>3. turn \notin {"idle", "asking"}
    BY <2>1 DEF ResultsInv
  <2>4. \A d \in alive' : kind[d] = "shell" /\ pc'[d] \in {"spawned", "running"}
    <3>1. \A d \in alive : kind[d] = "shell" /\ pc[d] \in {"spawned", "running"}
      BY DEF ResultsInv
    <3>2. CASE Start(c)
      BY <1>0, <3>1, <3>2 DEF Start, Go
    <3>3. CASE Register(c)
      BY <1>0, <3>1, <3>3 DEF Register, Go
    <3>4. CASE ToolReturns(c)
      BY <1>0, <3>1, <3>4 DEF ToolReturns, Go
    <3>5. CASE ToolRaises(c)
      BY <1>0, <1>10, <3>1, <3>5 DEF Cut, ToolRaises, Go
    <3>6. CASE \/ Pass(c) \/ PostHooks(c) \/ QueueContext(c) \/ WriteFailure(c)
               \/ Stamp(c) \/ Deliver(c)
      <4>1. pc[c] \notin {"spawned", "running"} /\ alive' = alive
        BY <3>6
           DEF Pass, PostHooks, QueueContext, WriteFailure, Stamp, Deliver, process
      <4> QED
        BY <1>0, <2>1, <3>1, <4>1
    <3> QED
      BY <1>10, <3>2, <3>3, <3>4, <3>5, <3>6 DEF Call
  <2> QED
    BY <2>1, <2>2, <2>3, <2>4 DEF ResultsInv, main
<1> QED
  BY <1>1, <1>3, <1>4, <1>5, <1>6, <1>7, <1>8, <1>9, <1>10
     DEF Next, Results, LeavePool, SeeCancelled, Cut

LEMMA UncutStep == TypeOK /\ ResultsInv /\ UncutInv /\ [Next]_vars => UncutInv'
<1> SUFFICES ASSUME TypeOK, ResultsInv, UncutInv, [Next]_vars, ~aborted' PROVE UncutInv'
  BY DEF UncutInv
<1>0. /\ pc \in [Calls -> Places]
      /\ ~Cut
  BY DEF TypeOK, Cut, Abort
<1>1. CASE UNCHANGED <<turn, pc, aborted, contexts, reveal>>
  BY <1>1 DEF UncutInv, reveal
<1>2. CASE BeginTurn
  BY <1>2 DEF BeginTurn, UncutInv, context, reveal
<1>3. CASE Answer
  BY <1>3 DEF Answer, UncutInv, ResultsInv, context, reveal
<1>4. CASE EndTurn
  BY <1>4 DEF EndTurn, Forget, UncutInv, ResultsInv, context, reveal
<1>5. ASSUME Cancel \/ UNCHANGED vars \/ \E c \in Calls : Take(c)
      PROVE  UNCHANGED <<turn, pc, aborted, contexts, reveal>>
  BY <1>5 DEF Cancel, Take, vars, main, context, reveal
<1>6. CASE Interrupt
  BY <1>0, <1>6 DEF Cut, Interrupt, UncutInv
<1>7. CASE HookEnds \/ HookQueues
  <2>1. contexts' \subseteq contexts \cup {Async} /\ UNCHANGED <<main, pc, reveal>>
    BY <1>7 DEF HookEnds, HookQueues, Queue
  <2>2. Async \notin Calls
    BY BatchAssumption DEF Async, Calls
  <2> QED
    BY <2>1, <2>2 DEF UncutInv, main, reveal
<1>8. CASE StepDone
  <2>1. \A c \in Calls : pc[c] = "done"
    BY <1>8, AllTaken DEF StepDone
  <2>2. \A c \in Calls : c \notin contexts
    BY <1>8, <2>1 DEF StepDone, UncutInv
  <2> QED
    BY <1>8, <2>2 DEF StepDone, Forget, UncutInv, context
<1>9. ASSUME NEW c \in Calls, Call(c) PROVE UncutInv'
  <2>1. /\ pc[c] # "done" /\ UNCHANGED main
        /\ \E place \in Places : pc' = [pc EXCEPT ![c] = place]
    BY <1>0, <1>9, CallMoves
  <2>2. turn' \notin {"idle", "asking"}
    BY <2>1 DEF ResultsInv, main
  <2>3. unshown' = extra'
    BY <1>0, <1>9, <2>1
       DEF UncutInv, main, reveal, Call, Pass, Start, Register, ToolReturns, ToolRaises,
           PostHooks, QueueContext, WriteFailure, Stamp, Deliver, Cut
  <2>4. \A d \in Calls : d \in contexts' => pc'[d] \in {"result", "stamped"}
    <3>1. \A d \in Calls : d \in contexts => pc[d] \in {"result", "stamped"}
      BY <2>1 DEF UncutInv, main
    <3>2. CASE \/ Pass(c) \/ Start(c) \/ Register(c) \/ ToolReturns(c) \/ ToolRaises(c)
               \/ PostHooks(c) \/ WriteFailure(c)
      <4>1. pc[c] \notin {"result", "stamped"} /\ contexts' = contexts
        BY <3>2
           DEF Pass, Start, MayStart, Register, ToolReturns, ToolRaises, PostHooks,
               WriteFailure, context
      <4> QED
        BY <1>0, <2>1, <3>1, <4>1
    <3>3. CASE QueueContext(c)
      BY <1>0, <3>1, <3>3 DEF QueueContext, Queue, Go
    <3>4. CASE Stamp(c)
      BY <1>0, <3>1, <3>4 DEF Stamp, Go, context
    <3>5. CASE Deliver(c)
      BY <3>5 DEF Deliver
    <3> QED
      BY <1>9, <3>2, <3>3, <3>4, <3>5 DEF Call
  <2> QED
    BY <2>2, <2>3, <2>4 DEF UncutInv
<1> QED
  BY <1>0, <1>1, <1>2, <1>3, <1>4, <1>5, <1>6, <1>7, <1>8, <1>9
     DEF Next, Results, LeavePool, SeeCancelled, Cut

LEMMA OneThreadStep ==
    TypeOK /\ ResultsInv /\ OneThreadInv /\ [Next]_vars => OneThreadInv'
<1> SUFFICES ASSUME TypeOK, ResultsInv, OneThreadInv, [Next]_vars, ~parallel
             PROVE  OneThreadInv'
  <2>1. [Next]_vars => UNCHANGED parallel
    BY DEF Next, vars, BeginTurn, Answer, EndTurn, Cancel, Interrupt, Results, LeavePool,
           SeeCancelled, StepDone, Take, Abort, HookEnds, HookQueues, Call, Pass, Start,
           Register, ToolReturns, ToolRaises, PostHooks, QueueContext, WriteFailure, Stamp,
           Deliver, main
  <2> QED
    BY <2>1 DEF OneThreadInv
<1>0. /\ pc \in [Calls -> Places] /\ hold \in [Threads -> BOOLEAN]
      /\ kind \in [Calls -> Kinds] /\ footer \in [Calls -> Calls \cup {None}]
      /\ Len(messages) \in Nat /\ messages \in Seq(Calls)
      /\ late \subseteq Calls /\ span \in Calls \cup {None} /\ active \in Calls \cup {None}
      /\ None \notin Calls /\ Calls # {} /\ N \in Nat
  <2>1. None \notin Calls /\ 1 \in Calls /\ N \in Nat
    BY BatchAssumption DEF Calls
  <2> QED
    BY <2>1 DEF TypeOK
<1>1. /\ turn # "unwinding" /\ ~lost
      /\ \A c \in Calls : pc[c] \notin {"queued", "done"} => c = Due
      /\ \A c \in Calls : pc[c] = "running" /\ kind[c] = "shell" => active = c
      /\ \A c \in Calls : pc[c] = "hooked" => hold[c]
      /\ ~aborted => /\ span # None => /\ span = Due
                                       /\ pc[span] \in {"ended", "hooked", "result"}
                     /\ \A c \in Calls : footer[c] \in {c, None}
      /\ late # {} => cancelled /\ \A c \in Calls : pc[c] # "passed"
      /\ \E c \in Calls : late \subseteq {c}
  BY DEF OneThreadInv
\* When the calls of an answer are forgotten, only the span can remain.
<1>2. ASSUME NEW sent, Forget(sent), turn' # "unwinding", ~lost', ~aborted' => span' = None
      PROVE  OneThreadInv'
  BY <1>0, <1>2 DEF Forget, OneThreadInv
<1>3. ASSUME UNCHANGED <<kind, pc, active, footer, span, late>>, turn' # "unwinding",
             UNCHANGED <<messages, lost, hold, aborted>>, cancelled => cancelled'
      PROVE  OneThreadInv'
  BY <1>1, <1>3 DEF OneThreadInv, Due
<1>4. ~lost'
  <2>1. ASSUME NEW c \in Calls, QueueContext(c) PROVE ~lost'
    BY <1>1, <2>1 DEF QueueContext, Queue
  <2>2. CASE HookQueues
    BY <1>1, <2>2 DEF HookQueues, Queue
  <2>3. ASSUME ~HookQueues, \A c \in Calls : ~QueueContext(c) PROVE lost' = lost
    BY <2>3
       DEF Next, vars, BeginTurn, Answer, EndTurn, Cancel, Interrupt, Results, LeavePool,
           SeeCancelled, StepDone, Take, HookEnds, Call, Pass, Start, Register,
           ToolReturns, ToolRaises, PostHooks, WriteFailure, Stamp, Deliver, context
  <2> QED
    BY <1>1, <2>1, <2>2, <2>3
<1>5. CASE Cut
  BY <1>2, <1>4, <1>5 DEF Cut, Abort
<1>6. CASE BeginTurn
  BY <1>1, <1>6 DEF BeginTurn, OneThreadInv, Due, process, timing, context, stopping
<1>7. CASE Answer
  <2>1. span = None \/ aborted
    BY <1>0, <1>1, <1>7 DEF Answer, ResultsInv
  <2>2. late = {}
    BY <1>1, <1>7 DEF Answer
  <2> QED
    BY <1>0, <1>1, <1>7, <2>1, <2>2
       DEF Answer, OneThreadInv, process, timing, context, stopping
<1>8. CASE EndTurn
  <2>1. span = None \/ aborted
    BY <1>0, <1>1, <1>8 DEF EndTurn, ResultsInv
  <2> QED
    BY <1>2, <1>4, <1>8, <2>1 DEF EndTurn
<1>9. CASE Cancel \/ UNCHANGED vars
  BY <1>1, <1>3, <1>9 DEF Cancel, vars, main, process, timing, context
<1>10. CASE LeavePool \/ SeeCancelled \/ Interrupt
  BY <1>5, <1>10 DEF Cut, LeavePool, SeeCancelled, Interrupt
<1>11. CASE StepDone
  <2>1. span = None \/ aborted
    BY <1>0, <1>1, <1>11 DEF StepDone, Due, Calls
  <2> QED
    BY <1>2, <1>4, <1>11, <2>1 DEF StepDone
<1>12. ASSUME NEW c \in Calls, Take(c) PROVE OneThreadInv'
  <2>1. pc[c] = "done" /\ c = Due /\ Due' = Due + 1
    BY <1>0, <1>12 DEF Take, MayTake, Due
  <2>2. /\ turn' = turn
        /\ UNCHANGED <<kind, pc, active, span, footer, hold, lost, late, cancelled, aborted>>
    BY <1>12 DEF Take, process, timing, context, stopping
  <2>3. span = None \/ aborted
    BY <1>1, <2>1
  <2>4. \A d \in Calls : pc[d] \in {"queued", "done"}
    BY <1>1, <2>1
  <2> QED
    BY <1>1, <2>2, <2>3, <2>4 DEF OneThreadInv
<1>13. CASE HookEnds \/ HookQueues
  <2>1. \A c \in Calls : hold'[c] = hold[c]
    <3>1. \A c \in Calls : c # Async /\ c \in Threads
      BY <1>0 DEF Async, Threads, Calls
    <3> QED
      BY <1>0, <1>13, <3>1 DEF HookEnds, HookQueues, Queue
  <2>2. UNCHANGED <<main, pc, process, timing, stopping>>
    BY <1>13 DEF HookEnds, HookQueues
  <2> QED
    BY <1>1, <1>4, <2>1, <2>2 DEF OneThreadInv, Due, main, process, timing, stopping
\* A step of the call that is due.
<1>14. ASSUME NEW c \in Calls, Call(c), ~Cut PROVE OneThreadInv'
  <2>1. /\ UNCHANGED <<main, Due>> /\ c \in Threads
        /\ \E place \in Places : pc' = [pc EXCEPT ![c] = place]
    BY <1>14, CallMoves DEF main, Due, Threads
  <2>2. c = Due /\ \A d \in Calls \ {c} : pc[d] \in {"queued", "done"}
    BY <1>1, <1>14
       DEF Call, Pass, Start, MayStart, Register, ToolReturns, ToolRaises, PostHooks,
           QueueContext, WriteFailure, Stamp, Deliver
  <2>3. \A d \in Calls \ {c} : pc'[d] \in {"queued", "done"}
    BY <1>0, <2>1, <2>2
  \* What has to be shown of the call that moved.
  <2>4. ASSUME pc'[c] = "running" /\ kind[c] = "shell" => active' = c,
               pc'[c] = "hooked" => hold'[c],
               ~aborted => /\ span' # None => /\ span' = c
                                              /\ pc'[c] \in {"ended", "hooked", "result"}
                           /\ \A d \in Calls : footer'[d] \in {d, None},
               late' # {} => cancelled' /\ pc'[c] # "passed",
               \E d \in Calls : late' \subseteq {d}
        PROVE  OneThreadInv'
    BY <1>1, <1>4, <2>1, <2>2, <2>3, <2>4 DEF OneThreadInv, main
  <2>5. CASE Pass(c)
    BY <1>0, <1>1, <2>2, <2>4, <2>5
       DEF Pass, Go, process, timing, context, stopping
  <2>6. CASE Start(c)
    <3>1. /\ pc[c] = "passed" /\ late = {} /\ (span = None \/ aborted)
          /\ late' \subseteq {c} /\ (late' # {} => cancelled)
          /\ UNCHANGED <<active, span, footer, hold, cancelled>>
      BY <1>1, <2>2, <2>6 DEF Start, MayStart, timing, context
    <3>2. pc'[c] \in {"spawned", "running", "result"} /\ (kind[c] = "shell" => pc'[c] = "spawned")
      BY <1>0, <2>6 DEF Start, Go
    <3> QED
      BY <1>1, <2>4, <3>1, <3>2
  <2>7. CASE Register(c)
    BY <1>0, <1>1, <2>2, <2>4, <2>7 DEF Register, Go, timing, context, stopping
  <2>8. CASE ToolReturns(c)
    BY <1>0, <1>1, <2>2, <2>4, <2>8 DEF ToolReturns, Go, context, stopping
  <2>9. CASE PostHooks(c)
    BY <1>0, <1>1, <2>1, <2>2, <2>4, <2>9 DEF PostHooks, Go, process, timing, stopping
  <2>10. CASE QueueContext(c)
    BY <1>0, <1>1, <2>2, <2>4, <2>10 DEF QueueContext, Queue, Go, process, timing, stopping
  <2>11. CASE Stamp(c)
    BY <1>0, <1>1, <2>2, <2>4, <2>11 DEF Stamp, Go, process, context, stopping
  <2>12. CASE Deliver(c)
    <3>1. span = None \/ aborted
      BY <1>1, <2>2, <2>12 DEF Deliver
    <3> QED
      BY <1>0, <1>1, <2>2, <2>4, <2>12, <3>1 DEF Deliver, Go, process, timing, stopping
  <2>13. ~ToolRaises(c) /\ ~WriteFailure(c)
    BY <1>14, <2>1 DEF Cut, ToolRaises, WriteFailure, main
  <2> QED
    BY <1>14, <2>5, <2>6, <2>7, <2>8, <2>9, <2>10, <2>11, <2>12, <2>13 DEF Call
<1> QED
  BY <1>5, <1>6, <1>7, <1>8, <1>9, <1>10, <1>11, <1>12, <1>13, <1>14 DEF Next, Results

\* The answer's calls are over with no process left, or Ctrl-C found one thread
\* and left what was not in the slot.
LEMMA StraysStep ==
    TypeOK /\ ResultsInv /\ OneThreadInv /\ CommandsStopped /\ [Next]_vars
        => CommandsStopped'
<1> SUFFICES ASSUME TypeOK, ResultsInv, OneThreadInv, CommandsStopped, [Next]_vars
             PROVE  CommandsStopped'
  OBVIOUS
<1>0. /\ pc \in [Calls -> Places] /\ kind \in [Calls -> Kinds] /\ alive \subseteq Calls
      /\ \A c \in alive : kind[c] = "shell" /\ pc[c] \in {"spawned", "running"}
      /\ None \notin Calls
  BY BatchAssumption DEF TypeOK, ResultsInv, Calls
<1>1. CASE UNCHANGED strays
  BY <1>1 DEF CommandsStopped
<1>2. ASSUME NEW sent, Forget(sent), \A c \in alive \ sent : pc[c] = "spawned"
      PROVE  CommandsStopped'
  BY <1>2 DEF Forget, CommandsStopped
<1>3. CASE EndTurn
  BY <1>0, <1>2, <1>3 DEF EndTurn, ResultsInv
<1>4. CASE StepDone
  <2>1. \A c \in Calls : pc[c] = "done"
    BY <1>4, AllTaken DEF StepDone
  <2> QED
    BY <1>0, <1>2, <1>4, <2>1 DEF StepDone
<1>5. CASE LeavePool
  BY <1>0, <1>2, <1>5 DEF LeavePool, Over, Abort
<1>6. CASE SeeCancelled
  <2>1. CASE parallel
    <3>1. \A c \in Calls : pc[c] = "done"
      BY <1>6, <2>1, AllTaken DEF SeeCancelled
    <3> QED
      BY <1>0, <1>2, <1>6, <3>1 DEF SeeCancelled, Abort
  <2>2. CASE ~parallel
    BY <1>0, <1>2, <1>6, <2>2 DEF SeeCancelled, Busy, Over, Abort
  <2> QED
    BY <2>1, <2>2
<1>7. CASE Interrupt
  <2>1. CASE parallel
    BY <1>1, <1>7, <2>1 DEF Interrupt
  <2>2. CASE ~parallel
    <3>1. \A c \in alive : pc[c] = "running" => c \in Terminated
      BY <1>0, <2>2 DEF OneThreadInv, Terminated
    <3> QED
      BY <1>0, <1>2, <1>7, <2>2, <3>1 DEF Interrupt, Abort
  <2> QED
    BY <2>1, <2>2
<1>8. ASSUME NEW c \in Calls, ToolRaises(c) PROVE CommandsStopped'
  <2>1. CASE parallel
    BY <1>1, <1>8, <2>1 DEF ToolRaises
  <2>2. CASE ~parallel
    <3>1. c \notin alive /\ \A d \in Calls : pc[d] \notin {"queued", "done"} => d = c
      BY <1>0, <1>8, <2>2 DEF ToolRaises, OneThreadInv
    <3>2. alive = {}
      BY <1>0, <3>1
    <3> QED
      BY <1>2, <1>8, <2>2, <3>2 DEF ToolRaises, Abort
  <2> QED
    BY <2>1, <2>2
<1>9. ASSUME NEW c \in Calls, Call(c), ~ToolRaises(c) PROVE UNCHANGED strays
  BY <1>9 DEF Call, Pass, Start, Register, ToolReturns, PostHooks, QueueContext,
              WriteFailure, Stamp, Deliver, process
<1>10. ASSUME \/ BeginTurn \/ Answer \/ Cancel \/ HookEnds \/ HookQueues \/ UNCHANGED vars
              \/ \E c \in Calls : Take(c)
       PROVE  UNCHANGED strays
  BY <1>10 DEF BeginTurn, Answer, Cancel, HookEnds, HookQueues, vars, Take, process
<1> QED
  BY <1>1, <1>3, <1>4, <1>5, <1>6, <1>7, <1>8, <1>9, <1>10 DEF Next, Results

-----------------------------------------------------------------------------
(* The theorems                                                            *)

BatchInv == TypeOK /\ ResultsInv /\ UncutInv /\ OneThreadInv /\ CommandsStopped

LEMMA BatchInit == Init => BatchInv
<1> SUFFICES ASSUME Init PROVE BatchInv
  OBVIOUS
<1>1. 1 \in Calls
  BY BatchAssumption DEF Calls
<1>2. ResultsInv
  BY DEF Init, ResultsInv
<1>3. UncutInv
  BY DEF Init, UncutInv
<1>4. OneThreadInv
  BY <1>1 DEF Init, OneThreadInv
<1>5. CommandsStopped
  BY DEF Init, CommandsStopped
<1> QED
  BY <1>2, <1>3, <1>4, <1>5, TypeInit DEF BatchInv

LEMMA BatchAlways == Spec => []BatchInv
<1>1. BatchInv /\ [Next]_vars => BatchInv'
  BY TypeStep, ResultsStep, UncutStep, OneThreadStep, StraysStep DEF BatchInv
<1> QED
  BY <1>1, BatchInit, PTL DEF Spec

\* For any number of calls and workers, whatever order they finish in, whichever
\* raise and wherever the turn is cut short, the next request has a result for
\* every call, in the order of the calls, and what a search revealed (_run_turn).
THEOREM ResultsAlwaysSound == Spec => []ResultsSound
<1>1. BatchInv => ResultsSound
  BY DEF BatchInv, ResultsInv, UncutInv, ResultsSound, ResultsComplete, RevealShown
<1> QED
  BY <1>1, BatchAlways, PTL

\* Hook contexts and time spans reach the result they belong to on one thread,
\* and the next request in any case (_with_pending_ta, _run_one).
THEOREM ContextsAlwaysSound == Spec => []ContextsSound
<1>1. BatchInv => ContextsSound
  <2> SUFFICES ASSUME BatchInv PROVE ContextsSound
    OBVIOUS
  <2>1. SequentialExact
    BY DEF BatchInv, OneThreadInv, SequentialExact
  <2>2. ContextTold
    BY DEF BatchInv, TypeOK, ResultsInv, UncutInv, ContextTold, Threads
  <2> QED
    BY <2>1, <2>2 DEF ContextsSound
<1> QED
  BY <1>1, BatchAlways, PTL

\* A cancellation and Ctrl-C reach the command in the slot of the main thread, one
\* call at most is dispatched after a cancellation, and only a command that was not
\* in the slot yet can outlive its answer without a signal (CancelToken,
\* _sigint_handler, t_run).
THEOREM CancelAlwaysSound == Spec => CancelSound
<1>1. BatchInv /\ [Next]_vars => [CancelReaches]_vars
  <2> SUFFICES ASSUME BatchInv, Next, ~parallel, cancelled', ~cancelled,
                      NEW c \in alive, pc[c] = "running"
               PROVE  c \in signalled'
    BY DEF CancelReaches
  <2>1. Cancel
    BY DEF Next, BeginTurn, Answer, EndTurn, Interrupt, Results, LeavePool, SeeCancelled,
           StepDone, Take, Abort, HookEnds, HookQueues, Call, Pass, Start, Register,
           ToolReturns, ToolRaises, PostHooks, QueueContext, WriteFailure, Stamp, Deliver,
           main, stopping
  <2>2. active = c /\ c \in Calls /\ None \notin Calls
    BY BatchAssumption DEF BatchInv, TypeOK, ResultsInv, OneThreadInv, Calls
  <2> QED
    BY <2>1, <2>2 DEF Cancel, Terminated
<1>2. BatchInv => CancelStops
  <2> SUFFICES ASSUME BatchInv, ~parallel PROVE Cardinality(late) <= 1
    BY DEF CancelStops
  <2>1. PICK c \in Calls : late \subseteq {c}
    BY DEF BatchInv, OneThreadInv
  <2>2. late = {} \/ late = {c}
    BY <2>1
  <2>3. Cardinality({}) = 0 /\ Cardinality({c}) = 1
    BY FS_EmptySet, FS_Singleton
  <2> QED
    BY <2>2, <2>3
<1>3. BatchInv => CommandsStopped
  BY DEF BatchInv
<1> QED
  BY <1>1, <1>2, <1>3, BatchAlways, PTL DEF Spec, CancelSound
=============================================================================
