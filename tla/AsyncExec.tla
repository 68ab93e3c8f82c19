----------------------------- MODULE AsyncExec -----------------------------
(***************************************************************************)
(* Background executions (agentknit/async_toolkit.py): nohup registers an  *)
(* execution and starts it, at once or after a delay; a thread of its own  *)
(* watches a process that outlives the first 100 ms, collects old results  *)
(* when it ends and puts its completion into a queue; nohup_wait blocks on *)
(* one execution and reads that queue meanwhile, and the REPL drains what  *)
(* is left into a notice when it starts a turn.  The user may press Ctrl-C *)
(* at any moment of a turn.                                                *)
(*                                                                         *)
(* The calls of one answer run together in a pool, or one after the other  *)
(* on the main thread: each of those is here a batch of its own, for its   *)
(* result goes into the history before the next one starts.  Which of the  *)
(* two a batch is need not be said before a second call of it begins.      *)
(*                                                                         *)
(* A process is running or over; its output is the existence of its        *)
(* capture files.  Time is the order of the start stamps, by which old     *)
(* executions are collected.                                               *)
(***************************************************************************)
EXTENDS SequencesExt

CONSTANTS
    MaxTime,          \* bound: an execution may be registered at 1 .. MaxTime
    Tools,            \* threads that run tool calls
    Patient,          \* those of Tools whose nohup_wait names no budget
    None,             \* no execution
    Retain,           \* ASYNC_RETAIN_COMPLETED
    Delay             \* how far in the future wait_before_s puts a start

ASSUME TimeAssumption == MaxTime \in Nat
ASSUME PatientAssumption == Patient \subseteq Tools
ASSUME NoneAssumption == None \notin Nat
ASSUME RetainAssumption == Retain \in Nat \ {0}
ASSUME DelayAssumption == Delay \in Nat /\ Delay % 2 = 1

\* An execution is named by the time of its registration.
Execs == 1 .. MaxTime

VARIABLES
    entries,          \* keys of _async_executions; a started one has files too
    delayed,          \* executions registered with wait_before_s
    started,          \* entry["proc"] is set
    exited,           \* proc.poll() is not None
    fast,             \* executions found finished after ASYNC_FAST_THRESHOLD_S
    spawner,          \* per execution: where its _spawn() is
    watcher,          \* per execution: where its _close_on_exit() is
    announced,        \* every completion put into async_completion_queue
    claimed,          \* those taken out of it
    tool,             \* per tool thread: the call it is in, and the executions
                      \* its result names as over
    turn,             \* what the REPL and its turn are doing
    typed,            \* wait_interrupt_hook(): the user typed during the turn
    notice,           \* the executions in the notice of a turn that starts
    told,             \* executions the history says are over
    dropped           \* those somebody was told of, or took the record of, and
                      \* which an end of the turn kept out of the history

vars == <<entries, delayed, started, exited, fast, spawner, watcher, announced,
          claimed, tool, turn, typed, notice, told, dropped>>
procs == <<started, exited>>
threads == <<fast, spawner, watcher>>
queue == <<announced, claimed>>
repl == <<turn, typed, notice>>
heard == <<told, dropped>>

Idle == [op |-> "idle", e |-> None, news |-> {}]

TypeOK ==
    /\ entries \subseteq Execs /\ delayed \subseteq Execs
    /\ started \subseteq Execs /\ exited \subseteq Execs
    /\ fast \subseteq Execs /\ notice \subseteq Execs
    /\ told \subseteq Execs /\ dropped \subseteq Execs
    /\ spawner \in [Execs -> {"none", "sleeping", "launching", "window", "tail", "done"}]
    /\ watcher \in [Execs -> {"none", "watching", "collected", "done"}]
    /\ announced \in Seq(Execs) /\ claimed \in Seq(Execs)
    /\ tool \in [Tools -> [op : {"idle", "starting", "waiting", "done"},
                           e : Execs \cup {None},
                           news : SUBSET Execs]]
    /\ turn \in {"prompt", "entering", "running"}
    /\ typed \in BOOLEAN

Init ==
    /\ entries = {} /\ delayed = {} /\ started = {} /\ exited = {}
    /\ fast = {} /\ notice = {} /\ told = {} /\ dropped = {}
    /\ spawner = [e \in Execs |-> "none"]
    /\ watcher = [e \in Execs |-> "none"]
    /\ announced = <<>> /\ claimed = <<>>
    /\ tool = [t \in Tools |-> Idle]
    /\ turn = "prompt" /\ typed = FALSE

-----------------------------------------------------------------------------
(* Helpers                                                                 *)

Queue == SubSeq(announced, Len(claimed) + 1, Len(announced))

\* entry["start"]: the time of the registration, or the end of the delay.
Start(e) == IF e \in delayed THEN 2 * e + Delay ELSE 2 * e

Completed == entries \cap started \cap exited

\* Mutant: executions that are scheduled or still run count as old, too.
OutdatedAny ==
    {x \in entries :
        Cardinality({y \in Completed : Start(y) > Start(x)}) >= Retain}

\* What _prune_completed_executions drops: all but the Retain completed
\* executions with the latest start stamps.
Outdated ==
    {x \in Completed :
        Cardinality({y \in Completed : Start(y) > Start(x)}) >= Retain}

CanCall(t) == turn = "running" /\ tool[t] = Idle

\* All calls of the batch that have begun are this one: it may be the main
\* thread's.
Alone(t) == \A u \in Tools \ {t} : tool[u] = Idle

\* The call of thread t is over.  Its result names S and what it learned
\* before; it is not in the history yet.  News is what that does not say yet.
Return(t, S) ==
    tool' = [tool EXCEPT ![t] = [Idle EXCEPT !.op = "done",
                                             !.news = (tool[t].news \cup S) \ told]]

Held == notice \cup UNION {tool[t].news : t \in Tools}

\* S does not reach the history.  What has no record of its own, or one that
\* is still to be taken, is not lost with it.
Drop(S) == dropped' = dropped \cup ((S \cap (ToSet(claimed) \cup fast)) \ told)

BatchOver == \A t \in Tools : tool[t].op \in {"idle", "done"}

-----------------------------------------------------------------------------
(* Starting an execution                                                   *)

\* t_nohup / t_execute_async up to _spawn(): the entry exists before the
\* process does.  With wait_before_s a thread sleeps first and the call
\* returns at once; otherwise the calling thread runs _spawn() itself.  Time
\* passes: a start lies behind the starts of all that have run.
Register(t, e, later) ==
    /\ CanCall(t)
    /\ \A x \in Execs : spawner[x] # "none" => x < e
    /\ \A x \in started : Start(x) < 2 * e
    /\ entries' = entries \cup {e}
    /\ delayed' = IF later THEN delayed \cup {e} ELSE delayed
    /\ spawner' = [spawner EXCEPT ![e] = IF later THEN "sleeping" ELSE "launching"]
    /\ IF later THEN Return(t, {})
       ELSE tool' = [tool EXCEPT ![t] = [Idle EXCEPT !.op = "starting", !.e = e]]
    /\ UNCHANGED <<procs, fast, watcher, queue, repl, heard>>

\* _spawn(): the delay is over, files and process are made.
Launch(e) ==
    /\ spawner[e] \in {"sleeping", "launching"}
    /\ started' = started \cup {e}
    /\ spawner' = [spawner EXCEPT ![e] = "window"]
    /\ UNCHANGED <<entries, delayed, exited, fast, watcher, queue, tool, repl, heard>>

\* _spawn(): proc.wait(ASYNC_FAST_THRESHOLD_S) is over.  A finished process
\* gets no watching thread, and so no completion record.
Decide(e) ==
    /\ spawner[e] = "window"
    /\ spawner' = [spawner EXCEPT ![e] = "tail"]
    /\ IF e \in exited
       THEN fast' = fast \cup {e} /\ UNCHANGED watcher
       ELSE watcher' = [watcher EXCEPT ![e] = "watching"] /\ UNCHANGED fast
    /\ UNCHANGED <<entries, delayed, procs, queue, tool, repl, heard>>

Starting(t, e) == tool[t].op = "starting" /\ tool[t].e = e

\* Mutant: "fast_done" is not stored, so that the result does not say it.
SpawnReturnsSilent(e) ==
    /\ spawner[e] = "tail" /\ e \in entries
    /\ spawner' = [spawner EXCEPT ![e] = "done"]
    /\ \/ \E t \in Tools : Starting(t, e) /\ Return(t, {})
       \/ e \in delayed /\ UNCHANGED tool
    /\ UNCHANGED <<entries, delayed, procs, fast, watcher, queue, repl, heard>>

\* _spawn() and t_execute_async look the entry up again, and the caller gets a
\* fast result inline.
SpawnReturns(e) ==
    /\ spawner[e] = "tail" /\ e \in entries
    /\ spawner' = [spawner EXCEPT ![e] = "done"]
    /\ \/ \E t \in Tools : Starting(t, e) /\ Return(t, {e} \cap fast)
       \/ e \in delayed /\ UNCHANGED tool
    /\ UNCHANGED <<entries, delayed, procs, fast, watcher, queue, repl, heard>>

\* The entry was collected meanwhile: a KeyError.  It ends the thread of a
\* delayed start; in a pool it is the result of the call; on the main thread
\* it ends the turn.
SpawnFails(e) ==
    /\ spawner[e] = "tail" /\ e \notin entries
    /\ spawner' = [spawner EXCEPT ![e] = "done"]
    /\ \/ e \in delayed /\ UNCHANGED <<tool, turn, typed, dropped>>
       \/ \E t \in Tools :
              /\ Starting(t, e)
              /\ \/ Return(t, {}) /\ UNCHANGED <<turn, typed>>
                 \/ /\ turn = "running" /\ Alone(t)
                    /\ tool' = [tool EXCEPT ![t] = Idle]
                    /\ turn' = "prompt" /\ typed' = FALSE
              /\ Drop({e})
    /\ UNCHANGED <<entries, delayed, procs, fast, watcher, queue, notice, told>>

\* The command ends, by itself or by the timeout(1) it runs under.
ProcessEnds(e) ==
    /\ e \in started \ exited
    /\ exited' = exited \cup {e}
    /\ UNCHANGED <<entries, delayed, started, threads, queue, tool, repl, heard>>

\* _close_on_exit(): the process is over; old executions are collected.
Collect(e) ==
    /\ watcher[e] = "watching" /\ e \in exited
    /\ watcher' = [watcher EXCEPT ![e] = "collected"]
    /\ entries' = entries \ Outdated
    /\ UNCHANGED <<delayed, procs, fast, spawner, queue, tool, repl, heard>>

\* _close_on_exit(): the completion is queued.
Announce(e) ==
    /\ watcher[e] = "collected"
    /\ watcher' = [watcher EXCEPT ![e] = "done"]
    /\ announced' = Append(announced, e)
    /\ UNCHANGED <<entries, delayed, procs, fast, spawner, claimed, tool, repl, heard>>

-----------------------------------------------------------------------------
(* nohup_query                                                             *)

\* Mutant: the answer does not look at proc.poll().
QueryBlind(t, e) ==
    /\ CanCall(t) /\ e \in entries
    /\ Return(t, {e})
    /\ UNCHANGED <<entries, delayed, procs, threads, queue, repl, heard>>

\* t_query_exec: the answer says whether a known execution is over.  That a
\* second query of a running one is redirected to nohup_wait changes nothing.
Query(t, e) ==
    /\ CanCall(t) /\ e \in Completed
    /\ Return(t, {e})
    /\ UNCHANGED <<entries, delayed, procs, threads, queue, repl, heard>>

-----------------------------------------------------------------------------
(* nohup_wait                                                              *)

\* The entry is read once; the wait keeps it even if it is collected.
WaitBegins(t, e) ==
    /\ CanCall(t) /\ e \in entries
    /\ tool' = [tool EXCEPT ![t] = [Idle EXCEPT !.op = "waiting", !.e = e]]
    /\ UNCHANGED <<entries, delayed, procs, threads, queue, repl, heard>>

Waiting(t) == tool[t].op = "waiting"

\* The loop finds the process over.  Its record stays in the queue.
WaitSeesExit(t) ==
    /\ Waiting(t) /\ tool[t].e \in exited
    /\ Return(t, {tool[t].e})
    /\ UNCHANGED <<entries, delayed, procs, threads, queue, repl, heard>>

\* Mutant: a record of another execution is thrown away.
WaitTakesOwn(t) ==
    /\ Waiting(t) /\ Queue # <<>>
    /\ claimed' = Append(claimed, Head(Queue))
    /\ IF Head(Queue) = tool[t].e THEN Return(t, {tool[t].e}) ELSE UNCHANGED tool
    /\ UNCHANGED <<entries, delayed, procs, threads, announced, repl, heard>>

\* The loop gets a record from the queue: its own, or another one's, which
\* its result will name as well.
WaitTakes(t) ==
    /\ Waiting(t) /\ Queue # <<>>
    /\ claimed' = Append(claimed, Head(Queue))
    /\ IF Head(Queue) = tool[t].e
       THEN Return(t, {tool[t].e})
       ELSE tool' = [tool EXCEPT ![t].news = @ \cup ({Head(Queue)} \ told)]
    /\ UNCHANGED <<entries, delayed, procs, threads, announced, repl, heard>>

\* The user typed, or the budget is used up: "completed": false.
WaitGivesUp(t) ==
    /\ Waiting(t)
    /\ typed \/ t \notin Patient
    /\ Return(t, {})
    /\ UNCHANGED <<entries, delayed, procs, threads, queue, repl, heard>>

-----------------------------------------------------------------------------
(* The REPL around it                                                      *)

\* The user types a line.  Only a wait asks for it: one typed earlier is typed
\* here when a wait has begun that has no other reason to give up.
UserTypes ==
    /\ ~typed /\ \E t \in Patient : Waiting(t)
    /\ typed' = TRUE
    /\ UNCHANGED <<entries, delayed, procs, threads, queue, tool, turn, notice, heard>>

\* Mutant: the notice names the newest completion only and drops the rest.
BeginTurnNewest ==
    /\ turn = "prompt" /\ Queue # <<>>
    /\ turn' = "entering"
    /\ claimed' = Append(claimed, Last(Queue))
    /\ notice' = ToSet(Queue) \ told
    /\ UNCHANGED <<entries, delayed, procs, threads, announced, tool, typed, heard>>

\* A turn starts with a line of the user, or because completions woke the
\* prompt; either way its task carries a notice of all that are queued.
BeginTurn ==
    /\ turn = "prompt" /\ Queue # <<>>
    /\ turn' = "entering"
    /\ claimed' = announced
    /\ notice' = ToSet(Queue) \ told
    /\ UNCHANGED <<entries, delayed, procs, threads, announced, tool, typed, heard>>

\* The task, with the notice, becomes a message of the history.
Submit ==
    /\ turn = "entering"
    /\ turn' = "running"
    /\ told' = told \cup notice
    /\ notice' = {}
    /\ UNCHANGED <<entries, delayed, procs, threads, queue, tool, typed, dropped>>

\* A UserPromptSubmit hook refuses the task, or Ctrl-C comes before it is in
\* the history: the notice goes with it.
NoticeDropped ==
    /\ turn = "entering"
    /\ turn' = "prompt" /\ typed' = FALSE
    /\ Drop(notice)
    /\ notice' = {}
    /\ UNCHANGED <<entries, delayed, procs, threads, queue, tool, told>>

\* A turn without a notice: nothing is queued; or it goes on without a task
\* (/c) or with a line that was typed during the turn before it, and does not
\* look at the queue.
BareTurn ==
    /\ turn = "prompt"
    /\ turn' = "running"
    /\ UNCHANGED <<entries, delayed, procs, threads, queue, tool, typed, notice, heard>>

\* The results of a batch go into the history.
HandOver ==
    /\ turn = "running" /\ BatchOver
    /\ told' = told \cup Held
    /\ tool' = [t \in Tools |-> Idle]

\* The next call of the answer, or the model answers with more calls.
NextBatch ==
    /\ \E t \in Tools : tool[t] # Idle
    /\ HandOver
    /\ UNCHANGED <<entries, delayed, procs, threads, queue, repl, dropped>>

\* The predicate is uninstalled; the prompt reads the line that was typed.
EndTurn ==
    /\ HandOver
    /\ turn' = "prompt" /\ typed' = FALSE
    /\ UNCHANGED <<entries, delayed, procs, threads, queue, notice, dropped>>

\* Ctrl-C: what the calls know does not reach the history.  On the main thread
\* it comes at any moment of a call, or between its end and the history; a
\* _spawn() that runs there stops where it is: without a process, without a
\* thread that watches the process, or with both.  The calls of a pool, those
\* included that have not begun, run to their end before the turn is left.
CutShort ==
    /\ turn = "running" /\ (BatchOver \/ \E t \in Tools : Alone(t))
    /\ turn' = "prompt" /\ typed' = FALSE
    /\ tool' = [t \in Tools |-> Idle]
    /\ spawner' = [e \in Execs |-> IF \E t \in Tools : Starting(t, e) THEN "done"
                                   ELSE spawner[e]]
    /\ Drop(Held \cup {e \in Execs : \E t \in Tools : Starting(t, e)})
    /\ UNCHANGED <<entries, delayed, procs, fast, watcher, queue, notice, told>>

Next ==
    \/ \E t \in Tools, e \in Execs, later \in BOOLEAN : Register(t, e, later)
    \/ \E e \in Execs :
           \/ Launch(e) \/ Decide(e) \/ SpawnReturns(e) \/ SpawnFails(e)
           \/ ProcessEnds(e) \/ Collect(e) \/ Announce(e)
    \/ \E t \in Tools, e \in Execs : Query(t, e) \/ WaitBegins(t, e)
    \/ \E t \in Tools : WaitSeesExit(t) \/ WaitTakes(t) \/ WaitGivesUp(t)
    \/ UserTypes \/ BeginTurn \/ Submit \/ NoticeDropped \/ BareTurn
    \/ NextBatch \/ EndTurn \/ CutShort

\* Threads run, commands end (timeout(1) sees to it), a wait polls every 0.1 s,
\* a turn that started goes on, and one that could end again and again does
\* end: its token budget stops it.  The prompt is woken by a queued completion,
\* unless the user is faster; he does not answer every prompt with /c for ever.
Fairness ==
    /\ \A e \in Execs :
           /\ WF_vars(Launch(e) \/ Decide(e) \/ SpawnReturns(e) \/ SpawnFails(e))
           /\ WF_vars(Collect(e) \/ Announce(e)) /\ WF_vars(ProcessEnds(e))
    /\ \A t \in Tools :
           WF_vars(WaitSeesExit(t) \/ WaitTakes(t) \/ WaitGivesUp(t))
    /\ WF_vars(Submit \/ NoticeDropped) /\ SF_vars(BeginTurn) /\ SF_vars(EndTurn)

Spec == Init /\ [][Next]_vars /\ Fairness

-----------------------------------------------------------------------------
(* Properties                                                              *)

\* An execution that is scheduled or running is never collected
\* (_prune_completed_executions): it can be queried, waited for and read.
RunningKept ==
    \A e \in Execs : spawner[e] # "none" /\ e \notin exited => e \in entries

\* Collection keeps the newest: whatever was collected, Retain executions
\* that started later are over too.
NewestKept ==
    \A x \in exited \ entries :
        Cardinality({y \in exited : Start(y) > Start(x)}) >= Retain

\* Both, of well-formed states: what _prune_completed_executions may take.
Retention == TypeOK /\ RunningKept /\ NewestKept

\* The model is never told of a completion that has not happened, whoever
\* tells it: the start, a query, a wait, a queue record.
EndedOnly == told \cup Held \cup ToSet(announced) \subseteq exited

\* "Whoever drains one owns reporting it" (drain_completions), with the
\* exception the code makes: a record that was taken is in the history or in
\* the result or notice that is to bring it there, unless a turn that was cut
\* short or refused dropped it.
NoneMislaid == ToSet(claimed) \subseteq told \cup Held \cup dropped

\* What the model hears is true, and what it must hear is not mislaid.
ToldTruthfully == EndedOnly /\ NoneMislaid

\* Completion records are taken once, oldest first, and none is left behind:
\* the queue between the watching threads, nohup_wait and the REPL.
M == INSTANCE Mailbox WITH Message <- Execs, sent <- announced, received <- claimed
ImplementsMailbox == M!Spec

\* The start of the awaited execution was cut short before it had a process.
Hopeless(t) == Waiting(t) /\ spawner[tool[t].e] = "done" /\ tool[t].e \notin started

\* A wait comes back: the execution ends, the budget is used up, or the user
\* types (t_nohup_wait); one for an execution that never started may not.
WaitsReturn == \A t \in Tools : Waiting(t) ~> ~Waiting(t) \/ Hopeless(t)

\* The history gets to know of every completion that has a record or an
\* inline result (README 391), or the turn that was to bring it there was cut
\* short or refused.  Left out are a delayed start that is over within its
\* first 100 ms and a start that Ctrl-C left without a watching thread
\* (AllCompletionsTold), and completions behind a wait that has no end.
CompletionsTold ==
    \A e \in Execs :
        (watcher[e] # "none" \/ e \in fast \ delayed)
            ~> e \in told \cup dropped \/ \E t \in Tools : Hopeless(t)

\* Nobody is left waiting, and no completion is left untold: the polling loop
\* of t_nohup_wait and the wake-ups of the REPL together.
AsyncLive == WaitsReturn /\ CompletionsTold

\* README 391: "When that command finishes, the model is pinged" - of every
\* execution.
AllCompletionsTold == \A e \in Execs : e \in exited ~> e \in told

\* drain_completions: "whoever drains one owns reporting it" - without the
\* exception.
DrainedIsReported == ToSet(claimed) \subseteq told \cup Held
=============================================================================
