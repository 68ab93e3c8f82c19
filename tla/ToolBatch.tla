------------------------------ MODULE ToolBatch ------------------------------
(***************************************************************************)
(* The tool calls of one answer (_run_turn in _core.py): one after the     *)
(* other on the main thread, or in a pool of workers                       *)
(* (parallel_tool_dispatch).  Workers and asynchronous hooks share the     *)
(* session: the process a cancellation can reach (_active_proc), the time  *)
(* span of the last tool, the hook contexts that ride on the next result,  *)
(* and the deferred tools a search reveals (mode kimi).                    *)
(*                                                                         *)
(* state.setdefault(key, []).append(x) is two steps: another thread may    *)
(* pop the list in between, and x goes into a list nobody reads.           *)
(***************************************************************************)
EXTENDS Naturals, SequencesExt

CONSTANTS
    N,                \* calls of an answer
    Workers,          \* parallel_tool_dispatch_max_workers
    Kinds,            \* kinds of calls that occur
    None,
    MaxBatches        \* bound: answers with calls

ASSUME BatchAssumption ==
    /\ N \in Nat \ {0} /\ Workers \in Nat \ {0} /\ MaxBatches \in Nat
    /\ Kinds \subseteq {"shell", "tool", "search", "malformed"} /\ Kinds # {}
    /\ None \notin 1 .. N

Calls == 1 .. N

VARIABLES
    parallel,         \* parallel_tool_dispatch, fixed
    turn,             \* where the main thread is
    batch,            \* answers with calls so far
    kind,             \* kind of each call of this answer
    pc,               \* where each call is
    messages,         \* calls whose tool message is built, in the order they are
                      \*   appended
    footer,           \* per call: whose span its message carries, or None
    active,           \* _active_proc: the call whose process it is, or None
    alive,            \* calls whose process runs
    signalled,        \* calls whose process was sent a signal
    strays,           \* how far calls were whose process outlived its answer
                      \*   without a signal
    span,             \* _time_awareness_pending_tool_span: whose, or None
    contexts,         \* pending_context and async_results: the threads whose
                      \*   contexts are queued
    hold,             \* per thread: the list it got is the one in the session
    hook,             \* where an asynchronous hook is
    lost,             \* a PostToolUse context went to a list nobody reads
    cancelled,        \* CancelToken.cancelled
    late,             \* calls dispatched after the cancellation
    unshown,          \* calls whose search recorded a tool in _revealed_tools and
                      \*   whose reveal message is not in the history
    extra,            \* step_extra: reveal messages to append after the results
    aborted           \* a turn was cut short inside an answer

vars == <<parallel, turn, batch, kind, pc, messages, footer, active, alive, signalled,
          strays, span, contexts, hold, hook, lost, cancelled, late, unshown, extra, aborted>>
process == <<active, alive, signalled, strays>>
timing == <<span, footer>>
context == <<contexts, hold, hook, lost>>
stopping == <<cancelled, late>>
reveal == <<unshown, extra>>
main == <<parallel, turn, batch, kind, messages, aborted>>

Async == N + 1         \* the thread of the asynchronous hook
Threads == Calls \cup {Async}
Places == {"queued", "passed", "spawned", "running", "ended", "hooked", "result", "stamped",
           "done", "raised"}

TypeOK ==
    /\ parallel \in BOOLEAN /\ aborted \in BOOLEAN /\ cancelled \in BOOLEAN
    /\ turn \in {"idle", "asking", "calling", "appending", "unwinding"}
    /\ batch \in 0 .. MaxBatches
    /\ kind \in [Calls -> Kinds] /\ pc \in [Calls -> Places]
    /\ messages \in Seq(Calls) /\ footer \in [Calls -> Calls \cup {None}]
    /\ active \in Calls \cup {None} /\ span \in Calls \cup {None}
    /\ alive \subseteq Calls /\ signalled \subseteq Calls /\ late \subseteq Calls
    /\ strays \subseteq Places
    /\ contexts \subseteq Threads /\ lost \in BOOLEAN
    /\ hold \in [Threads -> BOOLEAN]
    /\ hook \in {"none", "fetched", "over"}
    /\ unshown \subseteq Calls /\ extra \subseteq unshown

Init ==
    /\ parallel \in BOOLEAN
    /\ turn = "idle" /\ batch = 0
    /\ kind = [c \in Calls |-> CHOOSE k \in Kinds : TRUE]
    /\ pc = [c \in Calls |-> "done"]
    /\ messages = <<>> /\ footer = [c \in Calls |-> None]
    /\ active = None /\ alive = {} /\ signalled = {} /\ strays = {}
    /\ span = None
    /\ contexts = {} /\ hold = [t \in Threads |-> FALSE] /\ hook = "none"
    /\ lost = FALSE
    /\ cancelled = FALSE /\ late = {}
    /\ unshown = {} /\ extra = {}
    /\ aborted = FALSE

-----------------------------------------------------------------------------
(* Helpers                                                                 *)

Go(c, place) == pc' = [pc EXCEPT ![c] = place]

\* The call whose message comes next.
Due == Len(messages) + 1

Over(c) == pc[c] \in {"done", "raised"}
Busy == {c \in Calls : pc[c] # "queued" /\ ~Over(c)}

\* A worker takes the next call of the pool; the main thread the one that is
\* due, when it has looked for a cancellation.
MayStart(c) ==
    IF parallel
    THEN /\ pc[c] = "queued" /\ \A d \in 1 .. c - 1 : pc[d] # "queued"
         /\ turn \in {"calling", "unwinding"}
         /\ Cardinality(Busy) < Workers
    ELSE pc[c] = "passed"

\* _terminate_active_proc: the process in the slot is sent a signal.
Terminated == IF active = None THEN signalled ELSE signalled \cup {active}

\* The locals of an answer's calls, when they are over and the processes of sent
\* were sent a signal.
Forget(sent) ==
    /\ pc' = [c \in Calls |-> "done"] /\ footer' = [c \in Calls |-> None]
    /\ kind' = [c \in Calls |-> CHOOSE k \in Kinds : TRUE]
    /\ alive' = {} /\ signalled' = {} /\ late' = {}
    /\ strays' = strays \cup {pc[c] : c \in alive \ sent}

\* An exception leaves _run_turn: step_extra and the messages that were not
\* appended yet are gone.
Abort(sent) ==
    /\ turn' = "idle"
    /\ aborted' = TRUE
    /\ cancelled' = FALSE
    /\ extra' = {}
    /\ messages' = <<>>
    /\ Forget(sent)
    /\ UNCHANGED <<parallel, batch>>

-----------------------------------------------------------------------------
(* The turn                                                                *)

BeginTurn ==
    /\ turn = "idle"
    /\ turn' = "asking"
    /\ UNCHANGED <<parallel, batch, kind, pc, messages, aborted, process, timing,
                   context, stopping, reveal>>

\* The model answers with calls; its usage sets the countdown.
Answer ==
    /\ turn = "asking" /\ ~cancelled /\ batch < MaxBatches
    /\ turn' = "calling"
    /\ batch' = batch + 1
    /\ kind' \in [Calls -> Kinds]
    /\ pc' = [c \in Calls |-> "queued"]
    /\ messages' = <<>>
    /\ UNCHANGED <<parallel, aborted, process, timing, context, stopping, reveal>>

\* The answer has no calls, or the cancellation is seen before the request.
EndTurn ==
    /\ turn = "asking"
    /\ turn' = "idle"
    /\ messages' = <<>>
    /\ cancelled' = FALSE
    /\ Forget(signalled)
    /\ UNCHANGED <<parallel, batch, aborted, active, span, context, reveal>>

\* Mutant: the flag is set and the process left alone.
CancelFlagOnly ==
    /\ turn \in {"asking", "calling"} /\ ~cancelled
    /\ cancelled' = TRUE
    /\ UNCHANGED <<main, pc, process, timing, context, late, reveal>>

\* CancelToken.cancel: the process in the slot is terminated.
Cancel ==
    /\ turn \in {"asking", "calling"} /\ ~cancelled
    /\ cancelled' = TRUE
    /\ signalled' = Terminated
    /\ UNCHANGED <<main, pc, active, alive, strays, timing, context, late, reveal>>

\* _check_cancelled: before every call, or when the pool is done.
SeeCancelled ==
    /\ turn = "calling" /\ cancelled
    /\ IF parallel THEN Due > N ELSE Due <= N /\ Busy = {} /\ pc[Due] = "queued"
    /\ Abort(signalled)
    /\ UNCHANGED <<active, span, context, unshown>>

\* Mutant: the handler raises before it has terminated anything.
InterruptFirst ==
    /\ turn = "calling" /\ Due <= N
    /\ IF parallel
       THEN /\ turn' = "unwinding"
            /\ UNCHANGED <<parallel, batch, kind, messages, aborted, pc, footer, process,
                           stopping, extra, hold>>
       ELSE /\ Abort(signalled)
            /\ active' = None
            /\ hold' = [t \in Threads |-> t = Async /\ hold[t]]
    /\ UNCHANGED <<span, contexts, hook, lost, unshown>>

\* SIGINT: the handler terminates the process in the slot and raises.  On the
\* main thread the call is over, and t_run clears the slot: a command it had
\* started and not registered yet runs on, out of reach.  A pool is left only
\* when all its calls are over.
Interrupt ==
    /\ turn = "calling" /\ Due <= N
    /\ IF parallel
       THEN /\ turn' = "unwinding"
            /\ signalled' = Terminated
            /\ UNCHANGED <<parallel, batch, kind, messages, aborted, pc, footer, active,
                           alive, strays, stopping, extra, hold>>
       ELSE /\ Abort(Terminated)
            /\ active' = None
            /\ hold' = [t \in Threads |-> t = Async /\ hold[t]]
    /\ UNCHANGED <<span, contexts, hook, lost, unshown>>

LeavePool ==
    /\ turn = "unwinding" /\ \A c \in Calls : Over(c)
    /\ Abort(signalled)
    /\ UNCHANGED <<active, span, context, unshown>>

-----------------------------------------------------------------------------
(* One call (_run_one)                                                     *)

\* _check_cancelled finds nothing; the PreToolUse hooks come next.
Pass(c) ==
    /\ ~parallel /\ turn = "calling" /\ pc[c] = "queued" /\ c = Due
    /\ ~cancelled
    /\ Go(c, "passed")
    /\ UNCHANGED <<main, process, timing, context, stopping, reveal>>

\* A shell command is spawned, and only then put in _active_proc.  A search
\* records what it reveals.
Start(c) ==
    /\ MayStart(c)
    /\ Go(c, CASE kind[c] = "shell" -> "spawned"
               [] kind[c] = "tool" -> "running"
               [] OTHER -> "result")
    /\ alive' = IF kind[c] = "shell" THEN alive \cup {c} ELSE alive
    /\ late' = IF cancelled THEN late \cup {c} ELSE late
    /\ IF kind[c] = "search"
       THEN unshown' = unshown \cup {c} /\ extra' = extra \cup {c}
       ELSE UNCHANGED reveal
    /\ UNCHANGED <<main, active, signalled, strays, timing, context, cancelled>>

Register(c) ==
    /\ pc[c] = "spawned"
    /\ Go(c, "running")
    /\ active' = c
    /\ UNCHANGED <<main, alive, signalled, strays, timing, context, stopping, reveal>>

\* The tool returns (a command also when it times out): t_run clears the slot
\* whoever is in it, and the span is noted.
ToolReturns(c) ==
    /\ pc[c] = "running"
    /\ Go(c, "ended")
    /\ alive' = alive \ {c}
    /\ active' = IF kind[c] = "shell" THEN None ELSE active
    /\ span' = c
    /\ UNCHANGED <<main, signalled, strays, footer, context, stopping, reveal>>

\* A tool raises: the turn ends, or the worker's future keeps the exception.
ToolRaises(c) ==
    /\ pc[c] = "running" /\ kind[c] = "tool"
    /\ IF parallel
       THEN /\ Go(c, "raised")
            /\ UNCHANGED <<main, footer, alive, signalled, strays, stopping, extra>>
       ELSE Abort(signalled)
    /\ UNCHANGED <<active, span, context, unshown>>

\* A context goes to the list the thread got from the session.
Queue(t) ==
    /\ contexts' = IF hold[t] THEN contexts \cup {t} ELSE contexts
    /\ lost' = (lost \/ (~hold[t] /\ t # Async))
    /\ hold' = [hold EXCEPT ![t] = FALSE]

\* PostToolUse hooks: no context, or one that is queued in two steps.
PostHooks(c) ==
    /\ pc[c] = "ended"
    /\ \/ Go(c, "result") /\ UNCHANGED hold
       \/ Go(c, "hooked") /\ hold' = [hold EXCEPT ![c] = TRUE]
    /\ UNCHANGED <<main, process, timing, contexts, hook, lost, stopping,
                   reveal>>

QueueContext(c) ==
    /\ pc[c] = "hooked"
    /\ Go(c, "result")
    /\ Queue(c)
    /\ UNCHANGED <<main, process, timing, hook, stopping, reveal>>

\* Mutant: the message of a call that raised is written once no other has.
WriteFailureAlone(c) ==
    /\ parallel /\ turn = "calling" /\ pc[c] = "raised" /\ c = Due
    /\ \A d \in Calls \ {c} : pc[d] # "raised"
    /\ Go(c, "result")
    /\ UNCHANGED <<main, process, timing, context, stopping, reveal>>

\* A call that raised in the pool gets its message from the main thread, when
\* its turn comes.
WriteFailure(c) ==
    /\ parallel /\ turn = "calling" /\ pc[c] = "raised" /\ c = Due
    /\ Go(c, "result")
    /\ UNCHANGED <<main, process, timing, context, stopping, reveal>>

\* _with_pending_ta: first the footer of the time span that is noted ...
Stamp(c) ==
    /\ pc[c] = "result"
    /\ Go(c, "stamped")
    /\ footer' = [footer EXCEPT ![c] = span]
    /\ span' = None
    /\ UNCHANGED <<main, process, context, stopping, reveal>>

\* Mutant: only the first result takes what is queued.
DeliverFirst(c) ==
    /\ pc[c] = "stamped"
    /\ Go(c, "done")
    /\ contexts' = IF c = 1 THEN {} ELSE contexts
    /\ hold' = [t \in Threads |-> FALSE]
    /\ UNCHANGED <<main, process, timing, hook, lost, stopping, reveal>>

\* ... then everything the hooks queued leaves the session.
Deliver(c) ==
    /\ pc[c] = "stamped"
    /\ Go(c, "done")
    /\ contexts' = {}
    /\ hold' = [t \in Threads |-> FALSE]
    /\ UNCHANGED <<main, process, timing, hook, lost, stopping, reveal>>

Call(c) ==
    \/ Pass(c) \/ Start(c) \/ Register(c) \/ ToolReturns(c) \/ ToolRaises(c)
    \/ PostHooks(c) \/ QueueContext(c) \/ WriteFailure(c) \/ Stamp(c) \/ Deliver(c)

-----------------------------------------------------------------------------
(* The results                                                             *)

\* Mutant: results are taken as the workers finish.
MayTakeAny(c) == TRUE

\* The main thread takes the results in the order of the calls.
MayTake(c) == c = Due

Take(c) ==
    /\ turn = "calling" /\ pc[c] = "done"
    /\ MayTake(c) /\ c \notin ToSet(messages)
    /\ messages' = Append(messages, c)
    /\ UNCHANGED <<parallel, turn, batch, kind, aborted, pc, process, timing, context,
                   stopping, reveal>>

\* All results are in the history; reveal messages follow them.
StepDone ==
    /\ turn = "calling" /\ Due > N
    /\ parallel => ~cancelled
    /\ turn' = "asking"
    /\ unshown' = unshown \ extra
    /\ extra' = {}
    /\ Forget(signalled)
    /\ UNCHANGED <<parallel, batch, messages, aborted, active, span, context, cancelled>>

-----------------------------------------------------------------------------
(* An asynchronous hook (_run_async_entry); bound: one, in the last answer  *)

HookEnds ==
    /\ hook = "none" /\ turn = "calling" /\ batch = MaxBatches
    /\ hook' = "fetched"
    /\ hold' = [hold EXCEPT ![Async] = TRUE]
    /\ UNCHANGED <<main, pc, process, timing, contexts, lost, stopping, reveal>>

HookQueues ==
    /\ hook = "fetched"
    /\ hook' = "over"
    /\ Queue(Async)
    /\ UNCHANGED <<main, pc, process, timing, stopping, reveal>>

-----------------------------------------------------------------------------
Results == LeavePool \/ SeeCancelled \/ StepDone \/ \E c \in Calls : Take(c)
Next ==
    \/ BeginTurn \/ Answer \/ EndTurn \/ Cancel \/ Interrupt \/ Results
    \/ HookEnds \/ HookQueues
    \/ \E c \in Calls : Call(c)

\* Threads run, a command ends or times out; nobody has to cancel anything.
Spec ==
    /\ Init /\ [][Next]_vars
    /\ WF_vars(Results)
    /\ \A c \in Calls : WF_vars(Call(c))

-----------------------------------------------------------------------------
(* Properties                                                              *)

\* Whatever order the workers finish in and whichever of them raise, the next
\* request has one result per call, in the order of the calls
\* ("Append in tool_calls order so history/replay stay deterministic").
ResultsComplete ==
    /\ \A i \in DOMAIN messages : messages[i] = i
    /\ turn = "asking" => Len(messages) \in {0, N}

\* On one thread no context of a hook is lost, and a result carries the time of
\* its own call or none (after a turn cut short in a PostToolUse hook the span is
\* left for the next result).
SequentialExact ==
    ~parallel =>
        /\ aborted \/ \A c \in Calls : footer[c] \in {c, None}
        /\ ~lost

\* What the hooks of a call say is in a result of the step before the next
\* request, from several threads too, unless it was lost to a popped list.
ContextTold == turn = "asking" /\ ~aborted => contexts \subseteq {Async}

\* Contexts and times go where they belong, on one thread and on several.
ContextsSound == SequentialExact /\ ContextTold

\* On the main thread a cancellation terminates the command that is in the slot
\* (CancelToken: "Any subprocess the current tool call has in flight is aborted",
\* which leaves out one that is spawned and not registered yet).
CancelReaches ==
    ~parallel /\ cancelled' /\ ~cancelled
        => {c \in alive : pc[c] = "running"} \subseteq signalled'

\* After a cancellation one call at most is dispatched: the one that had passed
\* the check and was in its PreToolUse hooks.
CancelStops == ~parallel => Cardinality(late) <= 1

\* Whatever ends an answer's calls (Ctrl-C, a cancellation, a tool that raises),
\* on one thread and in a pool: no command of theirs runs on without a signal,
\* but for one that Ctrl-C caught between Popen and _active_proc.
CommandsStopped == strays \subseteq {"spawned"}

\* Who stops a turn reaches the command it has in the slot, by CancelToken and by
\* Ctrl-C, and little more is started.
CancelSound == [][CancelReaches /\ CancelStops' /\ CommandsStopped']_vars

\* While no turn was cut short, a tool recorded as revealed is in the history
\* by the next request (_deferred_tools.py: "A revealed tool stays available").
RevealShown == turn = "asking" /\ ~aborted => unshown = {}

\* What the next request finds in the history (_run_turn).
ResultsSound == TypeOK /\ ResultsComplete /\ RevealShown

\* Every answer's calls come to an end, also after Ctrl-C.
BatchEnds == turn \in {"calling", "unwinding"} ~> turn \in {"asking", "idle"}
=============================================================================
