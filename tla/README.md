# A verification development for agentknit

agentknit is a framework for LLM agents: a session holds a conversation, a turn
sends it to a model, runs the tool calls the model makes and feeds their results
back until the model gives a final reply.  Around that loop are a journal that
makes it durable, a pool of worker threads, background executions, hooks, an
HTTP client with retries, and an interactive loop with a control socket.  This
directory models them in TLA+, checks the models with TLC and proves parts of
them with TLAPS.

Line numbers refer to the sources under `src/agentknit/` (`_core.py` unless
another file is named); `PROJECT.json` maps every definition to its lines.

## 1. Inventory

| Component (source) | State | Operations | Interacts with | What is hard | What makes it correct |
|---|---|---|---|---|---|
| Session journal (`_journal.py`) | the `.jsonl` file, `_seq`, the append lock, the lock file | open and tail repair, append, close, replay | turn loop and tool handler append; resume replays | tool threads append at once; two processes; crashes at any byte; failing writes; a crash inside the repair | an acknowledged record survives and is replayed once, in order |
| Turn loop (`run_turn`, `_run_turn`) | `session["messages"]`, Stop guard, retry counter, token budget | repair, turn records, merge or append, request, dispatch, final reply | journal, hooks, HTTP client, compaction | interruption anywhere, retries, order of journal and memory | every request is paired; the journal is the history; the turn ends |
| Tool call handler (`_handle_tool_call`) | the call's records | PreToolUse, write-ahead, dispatch, PostToolUse, tool_end | journal, hooks, tools, worker threads | a crash between effect and record; refusal; exception | an effect is never unrecorded |
| Parallel dispatch (`_run_turn`) | futures, `_active_proc`, time span, pending contexts | run the calls of one answer in a pool | tool handler, cancellation | order of completion, one raises, shared slots | one result per call, in order; contexts and spans reach the next request |
| Resume (`init_session`) | the recovered history | load snapshot, replay, normalise, notes | snapshot, journal | stale or torn snapshot, open turns, calls in flight | the model sees what happened, and no more |
| History functions | pure | repair, merge, flatten | turn loop, resume | orphans anywhere, order of the passes | paired, alternating, nothing lost |
| Compaction (`compact_session`, `_maybe_compact`) | history, watermark | split, summarise, replace, journal, save | turn loop, `/compact`, overflow | a new list in the middle of a turn; the summary overflows; a blocked compaction | never cuts a call from its result; no storm |
| Snapshot (`_save_messages_snapshot`) | `_messages.json` | save, load | REPL, compaction, resume | written in place | readable, or not needed |
| Token accounting (`_run_turn`, `_enforce_cache_proof`) | totals, countdown, cache status | per answer | turn loop, user (doubling) | missing usage, cold caches, doubled budgets | bounded overspend, a truthful countdown |
| REPL (`run_repl`, `run_async_repl`, `_InputCollector`) | queued lines, `_in_turn`, `_busy` | turns, slash commands, questions, teardown | turn loop, background executions, control socket | lines typed during turns, Ctrl-C, two readers of one terminal | each line runs once, in order |
| Control socket (`_control.py`, `poll_control_inbox`) | inbox, busy flag | accept, poll | REPL | messages while a turn starts, ends or is interrupted | served once, in order; a truthful status |
| Background execution (`async_toolkit.py`) | table of executions, completion queue | start, query, wait, complete, collect | tools, notices of the REPL | threads, delays, timeouts, user input | every completion is told once, and not too early |
| Hooks (`hooks.py`, `_fire_hooks`) | registry, pending contexts, asynchronous results | fire, normalise, combine, drain | all of the above | disagreeing and failing handlers | a refusal stands; a broken handler decides nothing |
| HTTP client (`openai_compat.py`) | rate limiter, retry budgets, stall watchdog | acquire, post, stream | turn loop, threads | retries, stalls, late lines | bounded rate and retries, no piece of a dead attempt |
| Interruption (SIGINT, `CancelToken`) | flags, active process | cancel, unwind | turn loop, tools, REPL | a signal at any point | commands die, the turn ends |
| Deferred tools (`_deferred_tools.py`) | catalog, revealed and hidden tools | search, reveal, keep through compaction | parallel dispatch, compaction, `/clear`, resume | a turn cut short, a summarised reveal | a revealed tool stays callable and is declared once |
| Tools (`tool_library.py`) | files | read, update, patch, run | tool handler | edges of windows and hunks | what was asked, or nothing |
| Sandbox, keys, inference DB, pricing, specification loading, CLI | configuration | – | – | little state | – |

## 2. Modules

```
AppendLog <- refined by - JournalFile ------- JournalFileProofs
                             | (its records)
History <---- JournalReplay <-- DurableSession -- DurableSessionProofs
   ^------ HistoryFunctions -- FunctionProofs <------'
   |          HookFunctions --------^
   ^--- Deferred <-- DeferredFunctions -- FunctionProofs
Mailbox <--- refined by - AsyncExec --------- AsyncExecProofs
ToolBatch - ToolBatchProofs      Accounting - AccountingProofs
HttpClient - HttpClientProofs    Repl ------- ReplProofs
Hooks <-- HookFunctions
HistoryFunctions, HookFunctions, DeferredFunctions, Completion, Files <-- MCFunctions
```

The dynamic modules cut the program at seams where one side only sees a free
choice of the other: `DurableSession` chooses what the model answers and when a
compaction happens, `Accounting` says when it does; `ToolBatch` refines the
dispatch `DurableSession` takes one call at a time; `Repl` chooses when a turn
ends.

* **AppendLog**, **Mailbox** – what a journal and what a queue promise: records
  join a log at its end, and an acknowledged one stays; messages are received
  once, in order, and none waits for ever.
* **JournalFile** – class `SessionJournal` and the line loop of `replay_journal`
  over a file of fragments.  A line is written in three pieces (half of the
  JSON, the rest, the newline), so that every cut the code can tell apart
  occurs.  Processes and their threads take the file lock, repair the tail in
  the code's two steps, count, append under `_append_lock`, fail, die and come
  back.
* **JournalReplay** – the records and the state `replay_journal` makes of them.
  `JournalFile` shows that a replay reads the appended records, so above this
  level a journal *is* that state.
* **History** – the conversation and the pure functions on it, and what it says
  apart from notes and system prompts (`Conversation`).  A message is its
  role, its calls, the id it answers, and a *set* of things it says: enough to
  see what is lost, repeated, or attributed to the wrong call.
* **HistoryFunctions** – those functions applied, one per step
  (**FunctionStep**), to every
  transcript of a bounded length, and what each promises.
* **Deferred** – tools shown on demand, over a `History` whose messages name the
  tools they reveal; a session is a record that searches, prompts, compactions,
  `/clear` and resumes rewrite.  What the endpoint then lets the model call is
  external (`Callable`).
* **DeferredFunctions** – a session from its first prompt through any bounded
  sequence of those events, and what it keeps.
* **DurableSession** – one session through turns, interruptions, crashes and
  resumes (table below).  One action stands for the code between two durable
  writes or side effects, so a crash can hit between any two.
* **ToolBatch** – the calls of one answer, in sequence or in a pool.  Each call
  has its place (`queued`, `passed` the hooks and the cancel check, `spawned`,
  `running`, …, `done`, `raised`); what the threads share is state of its own:
  `active` (`_active_proc`), `span`, `contexts` with `hold` for the list a
  `setdefault` returned, `hook` for an asynchronous hook.  Ctrl-C and a
  cancellation can come at every point.
* **Accounting** – what a turn spends and what follows from it: the budget and
  its doubling, `_maybe_compact` with its watermark and hysteresis, overflow
  retries, the countdown and its reminder, the cache proof, the Stop guard.  A
  history is its size in tokens.
* **AsyncExec** – registration, delayed and immediate start, the 100 ms fast
  path, the watching thread (`_close_on_exit`), `_prune_completed_executions`,
  the completion queue, `nohup_query`, `nohup_wait`, and the REPL that drains
  the queue into the notice of a turn.  Calls run together in a pool or one
  after the other on the main thread (a batch of one).  What a call or a notice
  knows is on its way (`news`, `notice`) until it is a message of the history;
  a refused prompt, a KeyError on the main thread and Ctrl-C, anywhere in a
  call, drop it.
* **HttpClient** – `RateLimiter.acquire`, which sleeps holding its lock,
  `_retry_post` with its three budgets, `_create_streaming` with its watchdog.
  Time is the age of the limiter's stamps.
* **Repl** – both loops (`mode`): `run_repl` with the control socket, and
  `run_async_repl` with the reader thread of `_InputCollector`; lines, messages,
  finished executions and Ctrl-C arrive at any time.
* **Hooks**, **Completion**, **Files** – pure functions: what a handler's
  outcome means and how several become one; waits and the assembly of a streamed
  answer; the window of `t_read`, the edit of `t_update`, the patch format.
* **HookFunctions** – the hook contract applied to whatever handlers can come up
  with (`Outcomes`, a constant) and to whatever can be registered (`Entries`),
  and what it promises.

| `DurableSession` | code |
|---|---|
| `jr`, `snapshot`, `torn` | the journal file, `<id>_messages.json`, whether the latter is cut short |
| `messages`, `todo`, `results`, `stopped`, `retries` | `session["messages"]`, the calls of the answer still to do, inline results, `stop_hook_active`, `context_overflow_retries` |
| `ran`, `mark`, `cleared`, `cut` | not in the code: which tools had their effect, where the latest turn's calls begin, what `/clear` removed, whether a process died inside the latest turn |
| `Start` | `init_session`, first start and resume |
| `BeginTurn`, `PromptBlocked`, `Submit`, `Resubmit`, `InterruptedEarly` | `_run_turn` up to its `try` |
| `ModelAnswers`, `TurnAborts`, `DoubleBudget`, `CompactAndRetry`, `CompactNow` | the request loop, its errors, the budget, the compactions |
| `AnswerCalls`, `StartTool`, `RefuseTool`, `RunTool`, `EndTool`, `ToolRaises`, `AppendResult`, `CollectResult`, `StepDone` | the dispatch of an answer's calls |
| `AnswerFinal`, `StopBlocked`, `ReplyStands`, `EndTurn`, `SaveSnapshot` | the final reply, Stop hooks, the `finally`, the snapshot |
| `Clear`, `Exit`, `Crash`, `CrashSaving` | `/clear`, leaving the REPL, a dying process, one dying while it writes the snapshot |

Variables that are not in the code record what a property compares: in `Repl`
`ran`, `handled`, `served` and `caught`; in `HttpClient` `recent` (all admitted
requests, where the code's `stamps` are what the limiter kept) and `slow`; in
`AsyncExec` `announced`, `claimed`, `told` and `dropped`; in `ToolBatch` `footer`,
`signalled`, `strays`, `late`, `lost` and `unshown`; in `Accounting` `firings`, `armed`,
`hit` and `doubled`.

What is taken as one step: a journal append and the list operation next to it
(a signal between those two bytecodes is not modelled); a dict or deque
operation, which the interpreter does not interrupt; a `with lock` block that
does no input or output.  `setdefault(...).append` and `get` ... `pop` are two
steps, because other threads do run in between.  `stdin` is a terminal, where
`select` reports whole lines; a signal reaches Python code only between
bytecodes of the main thread.

## 3. Runs

| run | bounds | shows |
|---|---|---|
| `journal_exclusive` | 2 processes, 2 threads, 3 appends, 2 crashes | the file always replays to the acknowledged records in order and numbered without gaps (`ReplaySound`), and implements `AppendLog` (`ImplementsLog`) |
| `journal_faults` | the same with 4 appends, 3 crashes, failing appends, cuts before a newline; symmetric | what was acknowledged is on disk, even when the file no longer replays (`AckedKept`) |
| `functions` | transcripts of up to 5 of 9 message kinds; all 9 events, 2 handlers with 66 outcomes each; sessions of 4 events, 2 deferred tools and an unknown one; texts of 4 characters | the pure functions against what they are for: repair pairs any transcript and leaves a good one alone (`RepairSound`); a resumed one alternates and loses nothing the user said (`ResumeSafe`); compaction cuts no call from its result (`SummaryClean`); tools revealed on demand survive any 4 searches, prompts, compactions, `/clear` and resumes (`RevealedKept`); a refusing hook stops the call and the input it runs with comes from the handler that decided (`GateSound`), their order decides only whose rewriting is used, duplicates do not matter and a broken one might as well not be there (`HooksIndependent`); a stream's calls are assembled whole however their deltas interleave (`ClientExact`); edits, pages and unambiguous hunks are exact, but for the empty line a hunk without new lines leaves (`FilesExact`) |
| `crash` | default mode, 2 turns, 2 calls in one answer, 1 stop | write-ahead (`EffectsJournalled`), well-formed requests (`RequestPaired`), nothing that ran is unaccounted for after a crash (`EffectsRecovered`), true and disjoint notes (`NotesTruthful`, `InFlightUnended`), a crash inside a turn is seen (`MidTurnSeen`) |
| `capture` | durable capture, repeated call ids, 2 turns, 2 calls, 1 compaction, 1 stop | the journal replays to the live conversation (`JournalIsHistory`); every request stays paired with renamed ids |
| `inline` | calls in the text, 2 turns, 1 call, 1 compaction, 2 stops | the same discipline through a crash in the recovery from a crash; `/clear` is final (`ClearedStaysCleared`) |
| `step` | 2 calls, 2 workers, 3 kinds of tools, 2 answers | results complete and in order, reveals shown (`ResultsSound`); contexts and time spans where they belong (`ContextsSound`); a cancellation and Ctrl-C signal the registered command, only one not registered yet outlives its answer, and a cancellation lets one more call through at most (`CancelSound`); every answer comes to its end (`BatchEnds`) |
| `accounting` | window 6, trigger 4, budget 3 and one doubling, countdown 5 | no compaction storm (`StormBounded`), a bounded overspend with a truthful countdown and cache warning (`CountersSound`), one reminder per crossing and process, and turns that end (`TurnSound`) |
| `async_exec` | 2 executions, 2 tool threads (one waits without budget), 1 retained | only old, finished executions are collected (`Retention`), no completion is told early, and a record that was taken is in the history or on its way unless a cut or refused turn dropped it (`ToldTruthfully`); each record is taken once and in order (`ImplementsMailbox`); waits return, except one for an execution whose start was cut short, and the history learns of every completion that no such turn dropped (`AsyncLive`) |
| `http` | 2 callers, one streaming, 2 requests per 2 ticks, 1 retry of each kind | the rate holds in every window (`RateBounded`), an answer comes from one attempt after a bounded number of slow ones (`AttemptsSound`), every call comes back (`CallsEnd`) |
| `repl` | 3 lines, 2 messages, 1 completion, 2 presses of Ctrl-C | lines run once and in order (`QueueSound`), one reader at the terminal and a truthful status (`InputSound`), nobody waits for ever (`Served`) |
| `torn_snapshot` (violated) | default mode, 1 call, 1 stop | a crash while the snapshot is written makes every resume raise |

The bounds are the smallest at which the interesting cases meet.  Two calls, so
that one is done and one in flight, or one raises beside the other; two turns
with a stop between them, so that a resume continues an interrupted one; `Keep`
is 2, so that a split can fall between a call and its result; two answers in
`ToolBatch`, because a context or a span that stays behind shows in the next
one; a window of 6 over a trigger of 4, so that the prompt can climb past the
hysteresis (1) and past the window; two executions and one retained, so that one
must be collected while the other runs; three lines, so that one is run, one
pending and one collected.  The functions are checked on every input of their
bound.

`capture` has a `VIEW` (`Observed`) that leaves out `ran`, `mark`, `cleared` and
`cut`: no guard and neither of its properties reads them.  It also passes with 2
stops (a million states).

Deadlock is checked except where the system stops by itself: `functions` (one
step per input), `http` (every caller has its answer) and `repl` (the session is
over).  Every property of a passing run is broken by a mutated definition
(`RepairForgetsAnswer`, `StartToolUnlogged`, `WatermarkIfDone`, …), each a plausible
slip in the mapped code and marked "Mutant" where it stands; `PROJECT.json` pairs
them.

### Fairness

Liveness is assumed of what the machine does and never of what a person or a
peer might do.

* `ToolBatch`: threads run, and a command ends (its timeout kills it).
* `AsyncExec`: the threads of an execution run and its command ends (`timeout(1)`
  wraps it); a `nohup_wait` polls every 0.1 s; a turn that started puts its task
  into the history or is refused.  Ending a turn is *strongly* fair: the loop
  passes that point after every answer, and the token budget stops a turn that
  calls tools for ever.  So is the turn with a notice (`BeginTurn`): the prompt
  wakes for a queued completion, but `/c` and lines typed during the turn before
  come without a notice, and only a user who answers every prompt with those for
  ever keeps it away.
* `HttpClient`: time passes; a request is answered or times out (`httpx` has a
  read timeout); a stream ends, breaks or falls silent; a stream the watchdog
  closed returns.  Getting the limiter's lock is strongly fair: the lock is
  free again and again while a thread keeps asking.
* `Accounting`: the turn goes on.
* `Repl`: the main thread, the reader and the wake-up run; nobody has to type,
  to send, to answer a question or to press Ctrl-C, which is why `Served`
  excepts a question that waits.
* `DurableSession` and `JournalFile` have no fairness: what they promise is
  safety.

## 4. Proofs

All for any values of the constants, under the assumptions named in the modules
(types of the constants, and a model value apart from the others).

| module | theorem | establishes | argument |
|---|---|---|---|
| `JournalFileProofs` | `TypeCorrect`, `AckedNeverLost` | types; with `OneWriter` and no crash inside the repair's rewrite, `AckedKept` | one process at most is between open and close; a record being written is at the end of the file up to its `done` pieces; what the repair holds in memory is the prefix up to the last newline, with every whole line in it |
| | `ReplayAlwaysSound`, `FileIsLog` | with only crashes, none of them before a newline or inside a repair's rewrite (`OnlyCrashes`): `ReplaySound` and, whole, the refinement `ImplementsLog` | `LogInv`: record k is at places 3k-2 to 3k of the file and has the number k; only the last may be unfinished, while it is written or when a crash left its first piece; so the heads a replay reads are those places, and a repair takes whole lines to memory and back. The second piece of a write is the log's `Write`, the end of an append its `Acknowledge` |
| `FunctionProofs` | `RepairIsSound`, `ResumeIsSafe`, `CompactionIsClean` | `RepairSound`, `ResumeSafe`, `SummaryClean` for transcripts of every length | each fold is unfolded once into its *run* (what it holds after each message, `FoldRuns`); a property of the run is shown at 0 and handed on from each message to the next (`Induction`, from the least number of a set of naturals). `Owes(h, open)`: what a history still has to answer after each message; `Feeds`, `Awaits`: which calls a tool message may answer |
| | `GateIsSound`, `HandlersAreIndependent` | `GateSound`, `HooksIndependent` for any number of handlers, any outcomes and any registry | one handler's decision by cases (`NormalizeCases`; before a tool nothing can stop everything, so a refusal is a deny or a block); several by their parts (`CombineIs`): which flags and which permissions are there, and the first that gives a value (`IsFirst`). Permuting the handlers keeps the set of decisions, dropping a broken one shifts the positions; deduplication is one more run |
| | `RevealedStays` | `RevealedKept` for any catalog, any searches and sessions of any length | a session's life is one more run, and each event keeps `SessionInv`: with glm, what was found is recorded, and what of it is still hidden is named by a message – so a compaction that summarises the message away must reveal it; with kimi, what was found is declared, only by system messages, which `/clear` and a compaction keep; until a resume what is declared is what is recorded, once each (`OnceConcat`, `OnceApart`: declarations in a history and in its parts) |
| `DurableSessionProofs` | `TypesKept` | `TypeOK` | `TypeInv`: every history is a sequence of well-formed messages; repair, merge, flattening, compaction and the notes keep that |
| | `OpenTurnSeen`, `WriteAheadHolds`, `NotesDisjoint` | `MidTurnSeen`; with ids that are not repeated (`FreshIds`), `EffectsJournalled`, `InFlightUnended` | `CallInv`: known calls were minted so far with id = number, those still to dispatch are distinct and new, the one about to run is pending |
| | `RequestsArePaired` | with ids that are not repeated, durable capture, or flattening (`OneCallPerId`, that is in all modes but one): `RequestPaired` | `IdsInv`: an id names one call in each of the three histories, and with capture the live one has every id of the journal. `PairInv`: the live history owes exactly the results of the calls still to do while they are dispatched, and nothing before and after |
| | `NotesAreTruthful` | with `FreshIds`, `NotesTruthful` | `NotesInv`: in each of the histories a result answers the call whose number it says, no call is both noted as known and shown with its result, and nothing is said of a call still to dispatch |
| | `EffectsAreRecovered` | with `FreshIds`, structured calls and no flattening (`Noting`): `EffectsRecovered` inside turns, and always when nothing is compacted | `FeedsInv`: a tool message answers a call still open before it. `AnswerInv`: in the latest turn's part of the journal no placeholder stands for a result, so a finished call shows its result or is still found by the known-results note |
| | `JournalAlwaysHistory` | with durable capture (`Capture`) and no flattening, whatever ids the provider repeats: `JournalIsHistory` | `SameInv`: both histories have the same `Conversation` and, while structured calls are dispatched, the same calls left open (`Standing`), so that a result means the same to both. It needs `FeedsInv`, because a repair changes no conversation only when every tool message answers an open call; `DueInv` (the calls to dispatch have ids of their own) to keep that; and `IdsInv` and `SystemInv`. `RepairTalk`, `MergeTalk` and `NormaliseTalk`: a repair, a merge and a resume say what they were given; `BothHear` and `BothAnswered`: equal conversations stay equal when a message, or a result, joins both |
| | `PromptIsKept`, `ClearIsFinal` | with durable capture (`Capture`), `SystemPromptKept`; with `FreshIds` too, `ClearedStaysCleared` | `SystemInv`: once the journal has a system message it and the live history keep one, so `/clear` keeps system messages only and a resume takes the journal, never an older snapshot. `ClearInv`: what was cleared is said in neither the journal nor the live history, and is older than the turn in progress, which can only say what has its own number or those of its calls (`NumbersInv`, `NewsStep`) |
| `ToolBatchProofs` | `ResultsAlwaysSound`, `ContextsAlwaysSound`, `CancelAlwaysSound` | `ResultsSound`, `ContextsSound`, `CancelSound` | `BatchInv`: the results collected are the first calls, in order, and those calls are done; while no turn was cut short, what was revealed waits in `extra`; on one thread only the call at the front is under way, so slots can only be its own, and what Ctrl-C finds running is in the slot |
| `AsyncExecProofs` | `RetentionHolds`, `TruthTold`, `RecordsOnce` | `Retention`, `ToldTruthfully`, the safety part of `ImplementsMailbox` | stages: a thread's place says whether the process was started and is over; those an execution is collected for stay over and newer. `CallsInv`: what a call knows is over, and a call in its start is about an execution being spawned; what is in the queue is what was announced and not taken, so each record that leaves it goes to a call's news or to the notice, and from there to `told` or `dropped`. Initial states map to `Mailbox`'s, every step to one of its steps or a stutter |
| `AccountingProofs` | `TypeCorrect`, `NoCompactionStorm`, `CountersAlwaysSound`, `RemindedOnce` | types, `StormBounded`, `CountersSound`, `ReminderOnce` | each firing moves the watermark by more than the hysteresis; what is spent is at most the budget outside an answer and one window above inside; a pending countdown is about the last counted call |
| `HttpClientProofs` | `RateAlwaysBounded`, `AttemptsAlwaysSound` | `RateBounded`, `AttemptsSound` | `LimiterInv`: the stamps the limiter keeps are the youngest admitted ones, so a full window refuses; `CallInv`: pieces of an attempt are "old" only before the next one clears them, and twice the slow retries is bounded by the budgets spent |
| `ReplProofs` | `QueueAlwaysSound`, `InputAlwaysSound` | `QueueSound`, `InputSound` | `QueueInv`: every queue is in the order of typing, and what was run is older than what is pending, that than what is collected, that than what is unread; at the prompt nothing is queued, which is why reading there may overtake the queues; only an interrupted turn drops lines. `InputSound` is inductive by itself |

What a session's steps do to its histories is said once, by shape (`QuietSteps`,
`MendingSteps`, `SayingSteps`, …: which steps leave them alone, repair one, add a
message, merge, replace); each invariant is then kept per shape.

`RequestsArePaired` leaves out the default mode with ids the provider mints
again, because a journal of one message outside a turn is not used (section 5): the
call it holds is unknown to the resumed process, which may give its id to another
call in the same journal.  `EffectsAreRecovered` leaves out what section 5 lists:
after the resume, a compaction may journal the placeholder of a finished call,
and inline results are never re-injected.

`PromptIsKept` and `ClearIsFinal` leave out the default mode, where both are false
(section 5).

`JournalAlwaysHistory` leaves out the default mode, where a resume may take the
snapshot, or start afresh, while the journal holds one message, and flattening,
which rewrites what the resumed process sends but not what is in the journal.

Only model-checked: `ClientExact` and `FilesExact` (on every input of their bounds); and all liveness (`AsyncLive`, `CallsEnd`, `BatchEnds`, `Served`,
`TurnEnds` in `TurnSound`, the fairness of `Mailbox`), which is out of reach of
the prover.

## 5. Where the code does not do what it says

One has a run, `torn_snapshot`: the snapshot is rewritten in place (2309) and
`json.load` raises on resume before the journal is looked at (`README.md` 787,
`_journal.py` 12).  Six more can be reproduced with a configuration that is kept
here for it; the passing runs exclude them by a constant or by their mode:

| configuration, property | the code does | what is said |
|---|---|---|
| `MCJournalFile_newline.cfg`, `TornTailIgnored` | a cut before the newline is not torn for the repair; the next record joins the line and the journal is refused from then on | `_journal.py` 27: a torn tail is ignored |
| `MCJournalFile_repair.cfg`, `AckedKept` | a crash between truncation and rewrite loses every record | `_journal.py` 150: drop only the incomplete final record |
| `MCDurableSession_prompt_lost.cfg`, `SystemPromptKept` | a default-mode journal has no system prompt, and recovery takes the journal | `_journal.py` 21: rebuild the conversation exactly as it was |
| `MCDurableSession_flatten_results.cfg`, `EffectsRecovered` | the known-results note looks for `tool_calls` that flattening has removed | `README.md` 792: the recorded result is re-injected |
| `MCDurableSession_clear_resume.cfg`, `ClearedStaysCleared` | in the default mode `/clear` and a resume bring the snapshot back | `slash_commands.py` 172: reset the history |
| `MCAsyncExec_interrupted.cfg`, `DrainedIsReported` | Ctrl-C in a `nohup_wait` throws away the records of other executions it has taken (743–761); Ctrl-C before the task is in the history, or a UserPromptSubmit hook that refuses it (5081–5089), throws away the notice | `async_toolkit.py` 121–122: whoever drains one owns reporting it |

Two more properties are in the modules and are violated:

* `BudgetShared` (`HttpClient`): stalls and timeouts share their budget in part
  only, against `openai_compat.py` 68–73; the bound that does hold is `MaxSlow`.
* `AllCompletionsTold` (`AsyncExec`): a delayed execution that ends within
  100 ms is not announced, nor one whose start Ctrl-C cut before it had a
  watching thread, nor what a cut or refused turn dropped (`README.md` 391).

Met on the way; the properties are worded around them.

*Durability.*  An append that fails part way leaves half a line under the next
record.  Ctrl-C between `turn_start` and the `try` writes no `turn_end`.  A call
interrupted with Ctrl-C stays in flight in the journal, and every resume notes
it.  A recovery note behind a trailing user message, or two notes, and then `/c`
send consecutive user messages.  The result of an inline call is never
re-injected (why `inline` does not check `EffectsRecovered`); with an id the
provider mints again, the note may give an old call's result (why `capture` does
not check `NotesTruthful`); a journal of one message outside a turn is not used.
A finished call of an interrupted turn gets a placeholder which, once journalled
by a compaction or a merge, hides the recorded result.  Nothing keeps two
processes without a `session_dir` from one journal.

*Accounting.*  The watermark moves although PreCompact blocked the compaction
(4401 against 4113): that is what prevents a storm, but a blocked compaction is
not tried again until the prompt has grown.  The first automatic compaction is
reported as "manual".  A cold resume is detected only by `/c`.  A reminder
crossed by an answer without tool calls is lost.  A session resumed by its id
starts counting afresh (3616, 3673): below the threshold the model is reminded
again without a crossing, which `ReminderOnce` allows, while a session restored
from its dict is not.  The calls of a compaction and
of a failed cache proof are not counted, and answers without usage spend
nothing.  A doubled budget may still be too small.

*Dispatch.*  A turn interrupted in PostToolUse hooks leaves its time span for the
next result.  In parallel mode Ctrl-C waits for all workers, and queued calls
still start (against 467–474); the first `t_run` to finish clears `_active_proc`
for the others.  A command that `t_run` has spawned and not yet put in
`_active_proc` (409–418) is out of reach: a cancellation lets it run to its end
and Ctrl-C leaves it running after the turn, against `CancelToken` ("any
subprocess the current tool call has in flight is aborted", 4710).  Between threads a hook context may go to a list that was
already taken.  A reveal is lost when its turn is cut short.

*Deferred tools.*  A resumed process starts with no revealed tools: with glm, what
an earlier compaction had un-hidden is hidden again, and the next compaction
loses what only the resumed history refers to, against "a revealed tool stays
available on later turns" (`_deferred_tools.py` 20); with kimi a tool found again
after a resume is declared twice.  `RevealedKept` counts from the last resume.

*Hooks.*  Exit code 1 with an object on stdout is applied.  The system message of
an asynchronous hook is never delivered.  "ask" without a terminal runs the
call.  A PostToolUse block is lost when another handler says `continue: false`.  A
timeout of 0 waits without limit.

*Background execution.*  A notice repeats what `nohup_wait` returned; collection
sorts by the time of start, not of end; between registration and start an entry
can be collected under a running `_spawn`, whose look-up then raises a KeyError
(504, 524): on the main thread it ends the turn, in a pool it is the result of
the call, and either way the inline result is lost.  Ctrl-C in a sequential call
or while a pool is running loses what the calls had learned, records taken from
the queue and inline results.  A start that fails, or that Ctrl-C cuts before
its process exists, leaves an entry that never starts: a `nohup_wait` without
budget on it ends only when the user types or interrupts (`Hopeless`), and holds
the records of others until then.  `/c`, and lines typed during a turn, start
turns without a notice, so completions wait for the next prompt.

*HTTP.*  Retries after 429 with a delay are unbounded and the delay uncapped; a
negative `retry-after-ms` makes `time.sleep` raise; a stream that ends without
`[DONE]` is returned as whole; a streamed call without arguments has the
arguments "", which do not parse.

*REPL.*  Ctrl-C in the windows of `run_turn` before its `try` and inside its
`finally` leaves `_in_turn` and `_busy` up (`caught`); an interrupt drops queued
lines; a control message at an idle prompt waits for a keystroke, and one that
was accepted is lost at the exit; slash commands overtake queued tasks and a
queued "exit" is passed over; Ctrl-C at a question only fails the tool; two
parallel questions are two readers; lines that arrive together are one task.
`Served` is about taking: a message or a completion is served when its turn
takes it, and Ctrl-C at the start of that turn, or a refusing hook, then loses
it (for completions, `AsyncExec` says what happens next).

*Files.*  Only the first file of a patch is edited, its hunks are joined, a hunk
that only inserts goes to the start of the file; one that only deletes leaves an
empty line where its lines were, because what replaces them is joined to "" with
a newline after it (305–307); a negative limit counts from the end.

## 6. Not modelled

* Step reducers: callables of the user; between the replacement of the step and
  its record is one list assignment.
* The sandbox (a command line), keys, the inference database, prices,
  specification loading, terminal formatting, emitted events: no protocol of
  their own.
* SIGTERM and repeated SIGINT (a second Ctrl-C while a pool is still waited for),
  Interrupt hooks; in `AsyncExec`, a Ctrl-C between two results of a pool (it counts
  as one before the first); the framing and the socket path
  of the control socket; the sweep of files of earlier processes; the contents
  of captured output; snapshots found under other models; the keyword search
  behind deferred tools; the prompt of a summary.
