--------------------------- MODULE DurableSession ---------------------------
(***************************************************************************)
(* One agent session across turns, interruptions, crashes and resumes      *)
(* (agentknit/_core.py: run_turn, _run_turn, _handle_tool_call,            *)
(* compact_session, the resume part of init_session, /clear, and the       *)
(* snapshot the REPL saves).                                               *)
(*                                                                         *)
(* A crash may separate any two durable writes or side effects: an action  *)
(* makes one of them, and CrashSaving splits compaction, which makes two.  *)
(* What is only in memory changes in the same action as the write next to  *)
(* it.                                                                     *)
(***************************************************************************)
EXTENDS JournalReplay

CONSTANTS
    Structured,     \* TRUE: API tool_calls; FALSE: calls inline in the text
    Capture,        \* a session_dir or a durable_sink: _durable_capture
    FlattenResume,  \* behaviour.resume_rejects_stale_tool_call_ids
    ReuseIds,       \* the provider may mint a call id it used before
    TearSnapshot,   \* a crash may truncate the snapshot being written
    Keep,           \* compaction_keep_last_turns
    MaxBatch,       \* bound: calls in one model answer
    MaxCalls,       \* bound: tool calls
    MaxTurns,       \* bound: turns
    MaxCompactions, \* bound: compactions
    MaxStops        \* bound: crashes and exits

ASSUME ModesAssumption == 
    {Structured, Capture, FlattenResume, ReuseIds, TearSnapshot} \subseteq BOOLEAN
ASSUME BoundsAssumption ==
    {Keep, MaxBatch, MaxCalls, MaxTurns, MaxCompactions, MaxStops} \subseteq Nat

VARIABLES
    \* on disk
    jr,             \* the journal, as the state its replay is in
    snapshot,       \* the messages of the snapshot file; <<>>: no file
    torn,           \* the snapshot file is cut short
    \* in memory
    pc,             \* where the session is
    messages,       \* session["messages"]
    todo,           \* calls of the current answer not appended yet
    results,        \* inline mode: results collected for the user message
    stopped,        \* state["stop_hook_active"]
    retries,        \* context_overflow_retries
    \* the world and bookkeeping
    ran,            \* calls whose tool has executed
    mark,           \* calls made before the latest turn began
    cleared,        \* what /clear removed from the history
    cut,            \* a process died inside the latest turn
    calls, turns, compactions, stops

disk == <<jr, snapshot, torn>>
memory == <<messages, todo, results, stopped, retries>>
ghosts == <<mark, cleared, cut>>
bookkeeping == <<ghosts, calls, turns, compactions, stops>>
vars == <<disk, pc, memory, ran, bookkeeping>>

\* Where a turn is once it has written turn_start and entered its try block.
InLoop == {"ask", "answered", "dispatch", "denied", "started", "ran", "ended", "final"}
\* Between the turn_start and the turn_end record.
InTurn == pc \in InLoop \cup {"submit", "close"}

Goto(from, to) == pc = from /\ pc' = to
Write(rec) == jr' = Replay(jr, rec)
-----------------------------------------------------------------------------
Init ==
    /\ jr = EmptyJournal
    /\ snapshot = <<>> /\ torn = FALSE
    /\ pc = "down"
    /\ messages = <<>>
    /\ todo = <<>>
    /\ results = <<>>
    /\ stopped = FALSE
    /\ retries = 0
    /\ ran = {}
    /\ mark = 0 /\ cleared = {} /\ cut = FALSE
    /\ calls = 0 /\ turns = 0 /\ compactions = 0 /\ stops = 0

\* Texts of the recovery notes for a set of calls.
Note(kind, noted) == {<<kind, c.n>> : c \in noted}

\* The history init_session gives a session from what is on disk: the fresh
\* system prompt, the snapshot, or the journal with its recovery notes.
Recovered(j) ==
    LET saved    == Normalise(snapshot, FlattenResume)
        replayed == Normalise(j.messages, FlattenResume)
        known    == {c \in Unreceived(j) : c.id \in CallIds(replayed)}
        pendings == IF j.pending = {} THEN <<>> ELSE <<User(Note("pending", j.pending))>>
        knowns   == IF known = {} THEN <<>> ELSE <<User(Note("known", known))>>
    IN  IF j.some /\ (MidTurn(j) \/ Len(j.messages) > 1)
        THEN replayed \o pendings \o knowns
        ELSE IF saved # <<>> THEN saved ELSE <<System>>

\* init_session: the first start and every resume of the session.  The system
\* prompt is journalled first when durable capture is on.  json.load rejects a
\* snapshot that is cut short, and the resume ends there.
Start ==
    /\ Goto("down", "idle")
    /\ ~torn
    /\ LET j == IF Capture THEN Replay(jr, Appended(System)) ELSE jr
       IN  jr' = j /\ messages' = Recovered(j)
    /\ todo' = <<>> /\ results' = <<>> /\ stopped' = FALSE /\ retries' = 0
    /\ UNCHANGED <<snapshot, torn, ran, bookkeeping>>

\* Mutant: the live history is not repaired before a turn.
BeginTurnUnrepaired ==
    /\ Goto("idle", "submit")
    /\ turns < MaxTurns
    /\ turns' = turns + 1
    /\ Write(TurnStart)
    /\ stopped' = FALSE
    /\ retries' = 0
    /\ mark' = calls
    /\ cut' = FALSE
    /\ UNCHANGED <<snapshot, torn, messages, todo, results, ran, cleared, calls, compactions, stops>>

\* _run_turn up to the turn_start record: the repair of the live history and
\* the reset of the Stop guard.
BeginTurn ==
    /\ Goto("idle", "submit")
    /\ turns < MaxTurns
    /\ turns' = turns + 1
    /\ Write(TurnStart)
    /\ messages' = Repair(messages)
    /\ stopped' = FALSE
    /\ retries' = 0
    /\ mark' = calls
    /\ cut' = FALSE
    /\ UNCHANGED <<snapshot, torn, todo, results, ran, cleared, calls, compactions, stops>>

\* A UserPromptSubmit hook rejects the prompt: only the repair happened.
PromptBlocked ==
    /\ Goto("idle", "idle")
    /\ messages' = Repair(messages)
    /\ stopped' = FALSE
    /\ UNCHANGED <<disk, todo, results, retries, ran, bookkeeping>>

\* The prompt joins the history: merged into a trailing user message, which
\* journals the whole history, or appended.
Submit ==
    /\ Goto("submit", "ask")
    /\ LET task == {<<"task", turns>>}
       IN  IF EndsWithUser(messages)
           THEN /\ messages' = MergeOne("user", messages, User(task))
                /\ Write(Reset(messages'))
           ELSE /\ messages' = Append(messages, User(task))
                /\ Write(Appended(User(task)))
    /\ UNCHANGED <<snapshot, torn, todo, results, stopped, retries, ran, bookkeeping>>

\* run_turn(task=None), the REPL's /c: the history is sent as it is.
Resubmit ==
    /\ Goto("submit", "ask")
    /\ UNCHANGED <<disk, memory, ran, bookkeeping>>

\* Ctrl-C before the try block: run_turn unwinds without a turn_end record.
InterruptedEarly ==
    /\ Goto("submit", "save")
    /\ UNCHANGED <<disk, memory, ran, bookkeeping>>

\* The request succeeds; what the model answered is decided when it is used.
ModelAnswers ==
    /\ Goto("ask", "answered")
    /\ retries' = 0
    /\ UNCHANGED <<disk, messages, todo, results, stopped, ran, bookkeeping>>

\* Rate limit or API error, the token budget, an unproved prefix cache, a
\* cancellation or Ctrl-C: the turn ends where it is.
TurnAborts ==
    /\ pc \in InLoop \ {"final"}
    /\ pc' = "close"
    /\ UNCHANGED <<disk, memory, ran, bookkeeping>>

\* The token budget is used up and the user doubles it: the answer is dropped
\* and the model asked again.
DoubleBudget ==
    /\ Goto("answered", "ask")
    /\ UNCHANGED <<disk, memory, ran, bookkeeping>>

\* Mutant: compaction is not journalled.
CompactUnjournalled(h) ==
    /\ compactions < MaxCompactions
    /\ compactions' = compactions + 1
    /\ h \in Compactions(messages, Keep)
    /\ messages' = h
    /\ snapshot' = h
    /\ UNCHANGED jr

\* compact_session: one of the compactions open to it, journalled and saved.
Compact(h) ==
    /\ compactions < MaxCompactions
    /\ compactions' = compactions + 1
    /\ h \in Compactions(messages, Keep)
    /\ messages' = h
    /\ Write(Reset(h))
    /\ snapshot' = h

\* The provider rejects the prompt as too long: compact and ask again; the
\* third rejection in a row ends the turn, as does one that nothing can be
\* compacted for (TurnAborts).
CompactAndRetry ==
    /\ pc = "ask"
    /\ retries' = retries + 1
    /\ pc' = IF retries' < 3 THEN "ask" ELSE "close"
    /\ \E h \in Compactions(messages, Keep) : Compact(h)
    /\ UNCHANGED <<torn, todo, results, stopped, ran, ghosts, calls, turns, stops>>

\* _apply_compaction_policy after an answer and after the final reply, and
\* the /compact command between turns.
CompactNow ==
    /\ pc \in {"answered", "final", "idle"}
    /\ \E h \in Compactions(messages, Keep) : Compact(h)
    /\ UNCHANGED <<pc, torn, todo, results, stopped, retries, ran, ghosts, calls, turns, stops>>

\* The ids a provider may mint for k calls: new ones or, if it may repeat
\* itself, some it minted before.
Minting(k) ==
    IF ReuseIds
    THEN {f \in [1 .. k -> 1 .. (calls + k)] : \A i \in 1 .. k : f[i] <= calls + i}
    ELSE {[i \in 1 .. k |-> calls + i]}

\* Mutant: ids are unique within one answer only.
NewIdsPerAnswer(k) == {f \in Minting(k) : IsInjective(f)}

\* The ids of k new calls: unique in the history (_unique_tool_call_ids).
NewIds(k) == {f \in Minting(k) : IsInjective(f) /\ Range(f) \cap CallIds(messages) = {}}

NewCalls(k) == {[i \in 1 .. k |-> [id |-> f[i], n |-> calls + i]] : f \in NewIds(k)}

\* The answer makes calls: the assistant message is journalled and appended
\* before any of them is dispatched.
AnswerCalls ==
    /\ Goto("answered", "dispatch")
    /\ \E k \in 1 .. MaxBatch :
          /\ calls + k <= MaxCalls
          /\ calls' = calls + k
          /\ \E c \in NewCalls(k) :
                LET m == IF Structured THEN Calling(c) ELSE Assistant({<<"inline", calls + 1>>})
                IN  /\ todo' = c
                    /\ messages' = Append(messages, m)
                    /\ Write(Appended(m))
    /\ results' = <<>>
    /\ UNCHANGED <<snapshot, torn, stopped, retries, ran, ghosts, turns, compactions, stops>>

\* Mutant: the tool runs without a tool_start record.
StartToolUnlogged ==
    /\ Goto("dispatch", "started")
    /\ todo # <<>>
    /\ UNCHANGED <<disk, memory, ran, bookkeeping>>

\* _handle_tool_call: the write-ahead tool_start record, after the hooks.
StartTool ==
    /\ Goto("dispatch", "started")
    /\ todo # <<>>
    /\ Write(ToolStart(Head(todo)))
    /\ UNCHANGED <<snapshot, torn, memory, ran, bookkeeping>>

\* A PreToolUse hook or the user denies the call, the arguments do not parse
\* or no such tool exists: tool_start and tool_end without a run.
RefuseTool ==
    /\ Goto("dispatch", "denied")
    /\ todo # <<>>
    /\ Write(ToolStart(Head(todo)))
    /\ UNCHANGED <<snapshot, torn, memory, ran, bookkeeping>>

\* The tool executes and its side effects happen.
RunTool ==
    /\ Goto("started", "ran")
    /\ ran' = ran \cup {Head(todo)}
    /\ UNCHANGED <<disk, memory, bookkeeping>>

\* The tool_end record, of a tool that ran or of a call that was refused.
EndTool ==
    /\ pc \in {"ran", "denied"}
    /\ pc' = "ended"
    /\ Write(ToolEnd(Head(todo)))
    /\ UNCHANGED <<snapshot, torn, memory, ran, bookkeeping>>

\* The tool raises: its failure is recorded, then the exception ends the turn.
ToolRaises ==
    /\ Goto("ran", "close")
    /\ Write(ToolEnd(Head(todo)))
    /\ UNCHANGED <<snapshot, torn, memory, ran, bookkeeping>>

ResultOf(c) == {<<"res", c.n>>}

\* Structured: the tool message is journalled and appended.
AppendResult ==
    /\ Structured
    /\ Goto("ended", "dispatch")
    /\ LET c == Head(todo)
           m == ToolResult(c.id, ResultOf(c))
       IN  messages' = Append(messages, m) /\ Write(Appended(m))
    /\ todo' = Tail(todo)
    /\ UNCHANGED <<snapshot, torn, results, stopped, retries, ran, bookkeeping>>

\* Inline: the result waits in memory for those of the other calls.
CollectResult ==
    /\ ~Structured
    /\ Goto("ended", "dispatch")
    /\ results' = Append(results, Head(todo))
    /\ todo' = Tail(todo)
    /\ UNCHANGED <<disk, messages, stopped, retries, ran, bookkeeping>>

\* All calls answered: ask the model again.  Inline mode first appends the
\* user message "Tool results:".
StepDone ==
    /\ Goto("dispatch", "ask")
    /\ todo = <<>>
    /\ IF Structured
       THEN UNCHANGED <<jr, messages>>
       ELSE LET m == User(UNION {ResultOf(results[i]) : i \in DOMAIN results})
            IN  messages' = Append(messages, m) /\ Write(Appended(m))
    /\ results' = <<>>
    /\ UNCHANGED <<snapshot, torn, todo, stopped, retries, ran, bookkeeping>>

\* The answer is the final reply.
AnswerFinal ==
    /\ Goto("answered", "final")
    /\ LET m == Assistant({<<"reply", turns>>})
       IN  messages' = Append(messages, m) /\ Write(Appended(m))
    /\ UNCHANGED <<snapshot, torn, todo, results, stopped, retries, ran, bookkeeping>>

\* A Stop hook blocks, once per turn: its reason becomes a user message.
StopBlocked ==
    /\ Goto("final", "ask")
    /\ ~stopped
    /\ stopped' = TRUE
    /\ LET m == User({<<"stop", turns>>})
       IN  messages' = Append(messages, m) /\ Write(Appended(m))
    /\ UNCHANGED <<snapshot, torn, todo, results, retries, ran, bookkeeping>>

\* No Stop hook objects (or it already did): the turn is over.
ReplyStands ==
    /\ Goto("final", "close")
    /\ UNCHANGED <<disk, memory, ran, bookkeeping>>

\* The finally clause: whatever ended the turn, turn_end is written.
EndTurn ==
    /\ Goto("close", "save")
    /\ Write(TurnEnd)
    /\ todo' = <<>>
    /\ results' = <<>>
    /\ UNCHANGED <<snapshot, torn, messages, stopped, retries, ran, bookkeeping>>

\* _save_messages_snapshot, which skips a history of system messages only.
SaveSnapshot ==
    /\ Goto("save", "idle")
    /\ snapshot' = IF NonSystem(messages) = {} THEN snapshot ELSE messages
    /\ UNCHANGED <<jr, torn, memory, ran, bookkeeping>>

\* Mutant: /clear forgets the journal.
ClearUnjournalled ==
    /\ Goto("idle", "save")
    /\ LET kept == OfRoles(messages, {"system"})
       IN  messages' = IF kept # <<>> \/ messages = <<>> THEN kept ELSE <<Head(messages)>>
    /\ cleared' = cleared \cup (Mentions(messages) \ Mentions(messages'))
    /\ UNCHANGED <<disk, todo, results, stopped, retries, ran, mark, cut,
                   calls, turns, compactions, stops>>

\* /clear: only the system messages stay (without any, the first message);
\* the REPL saves the snapshot after it.
Clear ==
    /\ Goto("idle", "save")
    /\ LET kept == OfRoles(messages, {"system"})
       IN  messages' = IF kept # <<>> \/ messages = <<>> THEN kept ELSE <<Head(messages)>>
    /\ Write(Reset(messages'))
    /\ cleared' = cleared \cup (Mentions(messages) \ Mentions(messages'))
    /\ UNCHANGED <<snapshot, torn, todo, results, stopped, retries, ran, mark, cut,
                   calls, turns, compactions, stops>>

\* The process ends and its memory is gone.
Stop ==
    /\ stops < MaxStops
    /\ stops' = stops + 1
    /\ pc' = "down"
    /\ messages' = <<>> /\ todo' = <<>> /\ results' = <<>>
    /\ UNCHANGED <<stopped, retries, ran, mark, cleared, calls, turns>>

\* The session is left at the prompt; its teardown saves the snapshot.
Exit ==
    /\ pc = "idle"
    /\ snapshot' = IF NonSystem(messages) = {} THEN snapshot ELSE messages
    /\ UNCHANGED <<jr, torn, cut, compactions>>
    /\ Stop

Crash ==
    /\ pc # "down"
    /\ cut' = (cut \/ InTurn)
    /\ UNCHANGED <<disk, compactions>>
    /\ Stop

\* The process dies as it saves the snapshot - after a turn, in the teardown, or
\* in a compaction that is journalled already: before the file is opened, or
\* once opening it has emptied it.
CrashSaving ==
    /\ \/ /\ pc \in {"save", "idle"}
          /\ NonSystem(messages) # {}
          /\ UNCHANGED <<jr, compactions>>
       \/ /\ pc \in {"ask", "answered", "final", "idle"}
          /\ compactions < MaxCompactions
          /\ compactions' = compactions + 1
          /\ \E h \in Compactions(messages, Keep) : Write(Reset(h))
    /\ torn' \in {FALSE, TearSnapshot}
    /\ snapshot' = IF torn' THEN <<>> ELSE snapshot
    /\ cut' = (cut \/ InTurn)
    /\ Stop

Turn ==
    \/ BeginTurn \/ PromptBlocked \/ Submit \/ Resubmit \/ InterruptedEarly
    \/ ModelAnswers \/ DoubleBudget \/ TurnAborts \/ CompactAndRetry
    \/ AnswerCalls \/ StartTool \/ RefuseTool \/ RunTool \/ EndTool \/ ToolRaises
    \/ AppendResult \/ CollectResult \/ StepDone
    \/ AnswerFinal \/ StopBlocked \/ ReplyStands \/ EndTurn \/ SaveSnapshot

Next == Start \/ Turn \/ CompactNow \/ Clear \/ Exit \/ Crash \/ CrashSaving

Spec == Init /\ [][Next]_vars
-----------------------------------------------------------------------------
(* Correctness                                                             *)

Call == [id : Nat \ {NoCall}, n : Nat \ {0}]

IsHistory(h) ==
    \A i \in DOMAIN h :
        /\ h[i].role \in {"system", "user", "assistant", "tool"}
        /\ \A k \in DOMAIN h[i].calls : h[i].calls[k] \in Call
        /\ h[i].id # NoCall <=> h[i].role = "tool"

\* Every variable stays in its range.
TypeOK ==
    /\ IsHistory(jr.messages) /\ IsHistory(snapshot) /\ IsHistory(messages)
    /\ jr.some \in BOOLEAN /\ jr.open \in Nat
    /\ jr.pending \subseteq Call /\ jr.finished \subseteq Call
    /\ pc \in {"down", "idle", "submit", "close", "save"} \cup InLoop
    /\ todo \in Seq(Call) /\ results \in Seq(Call)
    /\ {stopped, cut, torn} \subseteq BOOLEAN
    /\ ran \subseteq Call
    /\ {retries, mark, calls, turns, compactions, stops} \subseteq Nat

\* Write-ahead: a tool whose side effects happened is in the journal, as
\* pending or finished, from before it ran and for ever - through crashes,
\* resumes, compactions and /clear.
EffectsJournalled == ran \subseteq jr.pending \cup jr.finished

\* The system messages and the recovery notes aside, the journal replays to
\* the live history at every moment: merges, repairs, compaction, hook
\* continuations, interruptions and earlier recoveries included.
JournalIsHistory ==
    pc # "down" /\ messages # jr.messages =>
        Conversation(messages) = Conversation(jr.messages)

\* What the providers reject is never sent: at every request each call has
\* its one result right behind it, and no id names two calls.
RequestPaired == pc = "ask" => Paired(messages) /\ UniqueIds(messages)

\* What a resumed history says of call c: its result, as a tool message or a
\* known result, or that it was in flight.
Accounts(c) == {<<"res", c.n>>, <<"known", c.n>>, <<"pending", c.n>>}

\* Whatever moment of a turn the process dies at, the resumed history accounts
\* for every tool of that turn that ran, unless compaction removed it or /clear
\* did since: the model never re-runs it unaware.  README, Durability: "a tool that finished
\* but whose result the model never saw is not re-run - the recorded result
\* is re-injected into the conversation as a recovery note".
EffectsRecovered ==
    InTurn \/ cut =>
        LET shown == Mentions(Recovered(jr))
        IN  \A c \in ran : c.n > mark =>
                \/ Accounts(c) \cap shown # {}
                \/ Structured /\ c \notin CallsOf(jr.messages)

\* A call is never both in flight and finished: the pending note ("these tool
\* calls were in flight") and the known-results note never name the same call.
InFlightUnended == jr.pending \cap jr.finished = {}

\* A result noted as known is the result of the one call of the resumed history
\* that bears its id, and is not in that history already.
NotesTruthful ==
    LET h == Recovered(jr)
    IN  \A c \in Unreceived(jr) : <<"known", c.n>> \in Mentions(h) =>
            /\ \A d \in CallsOf(h) : d.id = c.id => d = c
            /\ <<"res", c.n>> \notin Mentions(h)

\* A session that died inside a turn is seen to have died there.
MidTurnSeen == InTurn \/ cut => MidTurn(jr)

\* What a history tells of tasks, replies and calls.  (Recovery notes and
\* summaries are made anew whenever they are needed.)
Told(h) == {x \in Mentions(h) : x[1] \notin {"pending", "known", "summary"}}

\* What /clear removed from the history never comes back: no prompt, no reply,
\* no call and no result, through later turns, compactions, crashes and resumes.
ClearedStaysCleared == Told(messages) \cap cleared = {}

\* _journal.py: "messages rebuild the conversation exactly as it was".  A
\* resumed session still has its system prompt.
SystemPromptKept ==
    pc = "idle" => \E i \in DOMAIN messages : messages[i].role = "system"

\* README, Durability: "the journal is replayed and takes precedence over a
\* stale snapshot".  Whatever moment the process dies at, the session can be
\* resumed.
ResumeAlwaysPossible == pc = "down" => ENABLED Start
=============================================================================
