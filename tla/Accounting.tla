------------------------------ MODULE Accounting ------------------------------
(***************************************************************************)
(* What a turn spends and what that makes it do (_run_turn in _core.py):   *)
(* the token budget of a turn, the compaction trigger with its watermark,  *)
(* the retries after a context overflow, the countdown shown to the model, *)
(* and the cache proof.                                                    *)
(*                                                                         *)
(* Tokens are small numbers, and a history is its size.  The provider      *)
(* answers a request that fits the Window, with or without a usage block;  *)
(* what it says of its prefix cache is free.  A compaction may be blocked, *)
(* may fail, and otherwise leaves any smaller or equal size.               *)
(***************************************************************************)
EXTENDS Integers

CONSTANTS
    None,
    Window,           \* the provider's context window
    Trigger,          \* compaction_trigger_tokens
    Limit,            \* DEFAULT_MAX_TOKENS: the budget of a turn
    Budget,           \* token_awareness_budget_tokens
    Reminder,         \* token_awareness_reminder_tokens
    UpdateEvery,      \* token_awareness_update_every
    Floor,            \* min_cacheable_tokens
    MaxResult,        \* bound: tokens of one step's results
    MaxDoublings,     \* bound: doublings of the budget in a turn
    MaxSilent         \* bound: answers without usage in a turn

ASSUME SizesAssumption ==
    /\ Window \in Nat /\ Trigger \in Nat /\ Limit \in Nat /\ Floor \in Nat
    /\ Budget \in Nat \ {0} /\ Reminder \in Nat /\ UpdateEvery \in Nat \ {0}
    /\ MaxResult \in Nat /\ MaxDoublings \in Nat /\ MaxSilent \in Nat
    /\ None \notin Int

VARIABLES
    policy,           \* compaction_policy, fixed
    measurable,       \* reports_prompt_tokens, fixed
    turn,             \* where _run_turn is
    size,             \* tokens of messages
    prompt,           \* prompt_tokens of the last answer, 0 without usage
    total,            \* total_tokens spent in this turn
    maxTokens,        \* max_tokens of this turn
    doubled,          \* how often it was doubled
    silent,           \* answers without usage in this turn
    overflows,        \* context_overflow_retries
    watermark,        \* compaction_last_prompt_tokens
    firings,          \* times the threshold fired since the watermark was 0
    calls,            \* llm_call_count, as far as it matters
    pending,          \* pending_ta
    lastLeft,         \* token_awareness_last_remaining
    told,             \* the countdown the last step's results carry
    armed,            \* this process has not reminded the model since the
                      \*   tokens left were last reported above Reminder
    stopActive,       \* stop_hook_active
    old,              \* the last message is older than cache_ttl_seconds
    status,           \* _cache_status
    hit               \* the last answer reported a cache read or write

vars == <<policy, measurable, turn, size, prompt, total, maxTokens, doubled, silent,
          overflows, watermark, firings, calls, pending, lastLeft, told, armed,
          stopActive, old, status, hit>>
fixed == <<policy, measurable>>
spending == <<total, maxTokens, doubled, silent>>
compaction == <<watermark, firings>>
countdown == <<pending, lastLeft, told, armed>>
cache == <<old, status, hit>>
locals == <<prompt, spending, overflows, pending, told, stopActive>>

Phases == {"idle", "asking", "answered", "checked", "replied", "ending"}
Countdowns == [left : Nat, reminder : BOOLEAN]

TypeOK ==
    /\ policy \in {"threshold", "every_turn", "never"} /\ measurable \in BOOLEAN
    /\ turn \in Phases
    /\ size \in Nat /\ prompt \in Nat
    /\ total \in Nat /\ maxTokens \in Nat /\ doubled \in 0 .. MaxDoublings /\ silent \in 0 .. MaxSilent
    /\ overflows \in 0 .. 3
    /\ watermark \in Nat /\ firings \in Nat
    /\ calls \in Nat
    /\ pending \in Countdowns \cup {None} /\ told \in Countdowns \cup {None}
    /\ lastLeft \in Nat \cup {None} /\ armed \in BOOLEAN
    /\ stopActive \in BOOLEAN /\ old \in BOOLEAN /\ hit \in BOOLEAN
    /\ status \in {"ok", "missing", "unmeasurable"}

Init ==
    /\ policy \in {"threshold", "every_turn", "never"}
    /\ measurable \in BOOLEAN
    /\ turn = "idle" /\ size = 1 /\ prompt = 0
    /\ total = 0 /\ maxTokens = Limit /\ doubled = 0 /\ silent = 0
    /\ overflows = 0 /\ watermark = 0 /\ firings = 0 /\ calls = 0
    /\ pending = None /\ lastLeft = None /\ told = None /\ armed = TRUE
    /\ stopActive = FALSE /\ old = FALSE /\ status = "ok" /\ hit = FALSE

-----------------------------------------------------------------------------
(* Helpers                                                                 *)

Hysteresis == Trigger \div 4

\* llm_call_count: whether it is at most 1, and its rest modulo UpdateEvery.
Counted == IF calls > UpdateEvery THEN calls + 1 - UpdateEvery ELSE calls + 1

\* compact_session: the sizes a compaction that went through may leave.
CompactedTo == 2 .. size

\* _last_message_age_seconds is small again once a message was appended.
Appended(n) == size' = size + n /\ old' = FALSE

\* The locals of _run_turn are gone; stop_hook_active is reset by the next turn.
TurnOver ==
    /\ turn' = "idle" /\ prompt' = 0 /\ total' = 0 /\ maxTokens' = Limit
    /\ doubled' = 0 /\ silent' = 0 /\ overflows' = 0 /\ pending' = None
    /\ told' = None /\ stopActive' = FALSE

GoOn(phase) ==
    turn' = phase /\ UNCHANGED <<maxTokens, doubled, silent, stopActive>>

Left(p) == IF Budget > p THEN Budget - p ELSE 0

-----------------------------------------------------------------------------
(* The turn                                                                *)

\* run_turn with a task, or without one (/c).
BeginTurn ==
    /\ turn = "idle" /\ size <= Window + 1
    /\ turn' = "asking"
    /\ Appended(1) \/ UNCHANGED <<size, old>>
    /\ UNCHANGED <<fixed, locals, compaction, calls, lastLeft, armed, status, hit>>

\* The provider rejects the request: compact, and try again at most twice.
Overflow(ok) ==
    /\ turn = "asking" /\ size > Window
    /\ watermark' = 0 /\ firings' = 0
    /\ IF ok THEN size' \in CompactedTo ELSE UNCHANGED size
    /\ IF ok /\ overflows + 1 < 3
       THEN /\ overflows' = overflows + 1
            /\ UNCHANGED <<turn, prompt, spending, pending, told, stopActive>>
       ELSE TurnOver
    /\ UNCHANGED <<fixed, calls, lastLeft, armed, cache>>

\* Any other error of the request, Ctrl-C, a timeout.
Aborts ==
    /\ turn \in {"asking", "answered", "replied"}
    /\ TurnOver
    /\ UNCHANGED <<fixed, size, compaction, calls, lastLeft, armed, cache>>

\* _enforce_cache_proof: what a counted answer makes of the status, given
\* whether it has cache accounting (proof) and shows a read or write (active).
CacheStatus(proof, active) ==
    IF ~measurable THEN IF calls = 0 THEN "unmeasurable" ELSE status
    ELSE IF active THEN "ok"
    ELSE IF Counted <= 1 \/ old \/ (proof /\ size < Floor) THEN status
    ELSE "missing"

\* CacheProofError: strict mode fails on the first call only.
Unproven(proof) == measurable /\ Counted <= 1 /\ ~proof /\ size >= Floor

\* _token_awareness_injection: every UpdateEvery-th call, with the reminder
\* when the tokens left have just fallen below it.
Injection ==
    IF Counted % UpdateEvery # 0 THEN None
    ELSE [left |-> Left(size),
          reminder |-> /\ Left(size) < Reminder
                       /\ lastLeft # None => lastLeft >= Reminder]

\* Mutant: a countdown nobody has seen yet is kept.
PendingKept == IF pending # None THEN pending ELSE Injection

\* pending_ta after an answer: replaced, delivered or not.
PendingNow == Injection

\* Mutant: the tokens of the completion are not counted.
EffectivePrompt(read) == IF read THEN 0 ELSE size

Effective(read) == IF read THEN 1 ELSE size + 1

\* An answer with usage.  Tokens read from the cache are not charged.
Answered(proof, read, written) ==
    /\ turn = "asking" /\ size <= Window
    /\ read \/ written => proof /\ size >= Floor
    /\ calls' = Counted
    /\ lastLeft' = IF Injection = None THEN lastLeft ELSE Injection.left
    /\ armed' = (armed \/ (Injection # None /\ Left(size) >= Reminder))
    /\ status' = CacheStatus(proof, read \/ written)
    /\ hit' = (read \/ written)
    /\ IF Unproven(proof) THEN TurnOver
       ELSE /\ GoOn("answered")
            /\ prompt' = size
            /\ total' = total + Effective(read)
            /\ overflows' = 0
            /\ pending' = PendingNow /\ told' = None
    /\ UNCHANGED <<fixed, size, compaction, old>>

\* An answer without usage: nothing is counted.
AnsweredSilently ==
    /\ turn = "asking" /\ size <= Window
    /\ silent < MaxSilent
    /\ turn' = "answered"
    /\ silent' = silent + 1
    /\ overflows' = 0
    /\ prompt' = 0
    /\ status' = IF calls >= 1 /\ ~old THEN "missing" ELSE status
    /\ hit' = FALSE
    /\ told' = None
    /\ UNCHANGED <<fixed, size, total, maxTokens, doubled, compaction, calls, pending,
                   lastLeft, armed, stopActive, old>>

\* _apply_compaction_policy mid-turn.  The watermark moves whether or not the
\* compaction went through.
Fires == policy # "never" /\ prompt >= Trigger /\ prompt > watermark + Hysteresis

\* Mutant: a blocked or failed compaction leaves the watermark (what a comment
\* in compact_session says).
WatermarkIfDone(ok) == IF ok THEN prompt ELSE watermark

NewWatermark(ok) == prompt

CompactMidTurn(ok) ==
    /\ turn = "answered"
    /\ turn' = "checked"
    /\ prompt' = 0
    /\ IF Fires
       THEN /\ IF ok THEN size' \in CompactedTo ELSE UNCHANGED size
            /\ watermark' = NewWatermark(ok)
            /\ firings' = firings + 1
       ELSE ~ok /\ UNCHANGED <<size, compaction>>
    /\ UNCHANGED <<fixed, spending, overflows, calls, countdown, stopActive, cache>>

OverBudget == total > maxTokens

\* The budget is spent: the turn ends, or the user doubles the budget and the
\* answer is asked for again.
CheckBudget ==
    /\ turn = "checked"
    /\ \/ ~OverBudget /\ turn' = "replied" /\ UNCHANGED locals
       \/ OverBudget /\ TurnOver
       \/ /\ OverBudget /\ doubled < MaxDoublings
          /\ maxTokens' = 2 * maxTokens /\ doubled' = doubled + 1
          /\ turn' = "asking"
          /\ UNCHANGED <<prompt, total, silent, overflows, pending, told, stopActive>>
    /\ UNCHANGED <<fixed, size, compaction, calls, lastLeft, armed, cache>>

\* The reply has tool calls: the first result carries what is pending.
ToolCalls ==
    /\ turn = "replied"
    /\ \E n \in 1 .. MaxResult : Appended(n)
    /\ told' = pending
    /\ pending' = None
    /\ armed' = (armed /\ ~(pending # None /\ pending.reminder))
    /\ GoOn("asking")
    /\ UNCHANGED <<fixed, prompt, total, overflows, compaction, calls, lastLeft,
                   status, hit>>

\* The reply is final; a Stop hook may refuse it once.
FinalAnswer ==
    /\ turn = "replied"
    /\ Appended(1)
    /\ turn' = "ending"
    /\ UNCHANGED <<fixed, locals, compaction, calls, lastLeft, armed, status, hit>>

StopBlocked ==
    /\ turn = "ending" /\ ~stopActive
    /\ stopActive' = TRUE
    /\ Appended(1)
    /\ turn' = "asking"
    /\ UNCHANGED <<fixed, prompt, spending, overflows, compaction, calls, countdown,
                   status, hit>>

\* _apply_compaction_policy at the end of the turn leaves the watermark alone.
EndTurn(ok) ==
    /\ turn = "ending"
    /\ TurnOver
    /\ IF ok THEN policy = "every_turn" /\ size' \in CompactedTo ELSE UNCHANGED size
    /\ UNCHANGED <<fixed, compaction, calls, lastLeft, armed, cache>>

-----------------------------------------------------------------------------
(* Between turns                                                           *)

\* /clear
Clear ==
    /\ turn = "idle"
    /\ size' = 1
    /\ watermark' = 0 /\ firings' = 0
    /\ UNCHANGED <<fixed, turn, locals, calls, lastLeft, armed, cache>>

\* init_session(session=...): the dict of an earlier session is kept, but for
\* the watermark.
Restore ==
    /\ turn = "idle"
    /\ watermark' = 0 /\ firings' = 0
    /\ UNCHANGED <<fixed, turn, size, locals, calls, lastLeft, armed, cache>>

\* init_session(resumed_from=...): the messages of a saved session in a fresh
\* one, which has counted nothing and told the model nothing.
Resume ==
    /\ turn = "idle"
    /\ watermark' = 0 /\ firings' = 0
    /\ calls' = 0 /\ lastLeft' = None /\ armed' = TRUE
    /\ status' = "ok" /\ hit' = FALSE
    /\ UNCHANGED <<fixed, turn, size, locals, old>>

\* The user is away for longer than the cache lives.
Away ==
    /\ turn = "idle"
    /\ old' = TRUE
    /\ UNCHANGED <<fixed, turn, size, locals, compaction, calls, lastLeft, armed,
                   status, hit>>

-----------------------------------------------------------------------------
Turn ==
    \/ \E ok \in BOOLEAN : Overflow(ok) \/ CompactMidTurn(ok) \/ EndTurn(ok)
    \/ \E proof, read, written \in BOOLEAN : Answered(proof, read, written)
    \/ AnsweredSilently \/ CheckBudget \/ ToolCalls \/ FinalAnswer \/ StopBlocked
    \/ Aborts

Next == Turn \/ BeginTurn \/ Clear \/ Restore \/ Resume \/ Away

\* A turn runs on by itself.
Spec == Init /\ [][Next]_vars /\ WF_vars(Turn)

-----------------------------------------------------------------------------
(* Properties                                                              *)

\* No compaction storm (_maybe_compact): however many calls a session makes
\* and whatever the compactions achieve, the threshold fires only as often as
\* the prompt can climb by more than a quarter of the trigger inside the
\* window, until an overflow, /clear or a resume starts over.
StormBounded ==
    firings > 0 => /\ Trigger + (firings - 1) * (Hysteresis + 1) <= watermark
                   /\ watermark <= Window

\* What a step tells the model of its budget is what the server reported for
\* the last call it counts down, never an older pending text
\* (_token_awareness_injection: "never padded or fabricated").
CountdownFresh == told # None => told.left = lastLeft

\* The model is reminded once per crossing (the "edge-triggered" comment in
\* _token_awareness_injection): after a reminder it saw, only when the tokens
\* left were reported above the threshold in between.  A session resumed by its
\* id has forgotten what it reported and may remind once more.
ReminderOnce == [][told' # None /\ told' # told /\ told'.reminder => armed]_vars

\* The warning about the cache clears on the next answer that shows a read or
\* a write, and only an answer without one raises it.
WarningTruthful == status = "missing" /\ measurable => ~hit

\* However the loop comes round (calls, retries, a refused stop), one answer at
\* most is paid for beyond the budget, and one more per doubling: the user may
\* double a budget that is still too small for what was spent.
OverspendBounded == total <= maxTokens + (doubled + 1) * (Window + 1)

\* What the session counts and tells of its tokens is what was reported.
CountersSound == TypeOK /\ CountdownFresh /\ WarningTruthful /\ OverspendBounded

\* Every turn ends, also when the model calls tools for ever, when compaction
\* never helps and when some answers carry no usage.
TurnEnds == turn # "idle" ~> turn = "idle"

\* The reminder is a single one, and the loop it is part of is finite.
TurnSound == ReminderOnce /\ TurnEnds
=============================================================================
