----------------------------- MODULE HttpClient -----------------------------
(***************************************************************************)
(* The HTTP client (agentknit/openai_compat.py): the rate limiter that all *)
(* clients of one base URL share, _retry_post with its budgets, and        *)
(* _create_streaming with the watchdog that closes a silent stream.        *)
(*                                                                         *)
(* The server is free to answer anything at any time.  Time is the age of  *)
(* the limiter's stamps, which stops mattering after a Window; how long a  *)
(* retry waits is left out, that it passes the limiter again is not.  Of   *)
(* the pieces of an answer the model knows whether this attempt sent them. *)
(***************************************************************************)
EXTENDS Naturals, SequencesExt

CONSTANTS
    Callers,          \* threads with a request: the turn, a side query
    Streaming,        \* those of Callers that pass on_content_delta
    None,             \* nobody
    MaxRpm,           \* requests the limiter admits per Window
    Window,           \* one minute
    MaxRead,          \* _MAX_READ_TIMEOUT_RETRIES
    MaxServer,        \* _MAX_SERVER_ERROR_RETRIES
    MaxQuota,         \* _MAX_QUOTA_RETRIES
    MaxLimited        \* bound: 429 answers with a delay, per call

ASSUME CallersAssumption == Streaming \subseteq Callers /\ None \notin Callers
ASSUME LimiterAssumption == MaxRpm \in Nat \ {0} /\ Window \in Nat \ {0}
ASSUME BudgetAssumption ==
    MaxRead \in Nat /\ MaxServer \in Nat /\ MaxQuota \in Nat /\ MaxLimited \in Nat

VARIABLES
    stamps,           \* RateLimiter._timestamps, as ages (Window: that or older)
    recent,           \* ages of all admitted requests younger than a Window
    lock,             \* who holds RateLimiter._lock (over time.sleep, too)
    pc,               \* per caller: where its create() is
    read,             \* read_timeout_retries of _create_streaming
    post,             \* read_timeout_retries, server_error_retries and
    server,           \*   quota_retries of the running _retry_post
    quota,
    slow,             \* retries of this call after a timeout or a stall
    limited,          \* retries of this call after a 429
    answer,           \* assembled_*: pieces of this attempt, of older ones
    whole,            \* the stream's [DONE] was read
    fired             \* watchdog.fired()

vars == <<stamps, recent, lock, pc, read, post, server, quota, slow,
          limited, answer, whole, fired>>
limiter == <<stamps, recent, lock>>
budgets == <<read, post, server, quota>>
counts == <<slow, limited>>
stream == <<answer, whole, fired>>

Places == {"idle", "acquire", "sleeping", "sent", "reading", "closing",
           "returned", "failed"}
MaxSlow == (MaxRead * (MaxRead + 3)) \div 2

TypeOK ==
    /\ stamps \in Seq(0 .. Window) /\ Len(stamps) <= MaxRpm
    /\ recent \in Seq(0 .. Window - 1)
    /\ lock \in Callers \cup {None}
    /\ pc \in [Callers -> Places]
    /\ read \in [Callers -> 0 .. MaxRead] /\ post \in [Callers -> 0 .. MaxRead]
    /\ server \in [Callers -> 0 .. MaxServer] /\ quota \in [Callers -> 0 .. MaxQuota]
    /\ slow \in [Callers -> Nat] /\ limited \in [Callers -> 0 .. MaxLimited]
    /\ answer \in [Callers -> SUBSET {"new", "old"}]
    /\ whole \in [Callers -> BOOLEAN] /\ fired \in [Callers -> BOOLEAN]

Init ==
    /\ stamps = <<>> /\ recent = <<>> /\ lock = None
    /\ pc = [c \in Callers |-> "idle"]
    /\ read = [c \in Callers |-> 0] /\ post = [c \in Callers |-> 0]
    /\ server = [c \in Callers |-> 0] /\ quota = [c \in Callers |-> 0]
    /\ slow = [c \in Callers |-> 0] /\ limited = [c \in Callers |-> 0]
    /\ answer = [c \in Callers |-> {}]
    /\ whole = [c \in Callers |-> FALSE] /\ fired = [c \in Callers |-> FALSE]

-----------------------------------------------------------------------------
(* Helpers                                                                 *)

Go(c, place) == pc' = [pc EXCEPT ![c] = place]
Incr(f, c) == [f EXCEPT ![c] = @ + 1]
Zero(f, c) == [f EXCEPT ![c] = 0]

\* create() is over, and its counters with it.
End(c, place) ==
    /\ Go(c, place)
    /\ read' = Zero(read, c) /\ post' = Zero(post, c)
    /\ server' = Zero(server, c) /\ quota' = Zero(quota, c)

-----------------------------------------------------------------------------
(* create()                                                                *)

\* Mutant: what the dead attempt assembled stays.
StartPostKeeps(c, stalls) ==
    /\ Go(c, "acquire")
    /\ post' = [post EXCEPT ![c] = stalls]
    /\ server' = Zero(server, c) /\ quota' = Zero(quota, c)
    /\ whole' = [whole EXCEPT ![c] = FALSE] /\ fired' = [fired EXCEPT ![c] = FALSE]
    /\ UNCHANGED answer

\* A _retry_post starts with its own counters, and with the stalls counted so
\* far; every piece of an earlier attempt is gone.
StartPost(c, stalls) ==
    /\ Go(c, "acquire")
    /\ post' = [post EXCEPT ![c] = stalls]
    /\ server' = Zero(server, c) /\ quota' = Zero(quota, c)
    /\ answer' = [answer EXCEPT ![c] = {}]
    /\ whole' = [whole EXCEPT ![c] = FALSE] /\ fired' = [fired EXCEPT ![c] = FALSE]

Create(c) ==
    /\ pc[c] = "idle"
    /\ StartPost(c, 0)
    /\ UNCHANGED <<limiter, read, counts>>

-----------------------------------------------------------------------------
(* RateLimiter                                                             *)

\* A deque with maxlen MaxRpm: the oldest stamp falls out.
Pushed(q, x) == LET r == Append(q, x)
                IN  IF Len(r) > MaxRpm THEN Tail(r) ELSE r

\* Mutant: the minute is measured from the newest stamp's second, not the
\* oldest one's.
FullByNewest == Len(stamps) = MaxRpm /\ Last(stamps) = 0

Full == Len(stamps) = MaxRpm /\ Head(stamps) < Window

\* The stamp is taken, the lock released, and the request goes out.
Admit(c) ==
    /\ stamps' = Pushed(stamps, 0)
    /\ recent' = Append(recent, 0)
    /\ lock' = None
    /\ Go(c, "sent")
    /\ answer' = [answer EXCEPT ![c] = IF @ = {} THEN {} ELSE {"old"}]
    /\ UNCHANGED <<budgets, counts, whole, fired>>

Acquire(c) ==
    /\ pc[c] = "acquire" /\ lock = None
    /\ ~Full
    /\ Admit(c)

\* The minute is full: sleep with the lock held.
FallAsleep(c) ==
    /\ pc[c] = "acquire" /\ lock = None
    /\ Full
    /\ lock' = c
    /\ Go(c, "sleeping")
    /\ UNCHANGED <<stamps, recent, budgets, counts, stream>>

Wake(c) ==
    /\ pc[c] = "sleeping" /\ Head(stamps) >= Window
    /\ Admit(c)

\* Time passes for every stamp; the oldest of a sequence come first.
Aged(q) == [i \in DOMAIN q |-> IF q[i] < Window THEN q[i] + 1 ELSE Window]
Dropped(q, k) == [i \in 1 .. Len(q) - k |-> q[i + k]]

Tick ==
    /\ \E i \in DOMAIN stamps : stamps[i] < Window
    /\ stamps' = Aged(stamps)
    /\ \E k \in 0 .. Len(recent) :
          /\ \A i \in DOMAIN recent : i <= k <=> Aged(recent)[i] = Window
          /\ recent' = Dropped(Aged(recent), k)
    /\ UNCHANGED <<lock, pc, budgets, counts, stream>>

-----------------------------------------------------------------------------
(* _retry_post: what the server may answer                                 *)

Fail(c) ==
    /\ End(c, "failed")
    /\ UNCHANGED <<limiter, counts, stream>>

\* httpx.ReadTimeout before the response: another attempt, or raised.
ReadTimeout(c) ==
    /\ pc[c] = "sent"
    /\ IF post[c] >= MaxRead
       THEN Fail(c)
       ELSE /\ post' = Incr(post, c) /\ slow' = Incr(slow, c)
            /\ Go(c, "acquire")
            /\ UNCHANGED <<limiter, read, server, quota, limited, stream>>

\* A status of _RETRYABLE_STATUS_CODES.
ServerError(c) ==
    /\ pc[c] = "sent"
    /\ IF server[c] >= MaxServer
       THEN Fail(c)
       ELSE /\ server' = Incr(server, c)
            /\ Go(c, "acquire")
            /\ UNCHANGED <<limiter, read, post, quota, counts, stream>>

\* 429 with a delay in a header or the body.  There is no budget.
RateLimited(c) ==
    /\ pc[c] = "sent" /\ limited[c] < MaxLimited
    /\ limited' = Incr(limited, c)
    /\ Go(c, "acquire")
    /\ UNCHANGED <<limiter, budgets, slow, stream>>

\* 403 of an exhausted window whose reset time is known.
QuotaExhausted(c) ==
    /\ pc[c] = "sent"
    /\ IF quota[c] >= MaxQuota
       THEN Fail(c)
       ELSE /\ quota' = Incr(quota, c)
            /\ Go(c, "acquire")
            /\ UNCHANGED <<limiter, read, post, server, counts, stream>>

\* 429 or 403 without a delay, any other error status, no connection.
Refused(c) == pc[c] = "sent" /\ Fail(c)

\* 2xx: the body is parsed at once, or streamed under a watchdog.
Success(c) ==
    /\ pc[c] = "sent"
    /\ IF c \in Streaming
       THEN Go(c, "reading") /\ UNCHANGED <<budgets, answer, whole>>
       ELSE /\ End(c, "returned")
            /\ answer' = [answer EXCEPT ![c] = {"new"}]
            /\ whole' = [whole EXCEPT ![c] = TRUE]
    /\ UNCHANGED <<limiter, counts, fired>>

-----------------------------------------------------------------------------
(* _create_streaming                                                       *)

\* A line with a piece of the answer.
Line(c) ==
    /\ pc[c] = "reading" /\ ~fired[c]
    /\ answer' = [answer EXCEPT ![c] = @ \cup {"new"}]
    /\ UNCHANGED <<limiter, pc, budgets, counts, whole, fired>>

\* data: [DONE], or the server ends the stream without it.
StreamEnds(c, done) ==
    /\ pc[c] = "reading" /\ (done => ~fired[c])
    /\ whole' = [whole EXCEPT ![c] = done]
    /\ Go(c, "closing")
    /\ UNCHANGED <<limiter, budgets, counts, answer, fired>>

\* The connection breaks, or raises because the watchdog closed it: the
\* exception leaves create().
StreamBreaks(c) == pc[c] = "reading" /\ Fail(c)

\* Mutant: the watchdog only waits for the first line.
FireFirst(c) ==
    /\ pc[c] \in {"reading", "closing"} /\ ~fired[c] /\ answer[c] = {}
    /\ fired' = [fired EXCEPT ![c] = TRUE]
    /\ UNCHANGED <<limiter, pc, budgets, counts, answer, whole>>

\* The watchdog closes a stream without a line for _STREAM_STALL_TIMEOUT_S.
\* It runs until stop(), also while the last line is being handled.
Fire(c) ==
    /\ pc[c] \in {"reading", "closing"} /\ ~fired[c]
    /\ fired' = [fired EXCEPT ![c] = TRUE]
    /\ UNCHANGED <<limiter, pc, budgets, counts, answer, whole>>

\* watchdog.stop(); a fired one means another attempt, or StreamStallError.
Close(c) ==
    /\ pc[c] = "closing"
    /\ IF ~fired[c]
       THEN End(c, "returned") /\ UNCHANGED <<limiter, counts, stream>>
       ELSE IF read[c] >= MaxRead
       THEN Fail(c)
       ELSE /\ read' = Incr(read, c) /\ slow' = Incr(slow, c)
            /\ StartPost(c, read[c] + 1)
            /\ UNCHANGED <<limiter, limited>>

Answered(c) ==
    \/ ReadTimeout(c) \/ ServerError(c) \/ RateLimited(c)
    \/ QuotaExhausted(c) \/ Refused(c) \/ Success(c)

Next ==
    \/ Tick
    \/ \E c \in Callers :
           \/ Create(c) \/ Acquire(c) \/ FallAsleep(c) \/ Wake(c)
           \/ Answered(c) \/ Line(c)
           \/ StreamEnds(c, TRUE) \/ StreamEnds(c, FALSE) \/ StreamBreaks(c)
           \/ Fire(c) \/ Close(c)

\* Time passes and threads run; a request is answered or times out; a stream
\* ends, breaks or falls silent, and iter_lines() comes back from a stream its
\* watchdog closed.  The lock is handed to a thread that keeps asking for it.
Fairness ==
    /\ WF_vars(Tick)
    /\ \A c \in Callers :
           /\ SF_vars(Acquire(c) \/ FallAsleep(c)) /\ WF_vars(Wake(c))
           /\ WF_vars(Answered(c))
           /\ WF_vars(Fire(c))
           /\ WF_vars(fired[c] /\ (StreamEnds(c, FALSE) \/ StreamBreaks(c)))
           /\ WF_vars(Close(c))

Spec == Init /\ [][Next]_vars /\ Fairness

-----------------------------------------------------------------------------
(* Properties                                                              *)

\* No window of a minute sees more than MaxRpm requests admitted, whichever
\* threads they come from (RateLimiter.acquire).
RateBounded == Len(recent) <= MaxRpm

\* An answer is made of one attempt: nothing of a stalled one is left in it
\* (_create_streaming: "the assembled_* state from the dead attempt is
\* discarded").
OneAttempt == \A c \in Callers : pc[c] = "returned" => "old" \notin answer[c]

\* A call is not retried for ever after timeouts and stalls, though the two
\* share their budget only in part: a stall spends it for the posts that
\* follow, a timeout only for its own (_should_retry_read_timeout).
RetriesBounded == \A c \in Callers : slow[c] <= MaxSlow

\* _STREAM_STALL_TIMEOUT_SECONDS, openai_compat.py:73: "with one retry budget
\* shared by pre-response and mid-stream stalls alike".
BudgetShared == \A c \in Callers : slow[c] <= MaxRead

\* What a call returns, and what it may cost: one attempt's answer after a
\* bounded number of slow ones (_create_streaming, _retry_post).
AttemptsSound == TypeOK /\ OneAttempt /\ RetriesBounded

\* A call comes back, with an answer or an error, whoever else waits for the
\* limiter.
CallsEnd ==
    \A c \in Callers : pc[c] = "acquire" ~> pc[c] \in {"returned", "failed"}
=============================================================================
