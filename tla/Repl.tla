-------------------------------- MODULE Repl --------------------------------
(***************************************************************************)
(* The interactive loop (run_repl, run_async_repl in _core.py) with the    *)
(* lines the user types, the reader thread that collects them while a turn *)
(* runs, the inbox of the control socket (_control.py), SIGINT and the     *)
(* wake-up for finished background executions.                             *)
(*                                                                         *)
(* stdin is a terminal: select reports whole lines, so a collector that is *)
(* stopped has put the line it read.  SIGINT can hit run_turn between the  *)
(* assignments of its flags and the try whose finally resets them, and     *)
(* inside that finally: "entering" and "leaving" are these two windows.    *)
(***************************************************************************)
EXTENDS Naturals, SequencesExt

CONSTANTS
    MaxLines,         \* bound: lines the user types
    MaxMessages,      \* bound: control messages
    MaxFinished,      \* bound: background executions that finish
    MaxSigints        \* bound: presses of Ctrl-C

ASSUME ReplAssumption == {MaxLines, MaxMessages, MaxFinished, MaxSigints} \subseteq Nat

VARIABLES
    mode,             \* "sync" (run_repl, control socket) or "async", fixed
    where,            \* where the main thread is
    stdin,            \* lines typed and not read
    typed,            \* lines typed so far; they are numbered
    reader,           \* the collector's reader thread runs
    collected,        \* the collector's queue
    pending,          \* _pending: tasks for the turns that follow
    interrupted,      \* this turn was interrupted
    inTurn,           \* _in_turn: whether the SIGINT handler acts
    busy,             \* session["_busy"]: what the control socket reports
    inbox,            \* control messages not polled yet
    sent,             \* control messages accepted; they are numbered
    served,           \* control messages run, in this order
    socket,           \* the control socket accepts
    finished,         \* background completions nobody reported
    wakes,            \* completions so far
    sigints,          \* presses of Ctrl-C so far
    caught,           \* one of them hit a window of run_turn
    ran,              \* typed lines that were run as tasks, in this order
    handled           \* typed lines that were run, dispatched, answered or ignored

vars == <<mode, where, stdin, typed, reader, collected, pending, interrupted, inTurn, busy,
          inbox, sent, served, socket, finished, wakes, sigints, caught, ran, handled>>
collector == <<reader, collected, pending, interrupted>>
flags == <<inTurn, busy, caught, sigints>>
control == <<inbox, sent, served, socket>>
background == <<finished, wakes>>
lines == <<ran, handled>>

LineKinds == {"task", "exit", "command", "continue"}
Line == [id : 1 .. MaxLines, kind : LineKinds]
InRunTurn == {"entering", "turn", "asking", "leaving"}
IdsOf(s) == {s[i].id : i \in DOMAIN s}

TypeOK ==
    /\ mode \in {"sync", "async"}
    /\ where \in InRunTurn \cup {"poll", "prompt", "drain", "next", "teardown", "over"}
    /\ {stdin, collected, pending} \subseteq Seq(Line)
    /\ typed \in 0 .. MaxLines /\ sent \in 0 .. MaxMessages
    /\ {reader, interrupted, inTurn, busy, socket, caught} \subseteq BOOLEAN
    /\ inbox \in Seq(1 .. MaxMessages) /\ served \in Seq(1 .. MaxMessages)
    /\ finished \in 0 .. MaxFinished /\ wakes \in 0 .. MaxFinished
    /\ sigints \in 0 .. MaxSigints
    /\ ran \in Seq(1 .. MaxLines) /\ handled \subseteq 1 .. MaxLines

Init ==
    /\ mode \in {"sync", "async"}
    /\ where = "poll"
    /\ stdin = <<>> /\ typed = 0
    /\ reader = FALSE /\ collected = <<>> /\ pending = <<>> /\ interrupted = FALSE
    /\ inTurn = FALSE /\ busy = FALSE
    /\ inbox = <<>> /\ sent = 0 /\ served = <<>> /\ socket = (mode = "sync")
    /\ finished = 0 /\ wakes = 0
    /\ sigints = 0 /\ caught = FALSE
    /\ ran = <<>> /\ handled = {}

-----------------------------------------------------------------------------
(* The user, the supervisor at the control socket, background executions   *)

Type ==
    /\ where # "over" /\ typed < MaxLines
    /\ typed' = typed + 1
    /\ \E k \in LineKinds : stdin' = Append(stdin, [id |-> typed + 1, kind |-> k])
    /\ UNCHANGED <<mode, where, collector, flags, control, background, lines>>

\* _handle_line, "send": the message is in the inbox, the reply is ok.
Send ==
    /\ socket /\ sent < MaxMessages
    /\ sent' = sent + 1
    /\ inbox' = Append(inbox, sent + 1)
    /\ UNCHANGED <<mode, where, stdin, typed, collector, flags, served, socket, background,
                   lines>>

Finish ==
    /\ where # "over" /\ wakes < MaxFinished
    /\ wakes' = wakes + 1
    /\ finished' = finished + 1
    /\ UNCHANGED <<mode, where, stdin, typed, collector, flags, control, lines>>

\* _InputCollector._reader: a line typed during the turn is queued.
Collect ==
    /\ reader /\ stdin # <<>>
    /\ collected' = Append(collected, Head(stdin))
    /\ stdin' = Tail(stdin)
    /\ UNCHANGED <<mode, where, typed, reader, pending, interrupted, flags, control,
                   background, lines>>

-----------------------------------------------------------------------------
(* run_turn                                                                *)

\* The flags are up and SIGINT aborts; in the asynchronous loop the reader
\* thread was started before.
Begin ==
    /\ where' = "entering"
    /\ inTurn' = TRUE /\ busy' = TRUE
    /\ reader' = (mode = "async")
    /\ interrupted' = FALSE

Enter ==
    /\ where = "entering"
    /\ where' = "turn"
    /\ UNCHANGED <<mode, stdin, typed, collector, flags, control, background, lines>>

\* Mutant: the question is asked while the reader runs.
AskUnpaused ==
    /\ where = "turn" /\ stdin = <<>> /\ typed < MaxLines
    /\ where' = "asking"
    /\ UNCHANGED <<mode, stdin, typed, collector, flags, control, background, lines>>

\* ask_user_question stops the reader and reads a line itself.
Ask ==
    /\ where = "turn" /\ stdin = <<>> /\ typed < MaxLines
    /\ where' = "asking"
    /\ reader' = FALSE
    /\ UNCHANGED <<mode, stdin, typed, collected, pending, interrupted, flags, control,
                   background, lines>>

Answered ==
    /\ where = "asking" /\ stdin # <<>>
    /\ where' = "turn"
    /\ handled' = handled \cup {Head(stdin).id}
    /\ stdin' = Tail(stdin)
    /\ reader' = (mode = "async")
    /\ UNCHANGED <<mode, typed, collected, pending, interrupted, flags, control,
                   background, ran>>

\* A final answer, or an exception that is reported.
TurnEnds ==
    /\ where = "turn"
    /\ where' = "leaving"
    /\ UNCHANGED <<mode, stdin, typed, collector, flags, control, background, lines>>

\* Mutant: the queue is emptied after every turn.
AfterClears(aborted) ==
    /\ where' = IF mode = "async" /\ ~aborted THEN "drain" ELSE "poll"
    /\ reader' = FALSE
    /\ collected' = <<>>
    /\ pending' = IF aborted THEN <<>> ELSE pending
    /\ interrupted' = FALSE

\* After a turn: the synchronous loop polls again, the other one drains what was
\* collected, or drops it when the turn was interrupted.
After(aborted) ==
    /\ where' = IF mode = "async" /\ ~aborted THEN "drain" ELSE "poll"
    /\ reader' = FALSE
    /\ collected' = IF aborted THEN <<>> ELSE collected
    /\ pending' = IF aborted THEN <<>> ELSE pending
    /\ interrupted' = FALSE

\* The finally of run_turn.
Leave ==
    /\ where = "leaving"
    /\ inTurn' = FALSE /\ busy' = FALSE
    /\ After(interrupted)
    /\ UNCHANGED <<mode, stdin, typed, caught, sigints, control, background, lines>>

\* SIGINT while the flag is up: the turn unwinds; a question is answered with an
\* error and the turn goes on; in a window of run_turn the flags stay up.
Sigint ==
    /\ sigints < MaxSigints /\ where # "over"
    /\ sigints' = sigints + 1
    /\ \/ ~inTurn /\ UNCHANGED <<where, collector, inTurn, busy, caught>>
       \/ /\ where = "turn"
          /\ where' = "leaving" /\ interrupted' = TRUE
          /\ UNCHANGED <<reader, collected, pending, inTurn, busy, caught>>
       \/ /\ where = "asking"
          /\ where' = "turn" /\ reader' = (mode = "async")
          /\ UNCHANGED <<collected, pending, interrupted, inTurn, busy, caught>>
       \/ /\ where \in {"entering", "leaving"}
          /\ caught' = TRUE
          /\ After(TRUE)
          /\ UNCHANGED <<inTurn, busy>>
       \/ /\ inTurn /\ where = "prompt"
          /\ where' = "poll"
          /\ UNCHANGED <<collector, inTurn, busy, caught>>
       \/ /\ inTurn /\ where \in {"poll", "drain", "next"}
          /\ where' = "teardown"
          /\ UNCHANGED <<collector, inTurn, busy, caught>>
       \/ /\ inTurn /\ where = "teardown"
          /\ where' = "over"
          /\ UNCHANGED <<collector, inTurn, busy, caught>>
    /\ UNCHANGED <<mode, stdin, typed, control, background, lines>>

-----------------------------------------------------------------------------
(* The loop                                                                *)

\* Mutant: the notice is read and stays.
BodyKeepsNotice(kind) ==
    /\ IF kind = "command"
       THEN where' = "poll" /\ UNCHANGED <<reader, interrupted, inTurn, busy>>
       ELSE Begin
    /\ UNCHANGED <<collected, pending, caught, sigints, background>>

\* _repl_loop_body: a slash command is handled
\* here (/c retries the turn), anything else is the task of a turn, which takes
\* the notice of finished executions along.
Body(kind) ==
    /\ IF kind = "command"
       THEN where' = "poll" /\ UNCHANGED <<reader, interrupted, inTurn, busy>>
       ELSE Begin
    /\ finished' = IF kind = "task" THEN 0 ELSE finished
    /\ UNCHANGED <<collected, pending, caught, sigints, wakes>>

\* poll_control_inbox: the oldest message, as if it had been typed.
Poll ==
    /\ where = "poll" /\ inbox # <<>>
    /\ inbox' = Tail(inbox)
    /\ served' = Append(served, Head(inbox))
    /\ \E kind \in {"task", "command"} : Body(kind)
    /\ UNCHANGED <<mode, stdin, typed, sent, socket, lines>>

Prompt ==
    /\ where = "poll" /\ inbox = <<>>
    /\ where' = "prompt"
    /\ UNCHANGED <<mode, stdin, typed, collector, flags, control, background, lines>>

\* read_repl_input: lines that arrive together are one text.  Several lines are
\* never "exit"; a command takes those after it for arguments.
Text(k) ==
    IF k > 1 /\ Head(stdin).kind = "exit" THEN "task" ELSE Head(stdin).kind

Read ==
    /\ where = "prompt"
    /\ \E k \in DOMAIN stdin :
          LET ids == [i \in 1 .. k |-> stdin[i].id] IN
          /\ stdin' = SubSeq(stdin, k + 1, Len(stdin))
          /\ handled' = handled \cup ToSet(ids)
          /\ ran' = IF Text(k) = "task" THEN ran \o ids ELSE ran
          /\ IF Text(k) = "exit"
             THEN where' = "teardown" /\ UNCHANGED <<collector, flags, background>>
             ELSE Body(Text(k))
    /\ UNCHANGED <<mode, typed, control>>

EndOfInput ==
    /\ where = "prompt" /\ stdin = <<>>
    /\ where' = "teardown"
    /\ UNCHANGED <<mode, stdin, typed, collector, flags, control, background, lines>>

\* BackgroundWake: a completion and nothing typed; the notice is the task.
Wake ==
    /\ where = "prompt" /\ stdin = <<>> /\ finished > 0
    /\ Body("task")
    /\ UNCHANGED <<mode, stdin, typed, control, lines>>

\* What was collected, line by line: "exit" is passed over, a command is
\* dispatched now, the rest waits its turn.
Drain ==
    /\ where = "drain" /\ collected # <<>>
    /\ LET l == Head(collected) IN
       IF l.kind \in {"task", "continue"}
       THEN pending' = Append(pending, l) /\ UNCHANGED handled
       ELSE handled' = handled \cup {l.id} /\ UNCHANGED pending
    /\ collected' = Tail(collected)
    /\ UNCHANGED <<mode, where, stdin, typed, reader, interrupted, flags, control, background,
                   ran>>

Drained ==
    /\ where = "drain" /\ collected = <<>>
    /\ where' = "next"
    /\ UNCHANGED <<mode, stdin, typed, collector, flags, control, background, lines>>

NextTask ==
    /\ where = "next" /\ pending # <<>>
    /\ Begin
    /\ pending' = Tail(pending)
    /\ handled' = handled \cup {Head(pending).id}
    /\ ran' = IF Head(pending).kind = "task" THEN Append(ran, Head(pending).id) ELSE ran
    /\ UNCHANGED <<mode, stdin, typed, collected, caught, sigints, control, background>>

NoTask ==
    /\ where = "next" /\ pending = <<>>
    /\ where' = "poll"
    /\ UNCHANGED <<mode, stdin, typed, collector, flags, control, background, lines>>

\* _repl_teardown: snapshot, SessionEnd hooks, and only then the socket.
Teardown ==
    /\ where = "teardown"
    /\ where' = "over"
    /\ socket' = FALSE
    /\ UNCHANGED <<mode, stdin, typed, collector, flags, inbox, sent, served, background,
                   lines>>

-----------------------------------------------------------------------------
Main ==
    \/ Enter \/ TurnEnds \/ Leave \/ Poll \/ Prompt \/ Read \/ Drain \/ Drained
    \/ NextTask \/ NoTask \/ Teardown
Next == Type \/ Send \/ Finish \/ Collect \/ Main \/ Ask \/ Answered \/ Sigint \/ EndOfInput \/ Wake

\* The threads run and a turn ends; nobody has to type, send or press anything.
Spec ==
    /\ Init /\ [][Next]_vars
    /\ WF_vars(Main) /\ WF_vars(Collect) /\ WF_vars(Wake)

-----------------------------------------------------------------------------
(* Properties                                                              *)

Increasing(s) == \A i, j \in DOMAIN s : i < j => s[i] < s[j]

\* Tasks run once each and in the order they were typed, whether they were read
\* at the prompt or collected during a turn; control messages in the order they
\* were accepted (poll_control_inbox: "FIFO").
TasksInOrder == Increasing(ran) /\ Increasing(served)

\* As long as nobody presses Ctrl-C, a line that was typed is waiting somewhere
\* or was handled (an interrupt drops what was collected).
NothingLost ==
    sigints = 0 =>
        1 .. typed = handled \cup IdsOf(stdin) \cup IdsOf(collected) \cup IdsOf(pending)

\* What was typed is run once, in order, and is never mislaid.
QueueSound == TypeOK /\ TasksInOrder /\ NothingLost

\* status reports busy exactly while run_turn is on, unless Ctrl-C hit a window.
StatusTruthful == caught \/ (busy <=> where \in InRunTurn)

\* Tools that read the terminal do not compete with the reader thread, and no
\* reader outlives the turn it was started for.
OneReader == reader => where \in {"entering", "turn", "leaving"}

\* Who reads the terminal, and what the supervisor is told of it.
InputSound == StatusTruthful /\ OneReader

\* A line that was typed is handled some time, unless a question waits for the
\* user, the session ends or Ctrl-C drops it.
LinesHandled ==
    \A n \in 1 .. MaxLines :
        typed >= n ~> (n \in handled \/ where \in {"asking", "over"} \/ sigints > 0)

\* A control message sent during a turn is run after it, also when the turn is
\* interrupted.
ControlServed ==
    \A n \in 1 .. MaxMessages :
        (n \in ToSet(inbox) /\ where = "turn")
            ~> (n \in ToSet(served) \/ where \in {"asking", "over"})

\* A background execution that finished is told to the model.
CompletionsReported == finished > 0 ~> (finished = 0 \/ where \in {"asking", "over"})

\* Nobody who asks something of the session waits for ever: the user, a
\* supervisor, a background execution.
Served == LinesHandled /\ ControlServed /\ CompletionsReported
=============================================================================
